------------------------------- MODULE Reads -------------------------------
(***************************************************************************)
(* The read commands of a projection: the read half of the storage         *)
(* (native/vdr_ts_nif/src/storage), its dispatch (read_commands.rs) and    *)
(* the way of a result through a Lua script (storage/lua.rs, lib.rs).      *)
(* Reads change nothing: each is an operator on one database.              *)
(*                                                                         *)
(* A reply is <<"ok", x>> or the WRONGTYPE error; an optional value is the *)
(* sequence of none or one.  Keys, members and fields are naturals in the  *)
(* order of the byte strings they stand for.  SRANDMEMBER and HRANDFIELD,  *)
(* which draw at random, are left out.                                     *)
(***************************************************************************)
EXTENDS Storage

Ok(x) == <<"ok", x>>

WrongType == <<"error">>

\* The frame of the reads: a missing key is read as an empty value.
Reply(d, key, kind, Read(_)) ==
    IF FreeFor(d, key, kind) THEN Ok(Read(ContentOf(d, key, kind))) ELSE WrongType

\* The frame of the pages of a scan: a count of 0 is answered before anything
\* is looked up.
PageReply(d, key, kind, count, Read(_)) ==
    IF count = 0 THEN Ok(<<>>) ELSE Reply(d, key, kind, Read)

\* The pages of an ordered container: iter().take, iter().rev().take and the
\* same from an excluded bound.
FirstOf(s, count) == TakeFront(Ascending(s), count)

LastOf(s, count) == TakeFront(Reverse(Ascending(s)), count)

After(s, cursor, count) == FirstOf({x \in s : x > cursor}, count)

Before(s, cursor, count) == LastOf({x \in s : x < cursor}, count)

-----------------------------------------------------------------------------
(* mod.rs and strings.rs *)

get(d, key) ==
    IF FreeFor(d, key, "str") THEN Ok(IF key \in DOMAIN d THEN <<d[key].str>> ELSE <<>>)
    ELSE WrongType

first(d, count) == Ok(FirstOf(DOMAIN d, count))

last(d, count) == Ok(LastOf(DOMAIN d, count))

next(d, key, count) == Ok(After(DOMAIN d, key, count))

prev(d, key, count) == Ok(Before(DOMAIN d, key, count))

-----------------------------------------------------------------------------
(* lists.rs *)

llen(d, key) == Reply(d, key, "list", Len)

lrange(d, key, start, stop) == Reply(d, key, "list", LAMBDA l : Trim(l, start, stop))

-----------------------------------------------------------------------------
(* sets.rs *)

smembers(d, key) == Reply(d, key, "set", Ascending)

sismember(d, key, member) == Reply(d, key, "set", LAMBDA s : member \in s)

smismember(d, key, members) ==
    Reply(d, key, "set", LAMBDA s : [i \in DOMAIN members |-> members[i] \in s])

scard(d, key) == Reply(d, key, "set", Cardinality)

sfirst(d, key, count) == PageReply(d, key, "set", count, LAMBDA s : FirstOf(s, count))

slast(d, key, count) == PageReply(d, key, "set", count, LAMBDA s : LastOf(s, count))

snext(d, key, member, count) ==
    PageReply(d, key, "set", count, LAMBDA s : After(s, member, count))

sprev(d, key, member, count) ==
    PageReply(d, key, "set", count, LAMBDA s : Before(s, member, count))

sunion(d, keys) ==
    IF \A i \in DOMAIN keys : FreeFor(d, keys[i], "set")
    THEN Ok(Ascending(UNION {ContentOf(d, keys[i], "set") : i \in DOMAIN keys}))
    ELSE WrongType

\* The keys are looked at one after the other: a missing one, unless it is the
\* first, ends the intersection before a later one of another type is seen.
Intersection(d, keys) ==
    LET missing == {i \in 2 .. Len(keys) : keys[i] \notin DOMAIN d}
        wrong == {i \in DOMAIN keys : ~FreeFor(d, keys[i], "set")}
    IN IF wrong # {} /\ \A i \in missing : i > Min(wrong) THEN WrongType
       ELSE Ok({m \in ContentOf(d, keys[1], "set") :
                  \A i \in DOMAIN keys : m \in ContentOf(d, keys[i], "set")})

sinter(d, keys) ==
    LET found == Intersection(d, keys)
    IN IF found = WrongType THEN found ELSE Ok(Ascending(found[2]))

sintercard(d, keys) ==
    LET found == Intersection(d, keys)
    IN IF found = WrongType THEN found ELSE Ok(Cardinality(found[2]))

sdiff(d, keys) ==
    IF \A i \in DOMAIN keys : FreeFor(d, keys[i], "set")
    THEN Ok(Ascending(ContentOf(d, keys[1], "set")
                        \ UNION {ContentOf(d, keys[i], "set") : i \in 2 .. Len(keys)}))
    ELSE WrongType

-----------------------------------------------------------------------------
(* hashes.rs *)

Optional(f, x) == IF x \in DOMAIN f THEN <<f[x]>> ELSE <<>>

hget(d, key, field) == Reply(d, key, "hash", LAMBDA h : Optional(h, field))

hmget(d, key, fields) ==
    Reply(d, key, "hash", LAMBDA h : [i \in DOMAIN fields |-> Optional(h, fields[i])])

\* Pairs of field and value, in the order of the fields given.
WithValues(h, fields) == [i \in DOMAIN fields |-> <<fields[i], h[fields[i]]>>]

hgetall(d, key) == Reply(d, key, "hash", LAMBDA h : WithValues(h, Ascending(DOMAIN h)))

hkeys(d, key) == Reply(d, key, "hash", LAMBDA h : Ascending(DOMAIN h))

hvals(d, key) ==
    Reply(d, key, "hash", LAMBDA h : LET fields == Ascending(DOMAIN h)
                                     IN [i \in DOMAIN fields |-> h[fields[i]]])

hlen(d, key) == Reply(d, key, "hash", LAMBDA h : Cardinality(DOMAIN h))

hexists(d, key, field) == Reply(d, key, "hash", LAMBDA h : field \in DOMAIN h)

hstrlen(d, key, field) ==
    Reply(d, key, "hash", LAMBDA h : IF field \in DOMAIN h THEN Len(h[field]) ELSE 0)

hfirst(d, key, count) ==
    PageReply(d, key, "hash", count, LAMBDA h : WithValues(h, FirstOf(DOMAIN h, count)))

hlast(d, key, count) ==
    PageReply(d, key, "hash", count, LAMBDA h : WithValues(h, LastOf(DOMAIN h, count)))

hnext(d, key, field, count) ==
    PageReply(d, key, "hash", count, LAMBDA h : WithValues(h, After(DOMAIN h, field, count)))

hprev(d, key, field, count) ==
    PageReply(d, key, "hash", count, LAMBDA h : WithValues(h, Before(DOMAIN h, field, count)))

-----------------------------------------------------------------------------
(* zsets.rs *)

\* indexset's rank: how many keys of the index are below a key.
RankOf(z, score, member) == Cardinality({p \in z.index : IndexLess(p, <<score, member>>)})

\* The rank of min_score_key and max_score_key, which lie below and above
\* every member with that score.
RankBelow(z, score) == Cardinality({p \in z.index : p[1] < score})

RankAbove(z, score) == Cardinality({p \in z.index : p[1] <= score})

Swapped(pairs) == [i \in DOMAIN pairs |-> <<pairs[i][2], pairs[i][1]>>]

\* with_scores: pairs of member and score, else members.
Listed(pairs, with_scores) ==
    IF with_scores THEN Swapped(pairs) ELSE [i \in DOMAIN pairs |-> pairs[i][2]]

zscore(d, key, member) == Reply(d, key, "zset", LAMBDA z : Optional(z.entries, member))

zcard(d, key) == Reply(d, key, "zset", LAMBDA z : Cardinality(DOMAIN z.entries))

zrange(d, key, start, stop, with_scores) ==
    Reply(d, key, "zset", LAMBDA z : Listed(Trim(Ranked(z), start, stop), with_scores))

zrangebyscore(d, key, min, max, with_scores) ==
    Reply(d, key, "zset", LAMBDA z :
        Listed(Ordered({p \in z.index : min <= p[1] /\ p[1] <= max}), with_scores))

\* The score comes from the map, the rank from the index.
zrank(d, key, member) ==
    Reply(d, key, "zset", LAMBDA z :
        IF member \in DOMAIN z.entries THEN <<RankOf(z, z.entries[member], member)>> ELSE <<>>)

zrevrank(d, key, member) ==
    Reply(d, key, "zset", LAMBDA z :
        IF member \in DOMAIN z.entries
        THEN <<Cardinality(DOMAIN z.entries) - 1 - RankOf(z, z.entries[member], member)>>
        ELSE <<>>)

\* Slip for ReadsAgree: the members with the upper score are not counted.
zcountExclusive(d, key, min, max) ==
    Reply(d, key, "zset", LAMBDA z : Max({RankBelow(z, max) - RankBelow(z, min), 0}))

\* A difference of ranks; an inverted range counts nothing.
zcount(d, key, min, max) ==
    Reply(d, key, "zset", LAMBDA z : Max({RankAbove(z, max) - RankBelow(z, min), 0}))

\* Pairs of score and member in the order of the members given: the scans of
\* a sorted set walk the map, in member order.
ByMember(z, members) == [i \in DOMAIN members |-> <<z.entries[members[i]], members[i]>>]

zfirst(d, key, count) ==
    PageReply(d, key, "zset", count, LAMBDA z : ByMember(z, FirstOf(DOMAIN z.entries, count)))

zlast(d, key, count) ==
    PageReply(d, key, "zset", count, LAMBDA z : ByMember(z, LastOf(DOMAIN z.entries, count)))

\* Slip for ScansSurviveWrites: the walk goes on in the index, after the
\* member's present place.
znextByScore(d, key, member, count) ==
    PageReply(d, key, "zset", count, LAMBDA z :
        TakeFront(SelectSeq(Ranked(z), LAMBDA p :
            member \in DOMAIN z.entries => IndexLess(<<z.entries[member], member>>, p)), count))

znext(d, key, member, count) ==
    PageReply(d, key, "zset", count, LAMBDA z :
        ByMember(z, After(DOMAIN z.entries, member, count)))

zprev(d, key, member, count) ==
    PageReply(d, key, "zset", count, LAMBDA z :
        ByMember(z, Before(DOMAIN z.entries, member, count)))

-----------------------------------------------------------------------------
(* read_commands.rs: the handlers, by family.  A command with an argument   *)
(* of the wrong number or type is refused before the storage is reached and *)
(* is left out.                                                             *)

KeyReads == {"get", "first", "last", "next", "prev"}

KeyReadHandler(d, c) ==
    CASE c.op = "get" -> get(d, c.key)
      [] c.op = "first" -> first(d, c.count)
      [] c.op = "last" -> last(d, c.count)
      [] c.op = "next" -> next(d, c.key, c.count)
      [] c.op = "prev" -> prev(d, c.key, c.count)

SetReads == {"smembers", "sismember", "scard", "smismember"}

SetReadHandler(d, c) ==
    CASE c.op = "smembers" -> smembers(d, c.key)
      [] c.op = "sismember" -> sismember(d, c.key, c.member)
      [] c.op = "scard" -> scard(d, c.key)
      [] c.op = "smismember" -> smismember(d, c.key, c.members)

SetScans == {"sfirst", "slast", "snext", "sprev"}

SetScanHandler(d, c) ==
    CASE c.op = "sfirst" -> sfirst(d, c.key, c.count)
      [] c.op = "slast" -> slast(d, c.key, c.count)
      [] c.op = "snext" -> snext(d, c.key, c.member, c.count)
      [] c.op = "sprev" -> sprev(d, c.key, c.member, c.count)

SetAlgebra == {"sunion", "sinter", "sdiff", "sintercard"}

SetAlgebraHandler(d, c) ==
    CASE c.op = "sunion" -> sunion(d, c.keys)
      [] c.op = "sinter" -> sinter(d, c.keys)
      [] c.op = "sdiff" -> sdiff(d, c.keys)
      [] c.op = "sintercard" -> sintercard(d, c.keys)

ListReads == {"llen", "lrange"}

ListReadHandler(d, c) ==
    CASE c.op = "llen" -> llen(d, c.key)
      [] c.op = "lrange" -> lrange(d, c.key, c.start, c.stop)

FieldReads == {"hget", "hmget", "hgetall"}

FieldReadHandler(d, c) ==
    CASE c.op = "hget" -> hget(d, c.key, c.member)
      [] c.op = "hmget" -> hmget(d, c.key, c.members)
      [] c.op = "hgetall" -> hgetall(d, c.key)

HashReads == {"hkeys", "hvals", "hlen", "hexists"}

HashReadHandler(d, c) ==
    CASE c.op = "hkeys" -> hkeys(d, c.key)
      [] c.op = "hvals" -> hvals(d, c.key)
      [] c.op = "hlen" -> hlen(d, c.key)
      [] c.op = "hexists" -> hexists(d, c.key, c.member)

HashScans == {"hfirst", "hlast", "hnext", "hprev", "hstrlen"}

HashScanHandler(d, c) ==
    CASE c.op = "hfirst" -> hfirst(d, c.key, c.count)
      [] c.op = "hlast" -> hlast(d, c.key, c.count)
      [] c.op = "hnext" -> hnext(d, c.key, c.member, c.count)
      [] c.op = "hprev" -> hprev(d, c.key, c.member, c.count)
      [] c.op = "hstrlen" -> hstrlen(d, c.key, c.member)

ZSetReads == {"zscore", "zcard", "zrange", "zrangebyscore"}

ZSetReadHandler(d, c) ==
    CASE c.op = "zscore" -> zscore(d, c.key, c.member)
      [] c.op = "zcard" -> zcard(d, c.key)
      [] c.op = "zrange" -> zrange(d, c.key, c.start, c.stop, c.with_scores)
      [] c.op = "zrangebyscore" -> zrangebyscore(d, c.key, c.start, c.stop, c.with_scores)

ZRankReads == {"zrank", "zrevrank", "zcount"}

ZRankHandler(d, c) ==
    CASE c.op = "zrank" -> zrank(d, c.key, c.member)
      [] c.op = "zrevrank" -> zrevrank(d, c.key, c.member)
      [] c.op = "zcount" -> zcount(d, c.key, c.start, c.stop)

ZScans == {"zfirst", "zlast", "znext", "zprev"}

ZScanHandler(d, c) ==
    CASE c.op = "zfirst" -> zfirst(d, c.key, c.count)
      [] c.op = "zlast" -> zlast(d, c.key, c.count)
      [] c.op = "znext" -> znext(d, c.key, c.member, c.count)
      [] c.op = "zprev" -> zprev(d, c.key, c.member, c.count)

dispatch_read_command(d, c) ==
    CASE c.op \in KeyReads -> KeyReadHandler(d, c)
      [] c.op \in SetReads -> SetReadHandler(d, c)
      [] c.op \in SetScans -> SetScanHandler(d, c)
      [] c.op \in SetAlgebra -> SetAlgebraHandler(d, c)
      [] c.op \in ListReads -> ListReadHandler(d, c)
      [] c.op \in FieldReads -> FieldReadHandler(d, c)
      [] c.op \in HashReads -> HashReadHandler(d, c)
      [] c.op \in HashScans -> HashScanHandler(d, c)
      [] c.op \in ZSetReads -> ZSetReadHandler(d, c)
      [] c.op \in ZRankReads -> ZRankHandler(d, c)
      [] c.op \in ZScans -> ZScanHandler(d, c)
      [] OTHER -> <<"error">>

\* execute_read_commands: all commands of a batch under one lock of the mutex.
read_tx_commands(m, db, commands) ==
    [i \in DOMAIN commands |-> dispatch_read_command(m[db], commands[i])]

-----------------------------------------------------------------------------
(* lua.rs: the ts functions call the same storage operations and put the    *)
(* answer into Lua values.  A table has an array of the integer keys and    *)
(* the string keys apart; nil is no entry.                                  *)

ScalarReads == {"sismember", "scard", "sintercard", "llen", "hlen", "hexists", "hstrlen", "zcard", "zcount"}

OptionalReads == {"get", "hget", "zscore", "zrank", "zrevrank"}

\* ts.zrange and ts.zrangebyscore always ask for the scores.
BindingCommand(c) == IF "with_scores" \in DOMAIN c THEN [c EXCEPT !.with_scores = TRUE] ELSE c

OptionalValue(x) == IF x = <<>> THEN [nil |-> TRUE] ELSE [scalar |-> x[1]]

ArrayTable(x) == [array |-> x, keyed |-> <<>>]

\* ts.hmget leaves the missing fields out of its table.
SparseTable(x) == [array |-> [i \in {j \in DOMAIN x : x[j] # <<>>} |-> x[i][1]], keyed |-> <<>>]

\* ts.hgetall makes the fields the keys of its table.
FieldTable(x) ==
    [array |-> <<>>, keyed |-> [f \in {p[1] : p \in Range(x)} |->
                                  (CHOOSE p \in Range(x) : p[1] = f)[2]]]

\* The Lua value of an answer.
Binding(op, x) ==
    CASE op \in ScalarReads -> [scalar |-> x]
      [] op \in OptionalReads -> OptionalValue(x)
      [] op = "hmget" -> SparseTable(x)
      [] op = "hgetall" -> FieldTable(x)
      [] OTHER -> ArrayTable(x)

\* The lengths that Lua may report for an array with holes (external).
Borders(array) ==
    {n \in {0} \cup DOMAIN array : n + 1 \notin DOMAIN array}

\* Slip for LuaMatchesReads: the last element of a list is lost.
TableWithoutLast(table, len) ==
    IF len > 0 /\ 1 .. len \subseteq DOMAIN table.array
    THEN [list |-> SubSeq(table.array, 1, len - 1)]
    ELSE [map |-> table]

\* A list when there is a length and all keys up to it, else a map.
lua_table_to_term(table, len) ==
    IF len > 0 /\ 1 .. len \subseteq DOMAIN table.array
    THEN [list |-> [i \in 1 .. len |-> table.array[i]]]
    ELSE [map |-> table]

\* lua_value_to_term: the terms one value may become.
lua_value_to_term(value) ==
    IF "array" \in DOMAIN value
    THEN {lua_table_to_term(value, len) : len \in Borders(value.array)}
    ELSE {value}

\* tx of a script that returns the value of one ts function: __db selects the
\* database; an error of the function is the error of the script.
tx(m, db, c) ==
    LET reply == dispatch_read_command(m[db], BindingCommand(c))
    IN IF reply = WrongType THEN {[error |-> TRUE]}
       ELSE lua_value_to_term(Binding(c.op, reply[2]))

-----------------------------------------------------------------------------
(* Properties *)

\* FIRST lists the keys that one of the size reads, or GET, answers; every
\* other read of the key is refused, and for a key that is not listed every
\* one answers with nothing.
KeysHaveOneType(db, key) ==
    LET ops == <<"get", "llen", "scard", "hlen", "zcard">>
        replies == read_tx_commands(map, db, [i \in DOMAIN ops |-> [op |-> ops[i], key |-> key]])
        answered == {i \in DOMAIN ops : replies[i] # WrongType}
    IN IF key \in Range(first(map[db], Cardinality(DOMAIN map[db]))[2])
       THEN \E i \in DOMAIN ops :
              answered = {i} /\ IF i = 1 THEN replies[i][2] # <<>> ELSE replies[i][2] > 0
       ELSE answered = DOMAIN ops /\ \A i \in DOMAIN ops : replies[i] = Ok(IF i = 1 THEN <<>> ELSE 0)

\* What two reads of one batch say of a set and of a hash.
MembershipAgrees(db, key) ==
    LET d == map[db]
        members == smembers(d, key)[2]
        fields == hkeys(d, key)[2]
    IN /\ Holds(d, key, "set") =>
             /\ scard(d, key) = Ok(Len(members))
             /\ smismember(d, key, members) = Ok([i \in DOMAIN members |-> TRUE])
             /\ slast(d, key, Len(members)) = Ok(Reverse(members))
       /\ Holds(d, key, "hash") =>
             /\ hlen(d, key) = Ok(Len(fields))
             /\ hmget(d, key, fields) = Ok([i \in DOMAIN fields |-> <<hvals(d, key)[2][i]>>])
             /\ hfirst(d, key, Len(fields)) = hgetall(d, key)
             /\ \A f \in Range(fields) :
                   /\ hexists(d, key, f) = Ok(TRUE)
                   /\ hstrlen(d, key, f) = Ok(Len(hget(d, key, f)[2][1]))

\* ... of a sorted set: some reads consult its index, some its map, some both.
RanksAgree(db, key) ==
    LET d == map[db]
        size == zcard(d, key)[2]
    IN Holds(d, key, "zset") =>
         /\ Len(zrange(d, key, 0, -1, FALSE)[2]) = size
         /\ \A m \in Range(zrange(d, key, 0, -1, FALSE)[2]) :
               LET rank == zrank(d, key, m)[2][1]
               IN /\ zrange(d, key, rank, rank, TRUE) = Ok(<< <<m, zscore(d, key, m)[2][1]>> >>)
                  /\ zrevrank(d, key, m) = Ok(<<size - 1 - rank>>)
                  /\ zrange(d, key, rank - size, rank - size, FALSE) = Ok(<<m>>)
         /\ \A min, max \in -1 .. MaxScore + 1 :
               zcount(d, key, min, max)
                 = Ok(IF min <= max THEN Len(zrangebyscore(d, key, min, max, FALSE)[2]) ELSE 0)

\* Reads that overlap agree with each other in every state that a sequence of
\* write commands can reach: an application that combines several reads in
\* one read_tx (a rank and the member at that rank, a count and a range, the
\* keys and their types) gets one consistent picture.
ReadsAgree ==
    \A db \in Dbs, key \in Keys :
        /\ KeysHaveOneType(db, key)
        /\ MembershipAgrees(db, key)
        /\ RanksAgree(db, key)

\* SUNIONSTORE, SINTERSTORE and SDIFFSTORE into a key that is not one of the
\* sources store exactly what SUNION, SINTER and SDIFF would have returned,
\* and no key when that is nothing or an error, whatever was there before; and
\* SINTERCARD counts what SINTER returns.
StoresMatchReads ==
    \A db \in Dbs, dest \in Keys : \A k, l \in Keys \ {dest} :
        LET d == map[db]
            Stored(e) == IF dest \in DOMAIN e THEN Ok(Ascending(e[dest].set)) ELSE Ok(<<>>)
            Returned(reply) == IF reply = WrongType THEN Ok(<<>>) ELSE reply
        IN /\ Stored(sunionstore(d, dest, <<k, l>>)) = Returned(sunion(d, <<k, l>>))
           /\ Stored(sinterstore(d, dest, <<k, l>>)) = Returned(sinter(d, <<k, l>>))
           /\ Stored(sdiffstore(d, dest, <<k, l>>)) = Returned(sdiff(d, <<k, l>>))
           /\ sinter(d, <<k, l>>) # WrongType =>
                 sintercard(d, <<k, l>>) = Ok(Len(sinter(d, <<k, l>>)[2]))

\* The containers an application can walk page by page, and that both d and e
\* have but with different content.
ChangedScans(d, e) ==
    LET Changed(kind) == {k \in DOMAIN d : Holds(d, k, kind) /\ Holds(e, k, kind) /\ d[k] # e[k]}
        OfKeys == [first |-> "first", last |-> "last", next |-> "next", prev |-> "prev", key |-> 0]
    IN (IF DOMAIN d # DOMAIN e THEN {OfKeys} ELSE {})
         \cup [first : {"sfirst"}, last : {"slast"}, next : {"snext"}, prev : {"sprev"}, key : Changed("set")]
         \cup [first : {"hfirst"}, last : {"hlast"}, next : {"hnext"}, prev : {"hprev"}, key : Changed("hash")]
         \cup [first : {"zfirst"}, last : {"zlast"}, next : {"znext"}, prev : {"zprev"}, key : Changed("zset")]

\* The keys, members or fields on a page: what the next page starts from.
Cursors(op, page) ==
    CASE op \in KeyReads \cup SetScans -> page
      [] op \in HashScans -> [i \in DOMAIN page |-> page[i][1]]
      [] op \in ZScans -> [i \in DOMAIN page |-> page[i][2]]

Page(d, op, key, cursor, count) ==
    LET c == IF op \in KeyReads THEN [op |-> op, key |-> cursor, count |-> count]
             ELSE [op |-> op, key |-> key, member |-> cursor, count |-> count]
        reply == dispatch_read_command(d, c)
    IN IF reply = WrongType THEN <<>> ELSE Cursors(op, reply[2])

\* What a scan is to return.
Scanned(d, scan) ==
    CASE scan.first = "first" -> DOMAIN d
      [] scan.first = "sfirst" -> ContentOf(d, scan.key, "set")
      [] scan.first = "hfirst" -> DOMAIN ContentOf(d, scan.key, "hash")
      [] scan.first = "zfirst" -> DOMAIN ContentOf(d, scan.key, "zset").entries

\* The first page from d and, from its last element on, a page from e.
Walk(d, e, begin, continue, key, count, rest) ==
    LET page == Page(d, begin, key, 0, count)
    IN IF page = <<>> THEN <<>> ELSE page \o Page(e, continue, key, Last(page), rest)

\* A scan during which a command is replicated; its last page has room for all
\* that is left.
ScanSurvives(d, e, scan) ==
    \A count \in {1, 2} :
          LET rest == Cardinality(Scanned(e, scan))
              up == Walk(d, e, scan.first, scan.next, scan.key, count, rest)
              down == Walk(d, e, scan.last, scan.prev, scan.key, count, rest)
          IN /\ Scanned(d, scan) \cap Scanned(e, scan) \subseteq Range(up) \cap Range(down)
             /\ \A i \in 1 .. Len(up) - 1 : up[i] < up[i + 1]
             /\ \A i \in 1 .. Len(down) - 1 : down[i] > down[i + 1]

\* A scan with first and next, or last and prev, that is overtaken by a
\* replicated command between two pages returns everything that stays, once
\* and in order, also when the command removes the element the scan stands on
\* or changes scores.
ScansSurviveWrites ==
    [][\A db \in Dbs : map[db] # map'[db] =>
          \A scan \in ChangedScans(map[db], map'[db]) : ScanSurvives(map[db], map'[db], scan)]_vars

\* The reads an application may make of a key directly or in a script.
ReadCommands(key) ==
    [op : {"get", "llen", "scard", "hlen", "zcard", "smembers", "hkeys", "hvals", "hgetall"}, key : {key}]
      \cup [op : {"hmget", "smismember"}, key : {key}, members : Bytes \X Bytes]
      \cup [op : {"hget", "zrank", "zrevrank", "zscore", "sismember", "hexists"}, key : {key}, member : Bytes]
      \cup [op : {"zrange", "lrange"}, key : {key}, start : {0}, stop : {0, -1}, with_scores : {TRUE}]
      \cup [op : {"hfirst", "hlast", "zfirst", "zlast", "sfirst", "slast"}, key : {key}, count : {0, 2}]
      \cup [op : {"sunion", "sinter", "sdiff", "sintercard"}, keys : {<<key, a>> : a \in Keys}]

\* A script that returns the value of one ts function gives what the direct
\* read gives, as README.md:236 says, with three exceptions: HGETALL is a map,
\* an empty list is an empty map, and a list with missing values is cut or
\* becomes a map of the ones that are there.
LuaMatchesReads ==
    \A db \in Dbs, key \in Keys : \A c \in ReadCommands(key) : \A term \in tx(map, db, c) :
        LET reply == dispatch_read_command(map[db], c)
        IN IF reply = WrongType THEN term = [error |-> TRUE]
           ELSE CASE c.op \in ScalarReads -> term = [scalar |-> reply[2]]
                  [] c.op \in OptionalReads ->
                        term = IF reply[2] = <<>> THEN [nil |-> TRUE] ELSE [scalar |-> reply[2][1]]
                  [] c.op = "hgetall" ->
                        term = [map |-> [array |-> <<>>, keyed |-> ContentOf(map[db], key, "hash")]]
                  [] c.op = "hmget" ->
                        <<>> \notin Range(reply[2]) =>
                           term = [list |-> [i \in DOMAIN reply[2] |-> reply[2][i][1]]]
                  [] OTHER -> reply[2] # <<>> => term = [list |-> reply[2]]
=============================================================================
