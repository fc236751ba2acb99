------------------------------ MODULE Storage ------------------------------
(***************************************************************************)
(* The storage of a projection (native/vdr_ts_nif/src/storage) and the     *)
(* dispatch of the write commands it replays (write_commands.rs).  The     *)
(* state is the map from databases to maps from keys to typed values.  The *)
(* projection ignores what a command returns, so a command is what it does *)
(* to the map, whether it reports success or an error.                     *)
(*                                                                         *)
(* A value is a record with one field, its type: str, list, set, hash or   *)
(* zset.  Strings are sequences of characters; members, fields and list    *)
(* elements are naturals, ordered as the byte strings they stand for.      *)
(* A database without keys and a database that is not in the map are the   *)
(* same thing to every command.                                            *)
(***************************************************************************)
EXTENDS Integers, Sequences, SequencesExt, FiniteSetsExt, Functions, Lists, ZSets

CONSTANTS
    Keys,       \* the keys
    Dbs,        \* the database indices
    Bytes,      \* the byte strings: elements of lists, members and fields
    Commands,   \* the write commands the master may propagate, as records
    MaxInt,     \* the largest i64, scaled down to one digit
    MaxSize,    \* bound: keys and elements in all databases together
    MaxScore    \* bound: scores of sorted sets

ASSUME StorageAssumption ==
    /\ 0 \in Dbs
    /\ Keys \subseteq Nat /\ Bytes \subseteq Nat
    /\ MaxInt \in 1 .. 8
    /\ MaxSize \in Nat
    /\ MaxScore \in Nat

VARIABLE map

vars == <<map>>

EmptyDb == <<>>

Empty == [str |-> <<>>, list |-> <<>>, set |-> {}, hash |-> <<>>, zset |-> EmptyZSet]

Value(kind, content) == [t \in {kind} |-> content]

Holds(d, key, kind) == key \in DOMAIN d /\ kind \in DOMAIN d[key]

\* The key is missing or has the type the command works on.
FreeFor(d, key, kind) == key \in DOMAIN d => kind \in DOMAIN d[key]

ContentOf(d, key, kind) == IF Holds(d, key, kind) THEN d[key][kind] ELSE Empty[kind]

PutKey(d, key, value) ==
    [k \in DOMAIN d \cup {key} |-> IF k = key THEN value ELSE d[k]]

DropKeys(d, keys) == Restrict(d, DOMAIN d \ keys)

DropKey(d, key) == DropKeys(d, {key})

\* What a map holds after each pair has been inserted in turn.
Written(pairs) ==
    [x \in {pairs[i][1] : i \in DOMAIN pairs} |->
        pairs[Max({i \in DOMAIN pairs : pairs[i][1] = x})][2]]

Overwritten(f, g) ==
    [x \in DOMAIN f \cup DOMAIN g |-> IF x \in DOMAIN g THEN g[x] ELSE f[x]]

\* The frame of the commands that create the key when it is missing: WRONGTYPE
\* when it has another type, else the edited content is stored, empty or not.
Upsert(d, key, kind, Edit(_)) ==
    IF FreeFor(d, key, kind)
    THEN PutKey(d, key, Value(kind, Edit(ContentOf(d, key, kind))))
    ELSE d

\* The frame of the commands that need the key: nothing when it is missing,
\* WRONGTYPE when it has another type, and the key goes with its last element.
Modify(d, key, kind, Edit(_)) ==
    IF ~Holds(d, key, kind) THEN d
    ELSE LET content == Edit(d[key][kind])
         IN IF content = Empty[kind] THEN DropKey(d, key)
            ELSE PutKey(d, key, Value(kind, content))

-----------------------------------------------------------------------------
(* strings.rs *)

Digits == <<"0", "1", "2", "3", "4", "5", "6", "7", "8", "9">>

set(d, key, value) == PutKey(d, key, Value("str", value))

mset(d, pairs) ==
    LET w == Written(pairs) IN Overwritten(d, [k \in DOMAIN w |-> Value("str", w[k])])

del(d, key) == DropKey(d, key)

rename(d, old, new) ==
    IF old \in DOMAIN d THEN PutKey(DropKey(d, old), new, d[old]) ELSE d

renamenx(d, old, new) == IF new \in DOMAIN d THEN d ELSE rename(d, old, new)

copy_key(d, source, dest, replace) ==
    IF source \notin DOMAIN d \/ (~replace /\ dest \in DOMAIN d) THEN d
    ELSE PutKey(d, dest, d[source])

append(d, key, value) == Upsert(d, key, "str", LAMBDA s : s \o value)

\* Bytes before the offset that the string does not have become zero bytes.
setrange(d, key, offset, value) ==
    LET Byte(s, i) == IF i \in offset + 1 .. offset + Len(value) THEN value[i - offset]
                      ELSE IF i <= Len(s) THEN s[i] ELSE "NUL"
        Overwrite(s) == [i \in 1 .. Max({Len(s), offset + Len(value)}) |-> Byte(s, i)]
    IN Upsert(d, key, "str", Overwrite)

MinInt == -MaxInt - 1

Int64 == MinInt .. MaxInt

DigitValue(ch) == (CHOOSE i \in DOMAIN Digits : Digits[i] = ch) - 1

\* to_string of an integer of one digit.
Numeral(n) == IF n < 0 THEN <<"-", Digits[1 - n]>> ELSE <<Digits[1 + n]>>

\* parse::<i64>: an optional sign, digits, a value in range; else no integer.
ParseInt(s) ==
    LET signed == s # <<>> /\ s[1] \in {"-", "+"}
        body == IF signed THEN Tail(s) ELSE s
        size == FoldLeft(LAMBDA acc, ch : 10 * acc + DigitValue(ch), 0, body)
        value == IF signed /\ s[1] = "-" THEN -size ELSE size
    IN IF body = <<>> \/ ~(Range(body) \subseteq Range(Digits)) THEN {}
       ELSE {value} \cap Int64

\* The sums of n and one of these integers, unless the addition would overflow.
Plus(values, n) == {v + n : v \in values} \cap Int64

\* The integers a counter with this text may hold after adding n: one at most,
\* none when the text is no integer or the addition would overflow.
Added(text, n) == Plus(ParseInt(text), n)

incrby(d, key, n) ==
    IF key \notin DOMAIN d
    THEN IF n \in Int64 THEN set(d, key, Numeral(n)) ELSE d
    ELSE IF ~Holds(d, key, "str") \/ Added(d[key].str, n) = {} THEN d
    ELSE set(d, key, Numeral(CHOOSE v \in Added(d[key].str, n) : TRUE))

decrby(d, key, n) == incrby(d, key, -n)

incr(d, key) == incrby(d, key, 1)

decr(d, key) == decrby(d, key, 1)

-----------------------------------------------------------------------------
(* lists.rs *)

lpush(d, key, values) == Upsert(d, key, "list", LAMBDA l : PushFront(l, values))

rpush(d, key, values) == Upsert(d, key, "list", LAMBDA l : PushBack(l, values))

lpushx(d, key, values) == Modify(d, key, "list", LAMBDA l : PushFront(l, values))

rpushx(d, key, values) == Modify(d, key, "list", LAMBDA l : PushBack(l, values))

lpop(d, key) == Modify(d, key, "list", LAMBDA l : SkipFront(l, 1))

rpop(d, key) == Modify(d, key, "list", LAMBDA l : DropBack(l, 1))

lpop_count(d, key, count) == Modify(d, key, "list", LAMBDA l : SkipFront(l, count))

rpop_count(d, key, count) == Modify(d, key, "list", LAMBDA l : DropBack(l, count))

lrem(d, key, count, value) == Modify(d, key, "list", LAMBDA l : Rem(l, count, value))

ltrim(d, key, start, stop) == Modify(d, key, "list", LAMBDA l : Trim(l, start, stop))

linsert(d, key, before, pivot, value) ==
    Modify(d, key, "list", LAMBDA l : Insert(l, before, pivot, value))

lset(d, key, index, value) == Modify(d, key, "list", LAMBDA l : Update(l, index, value))

\* Slip for MovesConserve: the list always loses its last element.
lmoveFromRight(d, source, dest, fromLeft, toLeft) ==
    LET l == d[source].list
        popped == IF fromLeft THEN Head(l) ELSE Last(l)
        Pushed(t) == IF toLeft THEN <<popped>> \o t ELSE Append(t, popped)
    IN IF ~Holds(d, source, "list") \/ l = <<>> THEN d
       ELSE IF source = dest THEN PutKey(d, source, Value("list", Pushed(Front(l))))
       ELSE Upsert(Modify(d, source, "list", Front), dest, "list", Pushed)

\* The element is popped and stored in the source before the type of the
\* destination is looked at.
lmove(d, source, dest, fromLeft, toLeft) ==
    LET l == d[source].list
        popped == IF fromLeft THEN Head(l) ELSE Last(l)
        rest == IF fromLeft THEN Tail(l) ELSE Front(l)
        Pushed(t) == IF toLeft THEN <<popped>> \o t ELSE Append(t, popped)
    IN IF ~Holds(d, source, "list") \/ l = <<>> THEN d
       ELSE IF source = dest THEN PutKey(d, source, Value("list", Pushed(rest)))
       ELSE Upsert(Modify(d, source, "list", LAMBDA t : rest), dest, "list", Pushed)

rpoplpush(d, source, dest) == lmove(d, source, dest, FALSE, TRUE)

-----------------------------------------------------------------------------
(* sets.rs *)

sadd(d, key, members) == Upsert(d, key, "set", LAMBDA s : s \cup Range(members))

\* Slip for NoEmptyCollections: the emptied set stays.
sremKeepingKey(d, key, members) ==
    IF Holds(d, key, "set") THEN PutKey(d, key, Value("set", d[key].set \ Range(members))) ELSE d

srem(d, key, members) == Modify(d, key, "set", LAMBDA s : s \ Range(members))

\* As in lmove, the member has left the source when the type of the
\* destination is checked.
smove(d, source, dest, member) ==
    IF ~Holds(d, source, "set") \/ member \notin ContentOf(d, source, "set") THEN d
    ELSE Upsert(Modify(d, source, "set", LAMBDA s : s \ {member}), dest, "set",
                LAMBDA s : s \cup {member})

\* The frame of SUNIONSTORE, SINTERSTORE, SDIFFSTORE and their sorted-set
\* counterparts: the destination is deleted first, then the sources are read;
\* an error and an empty result leave it deleted.
StoreInto(d, kind, dest, sources, Combine(_)) ==
    LET cleared == del(d, dest)
        operands == [i \in DOMAIN sources |-> ContentOf(cleared, sources[i], kind)]
    IN IF \/ \E i \in DOMAIN sources : ~FreeFor(cleared, sources[i], kind)
          \/ Combine(operands) = Empty[kind]
       THEN cleared
       ELSE PutKey(cleared, dest, Value(kind, Combine(operands)))

sunionstore(d, dest, sources) == StoreInto(d, "set", dest, sources, LAMBDA sets : UNION Range(sets))

sinterstore(d, dest, sources) ==
    StoreInto(d, "set", dest, sources,
        LAMBDA sets : {m \in sets[1] : \A i \in DOMAIN sets : m \in sets[i]})

\* Slip for StoresMatchReads: the last source is taken for the first.
sdiffstoreTraded(d, dest, sources) ==
    StoreInto(d, "set", dest, sources, LAMBDA sets : Last(sets) \ UNION Range(Front(sets)))

sdiffstore(d, dest, sources) ==
    StoreInto(d, "set", dest, sources, LAMBDA sets : sets[1] \ UNION Range(Tail(sets)))

-----------------------------------------------------------------------------
(* hashes.rs *)

SetFields(h, pairs) == Overwritten(h, Written(pairs))

hmset(d, key, pairs) == Upsert(d, key, "hash", LAMBDA h : SetFields(h, pairs))

hset(d, key, field, value) == hmset(d, key, << <<field, value>> >>)

hdel(d, key, fields) ==
    Modify(d, key, "hash", LAMBDA h : Restrict(h, DOMAIN h \ Range(fields)))

hsetnx(d, key, field, value) ==
    Upsert(d, key, "hash",
        LAMBDA h : IF field \in DOMAIN h THEN h ELSE SetEntry(h, field, value))

\* The hash is created before the field is read: on an error it stays as it is.
hincrby(d, key, field, delta) ==
    LET Incremented(h) ==
          LET next == Plus(IF field \in DOMAIN h THEN ParseInt(h[field]) ELSE {0}, delta)
          IN IF next = {} THEN h ELSE SetEntry(h, field, Numeral(CHOOSE v \in next : TRUE))
    IN Upsert(d, key, "hash", Incremented)

\* FNX sets the fields if none of them exists, FXX if all of them do.
hsetex(d, key, mode, pairs) ==
    LET fields == {fv[1] : fv \in Range(pairs)}
        Allowed(h) == /\ mode = "nx" => fields \cap DOMAIN h = {}
                      /\ mode = "xx" => fields \subseteq DOMAIN h
    IN Upsert(d, key, "hash", LAMBDA h : IF Allowed(h) THEN SetFields(h, pairs) ELSE h)

-----------------------------------------------------------------------------
(* zsets.rs *)

zadd(d, key, scored, options) ==
    IF AddRejected(options, scored) THEN d
    ELSE Upsert(d, key, "zset", LAMBDA z : AddMembers(z, options, scored))

zincrby(d, key, delta, member) ==
    Upsert(d, key, "zset", LAMBDA z : IncrMember(z, delta, member))

zrem(d, key, members) ==
    Modify(d, key, "zset", LAMBDA z : DropPairs(z, PairsOf(z, Range(members))))

zpopmax(d, key, count) == Modify(d, key, "zset", LAMBDA z : PopMax(z, count))

zpopmin(d, key, count) == Modify(d, key, "zset", LAMBDA z : PopMin(z, count))

zremrangebyrank(d, key, start, stop) ==
    Modify(d, key, "zset", LAMBDA z : RemRangeByRank(z, start, stop))

zremrangebyscore(d, key, min, max) ==
    Modify(d, key, "zset", LAMBDA z : RemRangeByScore(z, min, max))

zremrangebylex(d, key, min, max) ==
    Modify(d, key, "zset", LAMBDA z : RemRangeByLex(z, min, max))

zunionstore(d, dest, sources, weights, aggregate) ==
    StoreInto(d, "zset", dest, sources, LAMBDA zs : UnionZSets(zs, weights, aggregate))

zinterstore(d, dest, sources, weights, aggregate) ==
    StoreInto(d, "zset", dest, sources, LAMBDA zs : InterZSets(zs, weights, aggregate))

zdiffstore(d, dest, sources) == StoreInto(d, "zset", dest, sources, DiffZSets)

zrangestore(d, dest, source, by, min, max, rev, limit) ==
    StoreInto(d, "zset", dest, <<source>>,
        LAMBDA zs : IF zs[1] = EmptyZSet THEN EmptyZSet
                    ELSE RangeZSet(zs[1], by, min, max, rev, limit))

-----------------------------------------------------------------------------
(* Commands that concern whole databases (strings.rs). *)

move_key(m, db, target, key) ==
    IF key \notin DOMAIN m[db] THEN m
    ELSE LET taken == [m EXCEPT ![db] = DropKey(@, key)]
         IN [taken EXCEPT ![target] = PutKey(@, key, m[db][key])]

flushall(m) == [db \in Dbs |-> EmptyDb]

flushdb(m, db) == [m EXCEPT ![db] = EmptyDb]

swapdb(m, db1, db2) == [m EXCEPT ![db1] = m[db2], ![db2] = m[db1]]

-----------------------------------------------------------------------------
(* write_commands.rs: the handlers, by family; each decodes its arguments  *)
(* and calls the storage.  PEXPIREAT and PERSIST do nothing.               *)

KeyspaceOps == {"set", "del", "mset", "msetex", "pexpireat", "persist", "copy", "rename", "renamenx"}

KeyspaceHandler(d, c) ==
    CASE c.op = "set" -> set(d, c.key, c.value)
      [] c.op = "del" -> DropKeys(d, Range(c.keys))
      [] c.op \in {"mset", "msetex"} -> mset(d, c.pairs)
      [] c.op \in {"pexpireat", "persist"} -> d
      [] c.op = "copy" -> copy_key(d, c.source, c.dest, c.replace)
      [] c.op = "rename" -> rename(d, c.source, c.dest)
      [] c.op = "renamenx" -> renamenx(d, c.source, c.dest)

StringOps == {"append", "setrange", "incr", "incrby", "decr", "decrby", "setnx", "msetnx",
              "getset", "getdel"}

StringHandler(d, c) ==
    CASE c.op = "append" -> append(d, c.key, c.value)
      [] c.op = "setrange" -> setrange(d, c.key, c.offset, c.value)
      [] c.op = "incr" -> incr(d, c.key)
      [] c.op = "incrby" -> incrby(d, c.key, c.by)
      [] c.op = "decr" -> decr(d, c.key)
      [] c.op = "decrby" -> decrby(d, c.key, c.by)
      [] c.op \in {"setnx", "getset"} -> set(d, c.key, c.value)
      [] c.op = "msetnx" -> mset(d, c.pairs)
      [] c.op = "getdel" -> del(d, c.key)

SetOps == {"sadd", "srem", "smove", "sunionstore", "sinterstore", "sdiffstore"}

SetHandler(d, c) ==
    CASE c.op = "sadd" -> sadd(d, c.key, c.members)
      [] c.op = "srem" -> srem(d, c.key, c.members)
      [] c.op = "smove" -> smove(d, c.source, c.dest, c.member)
      [] c.op = "sunionstore" -> sunionstore(d, c.dest, c.sources)
      [] c.op = "sinterstore" -> sinterstore(d, c.dest, c.sources)
      [] c.op = "sdiffstore" -> sdiffstore(d, c.dest, c.sources)

ListEndOps == {"lpush", "rpush", "lpop", "rpop", "lpop_count", "rpop_count", "lpushx", "rpushx",
               "rpoplpush", "lmove"}

ListEndHandler(d, c) ==
    CASE c.op = "lpush" -> lpush(d, c.key, c.values)
      [] c.op = "rpush" -> rpush(d, c.key, c.values)
      [] c.op = "lpop" -> lpop(d, c.key)
      [] c.op = "rpop" -> rpop(d, c.key)
      [] c.op = "lpop_count" -> lpop_count(d, c.key, c.count)
      [] c.op = "rpop_count" -> rpop_count(d, c.key, c.count)
      [] c.op = "lpushx" -> lpushx(d, c.key, c.values)
      [] c.op = "rpushx" -> rpushx(d, c.key, c.values)
      [] c.op = "rpoplpush" -> rpoplpush(d, c.source, c.dest)
      [] c.op = "lmove" -> lmove(d, c.source, c.dest, c.fromLeft, c.toLeft)

ListMiddleOps == {"lrem", "ltrim", "linsert", "lset"}

ListMiddleHandler(d, c) ==
    CASE c.op = "lrem" -> lrem(d, c.key, c.count, c.value)
      [] c.op = "ltrim" -> ltrim(d, c.key, c.start, c.stop)
      [] c.op = "linsert" -> linsert(d, c.key, c.before, c.pivot, c.value)
      [] c.op = "lset" -> lset(d, c.key, c.index, c.value)

HashOps == {"hset", "hmset", "hdel", "hgetdel", "hsetnx", "hincrby", "hsetex"}

HashHandler(d, c) ==
    CASE c.op = "hset" -> hset(d, c.key, c.field, c.value)
      [] c.op = "hmset" -> hmset(d, c.key, c.pairs)
      [] c.op \in {"hdel", "hgetdel"} -> hdel(d, c.key, c.fields)
      [] c.op = "hsetnx" -> hsetnx(d, c.key, c.field, c.value)
      [] c.op = "hincrby" -> hincrby(d, c.key, c.field, c.by)
      [] c.op = "hsetex" -> hsetex(d, c.key, c.mode, c.pairs)

ZSetOps == {"zadd", "zrem", "zpopmax", "zpopmin", "zremrangebyrank", "zremrangebyscore",
            "zremrangebylex", "zincrby"}

ZSetHandler(d, c) ==
    CASE c.op = "zadd" -> zadd(d, c.key, c.scored, c.options)
      [] c.op = "zrem" -> zrem(d, c.key, c.members)
      [] c.op = "zpopmax" -> zpopmax(d, c.key, c.count)
      [] c.op = "zpopmin" -> zpopmin(d, c.key, c.count)
      [] c.op = "zremrangebyrank" -> zremrangebyrank(d, c.key, c.start, c.stop)
      [] c.op = "zremrangebyscore" -> zremrangebyscore(d, c.key, c.min, c.max)
      [] c.op = "zremrangebylex" -> zremrangebylex(d, c.key, c.min, c.max)
      [] c.op = "zincrby" -> zincrby(d, c.key, c.by, c.member)

ZStoreOps == {"zunionstore", "zinterstore", "zdiffstore", "zrangestore"}

ZStoreHandler(d, c) ==
    CASE c.op = "zunionstore" -> zunionstore(d, c.dest, c.sources, c.weights, c.aggregate)
      [] c.op = "zinterstore" -> zinterstore(d, c.dest, c.sources, c.weights, c.aggregate)
      [] c.op = "zdiffstore" -> zdiffstore(d, c.dest, c.sources)
      [] c.op = "zrangestore" ->
            zrangestore(d, c.dest, c.source, c.by, c.min, c.max, c.rev, c.limit)

DbOps == {"move_key", "flushall", "flushdb", "swapdb"}

DbHandler(m, db, c) ==
    CASE c.op = "move_key" -> move_key(m, db, c.target, c.key)
      [] c.op = "flushall" -> flushall(m)
      [] c.op = "flushdb" -> flushdb(m, db)
      [] c.op = "swapdb" -> swapdb(m, c.db1, c.db2)

\* A command with an unknown name is an error and changes nothing.
dispatch_write_command(m, db, c) ==
    CASE c.op \in DbOps -> DbHandler(m, db, c)
      [] c.op \in KeyspaceOps -> [m EXCEPT ![db] = KeyspaceHandler(@, c)]
      [] c.op \in StringOps -> [m EXCEPT ![db] = StringHandler(@, c)]
      [] c.op \in SetOps -> [m EXCEPT ![db] = SetHandler(@, c)]
      [] c.op \in ListEndOps -> [m EXCEPT ![db] = ListEndHandler(@, c)]
      [] c.op \in ListMiddleOps -> [m EXCEPT ![db] = ListMiddleHandler(@, c)]
      [] c.op \in HashOps -> [m EXCEPT ![db] = HashHandler(@, c)]
      [] c.op \in ZSetOps -> [m EXCEPT ![db] = ZSetHandler(@, c)]
      [] c.op \in ZStoreOps -> [m EXCEPT ![db] = ZStoreHandler(@, c)]
      [] OTHER -> m

-----------------------------------------------------------------------------
(* Which watchers hear of a command. *)

StoreOps == {"sunionstore", "sinterstore", "sdiffstore", "zunionstore", "zinterstore", "zdiffstore"}

PairOps == {"rpoplpush", "lmove", "rename", "renamenx", "smove", "copy", "zrangestore"}

\* extract_affected_keys_for_notification: the keys a command is announced for.
AffectedKeys(c) ==
    CASE c.op = "del" -> Range(c.keys)
      [] c.op \in {"mset", "msetex", "msetnx"} -> {kv[1] : kv \in Range(c.pairs)}
      [] c.op \in PairOps -> {c.source, c.dest}
      [] c.op \in StoreOps -> {c.dest} \cup Range(c.sources)
      [] c.op \in {"flushall", "flushdb", "swapdb"} -> {}
      [] OTHER -> {c.key}

\* Slip for EveryChangeAnnounced: flushes and swaps are commands like others.
AnnouncedByKeys(db, c) == {db} \X AffectedKeys(c)

\* notify_watchers: the places whose watchers are sent the command.
Announced(db, c) ==
    CASE c.op = "flushall" -> Dbs \X Keys
      [] c.op = "flushdb" -> {db} \X Keys
      [] c.op = "swapdb" -> {c.db1, c.db2} \X Keys
      [] OTHER -> {db} \X AffectedKeys(c)

\* The arguments of a propagated command.  The master, which executed it, has
\* checked their number (at least one value, member, field or score where the
\* command needs one); that counts and indices are integers, in the range of
\* their type, the decoding has.
ASSUME CommandsAssumption ==
    \A c \in Commands :
        /\ AffectedKeys(c) \subseteq Keys
        /\ c.op = "move_key" => c.target \in Dbs
        /\ c.op = "swapdb" => c.db1 \in Dbs /\ c.db2 \in Dbs
        /\ c.op \in {"lpush", "rpush", "lpushx", "rpushx"} => c.values \in Seq(Bytes) \ {<<>>}
        /\ c.op \in {"linsert", "lset"} => c.value \in Bytes
        /\ c.op \in {"lpop_count", "rpop_count"} => c.count \in Nat
        /\ c.op = "ltrim" => c.start \in Int /\ c.stop \in Int
        /\ c.op = "lset" => c.index \in Int
        /\ c.op = "sadd" => c.members \in Seq(Bytes) \ {<<>>}
        /\ c.op \in {"mset", "msetex", "msetnx"} => c.pairs \in Seq(Keys \X Seq(STRING))
        /\ c.op \in {"hmset", "hsetex"} => c.pairs \in Seq(Bytes \X Seq(STRING)) \ {<<>>}
        /\ c.op \in {"hset", "hsetnx", "hincrby"} => c.field \in Bytes
        /\ c.op = "hincrby" => c.by \in Int64
        /\ c.op = "zadd" => c.scored \in Seq(Int \X Bytes) \ {<<>>}
        /\ c.op = "zincrby" => c.by \in Int /\ c.member \in Bytes
        /\ c.op \in StoreOps => c.sources \in Seq(Keys) \ {<<>>}
        /\ c.op \in {"zunionstore", "zinterstore"} =>
              c.weights \in Seq(Int) /\ c.aggregate \in {"sum", "min", "max"}
        /\ c.op = "zrangestore" => c.by \in {"lex", "score", "rank"}

-----------------------------------------------------------------------------
(* The master propagates a command that did something there; these are the *)
(* conditions that the storage relies on instead of checking them.         *)

Propagated(d, c) ==
    CASE c.op \in {"setnx", "msetnx"} -> AffectedKeys(c) \cap DOMAIN d = {}
      [] c.op = "zadd" ->
            "xx" \in c.options =>
               \E sm \in Range(c.scored) : sm[2] \in DOMAIN ContentOf(d, c.key, "zset").entries
      [] c.op = "hsetex" ->
            c.mode = "xx" =>
               {fv[1] : fv \in Range(c.pairs)} \subseteq DOMAIN ContentOf(d, c.key, "hash")
      [] OTHER -> TRUE

Size(value) ==
    LET kind == CHOOSE t \in DOMAIN value : TRUE
    IN CASE kind \in {"str", "list"} -> Len(value[kind])
         [] kind = "set" -> Cardinality(value.set)
         [] kind = "hash" -> Cardinality(DOMAIN value.hash)
         [] kind = "zset" -> Cardinality(DOMAIN value.zset.entries)

Places(m) == UNION {{db} \X DOMAIN m[db] : db \in Dbs}

Fits(m) ==
    /\ FoldSet(LAMBDA p, n : n + 1 + Size(m[p[1]][p[2]]), 0, Places(m)) <= MaxSize
    /\ \A p \in Places(m) :
          Range(ContentOf(m[p[1]], p[2], "zset").entries) \subseteq -MaxScore .. MaxScore

\* execute: the projection replays one command; a bounded state space.
Execute(db, ops) ==
    \E c \in Commands :
        /\ c.op \in ops
        /\ Propagated(map[db], c)
        /\ map' = dispatch_write_command(map, db, c)
        /\ Fits(map')

Init == map = [db \in Dbs |-> EmptyDb]

Next ==
    \E db \in Dbs :
        \/ Execute(db, KeyspaceOps)
        \/ Execute(db, StringOps)
        \/ Execute(db, SetOps)
        \/ Execute(db, ListEndOps)
        \/ Execute(db, ListMiddleOps)
        \/ Execute(db, HashOps)
        \/ Execute(db, ZSetOps)
        \/ Execute(db, ZStoreOps)
        \/ Execute(db, DbOps)

Spec == Init /\ [][Next]_vars

-----------------------------------------------------------------------------
(* Properties *)

\* No key outlives its last element: whatever commands emptied a list, a set,
\* a hash or a sorted set, moved it or stored over it, its key is gone, as it is
\* on the master.
NoEmptyCollections ==
    \A p \in Places(map) : \A kind \in DOMAIN map[p[1]][p[2]] \ {"str"} :
        map[p[1]][p[2]][kind] # Empty[kind]

\* The two halves of a sorted set agree: a member has one place in the index,
\* under the score the map gives it, however often its score was changed.
ZIndexMatchesEntries ==
    \A p \in Places(map) : "zset" \in DOMAIN map[p[1]][p[2]] =>
        LET z == map[p[1]][p[2]].zset
        IN z.index = {<<z.entries[m], m>> : m \in DOMAIN z.entries}

StoredLists ==
    {map[p[1]][p[2]].list : p \in {q \in Places(map) : Holds(map[q[1]], q[2], "list")}}

StoredZSets ==
    {map[p[1]][p[2]].zset : p \in {q \in Places(map) : Holds(map[q[1]], q[2], "zset")}}

Indices == -MaxSize .. MaxSize

\* The range of two indices meets a sequence of this length.
InRange(len, start, stop) == start < len /\ stop >= -len

\* Of LTRIM and ZREMRANGEBYRANK.
RangesMatch ==
    \A start, stop \in Indices :
        /\ \A l \in StoredLists :
              InRange(Len(l), start, stop) => Trim(l, start, stop) = TrimmedList(l, start, stop)
        /\ \A z \in StoredZSets :
              InRange(Cardinality(z.index), start, stop) =>
                 RemRangeByRank(z, start, stop).index
                    = z.index \ Range(TrimmedList(Ranked(z), start, stop))

\* Of LREM.
OccurrencesMatch ==
    \A l \in StoredLists : \A v \in Range(l), count \in -MaxSize .. MaxSize :
        Rem(l, count, v) = ListWithout(l, count, v)

\* Of ZPOPMIN and ZPOPMAX.
PopsTakeExtremes ==
    \A z \in StoredZSets, count \in 1 .. MaxSize :
        LET low == PopMin(z, count).index
            high == PopMax(z, count).index
        IN /\ Cardinality(low) = Max({0, Cardinality(z.index) - count})
           /\ Cardinality(high) = Cardinality(low)
           /\ \A p \in low, q \in z.index \ low : IndexLess(q, p)
           /\ \A p \in high, q \in z.index \ high : IndexLess(p, q)

\* The commands that remove a part of a collection remove the right part: LTRIM
\* keeps, and ZREMRANGEBYRANK removes, the elements between two indices, negative
\* ones counting from the end, when the range does not lie beyond one of the
\* ends; LREM removes, from the end it starts at, as many occurrences as it is
\* asked for and keeps the rest in order; ZPOPMIN and ZPOPMAX take as many
\* members as they are asked for, or all, and none left precedes, or follows,
\* one that was taken.  EmptyRangeDeletes is about ranges beyond an end, and
\* ZeroPopsAll about pops of no member.
RemovalsMatch == RangesMatch /\ OccurrencesMatch /\ PopsTakeExtremes

Occurrences(d, key, v) ==
    LET l == ContentOf(d, key, "list") IN Cardinality({i \in DOMAIN l : l[i] = v})

\* Between the two databases no element came or went at the two keys together,
\* and the other keys are as they were.
ListsConserved(d, e, source, dest) ==
    /\ \A v \in Bytes :
          IF source = dest THEN Occurrences(e, source, v) = Occurrences(d, source, v)
          ELSE Occurrences(e, source, v) + Occurrences(e, dest, v)
                 = Occurrences(d, source, v) + Occurrences(d, dest, v)
    /\ \A k \in DOMAIN d \ {source, dest} : k \in DOMAIN e /\ e[k] = d[k]

\* LMOVE, RPOPLPUSH and SMOVE lose and double nothing, also with one key as
\* source and destination and with the last element of a key, as long as the
\* destination has the right type.
MovesConserve ==
    \A db \in Dbs, source, dest \in Keys :
        LET d == map[db]
        IN /\ FreeFor(d, dest, "list") =>
                \A fromLeft, toLeft \in BOOLEAN :
                   ListsConserved(d, lmove(d, source, dest, fromLeft, toLeft), source, dest)
           /\ FreeFor(d, dest, "set") =>
                \A v \in ContentOf(d, source, "set") :
                   LET e == smove(d, source, dest, v)
                   IN /\ ContentOf(e, source, "set") \cup ContentOf(e, dest, "set")
                           = ContentOf(d, source, "set") \cup ContentOf(d, dest, "set")
                      /\ v \in ContentOf(e, dest, "set")
                      /\ source # dest => v \notin ContentOf(e, source, "set")

ChangedPlaces(m, n) ==
    {p \in Places(m) \cup Places(n) :
        p \in Places(m) \cap Places(n) => m[p[1]][p[2]] # n[p[1]][p[2]]}

\* Where MOVE puts the key.
MovedTo(c) == IF c.op = "move_key" THEN {<<c.target, c.key>>} ELSE {}

\* Whatever command the storage replays, the watchers of every key it changes
\* are sent that command; the key that MOVE puts in the other database is the
\* exception.
EveryChangeAnnounced ==
    \A db \in Dbs, c \in Commands :
        ChangedPlaces(map, dispatch_write_command(map, db, c)) \subseteq Announced(db, c) \cup MovedTo(c)

\* sets.rs:143: "Store union of multiple sets in destination key."
UnionIsStored ==
    \A db \in Dbs, dest \in Keys : \A first, second \in DOMAIN map[db] :
        LET d == map[db]
        IN Holds(d, first, "set") /\ Holds(d, second, "set") =>
              ContentOf(sunionstore(d, dest, <<first, second>>), dest, "set")
                 = d[first].set \cup d[second].set

\* lists.rs:276, of LTRIM: "If range is invalid, delete the key".
EmptyRangeDeletes ==
    \A l \in StoredLists : \A start, stop \in Indices :
        TrimmedList(l, start, stop) = <<>> => Trim(l, start, stop) = <<>>

\* zsets.rs:594 and 631, of ZPOPMAX and ZPOPMIN: "If count is 0 or greater than
\* set size, pops all available."
ZeroPopsAll ==
    \A z \in StoredZSets : PopMax(z, 0) = EmptyZSet /\ PopMin(z, 0) = EmptyZSet
=============================================================================
