--------------------------- MODULE ReplicaParser ---------------------------
(***************************************************************************)
(* The parser of a replication connection, native/vdr_redis_nif/src/       *)
(* replica.rs, with the snapshot parser inside it, byte by byte: header of *)
(* the bulk string, as many bytes of snapshot as it announces, then RESP   *)
(* commands.  Bytes arrive in chunks that end anywhere.                    *)
(***************************************************************************)
EXTENDS RdbFormat, FiniteSets

CONSTANTS
  Inputs,     \* what the master may send: [skip_rdb, entries, stream]
  ChunkSizes  \* lengths of a chunk; the rest at once is always possible

VARIABLES
  input,      \* the input of this behaviour, with its bytes
  fed,        \* how many of them have been fed
  r           \* the parser

vars == <<input, fed, r>>

----------------------------------------------------------------------------
(* The parser is a record: buffer, state, db, the snapshot parser with the *)
(* announced size and the bytes fed to it, the flags of the last call, the *)
(* commands delivered, and whether it has failed.                          *)

\* After +CONTINUE no snapshot is expected.
NewParser(skip_rdb) ==
  [buffer |-> <<>>, state |-> IF skip_rdb THEN "streaming" ELSE "waiting_rdb",
   db |-> 0, rdb |-> None, size |-> 0, read |-> 0, flags |-> {},
   out |-> <<>>, error |-> FALSE]

Skip(b) == LET kept == {i \in DOMAIN b : b[i] \notin {10, 13}}
           IN  IF kept = {} THEN <<>> ELSE SubSeq(b, Min(kept), Len(b))

\* Position of the first CR LF at or after `from', 0 if there is none.
find_crlf(b, from) ==
  LET ends == {i \in from..(Len(b) - 1) : b[i] = 13 /\ b[i + 1] = 10}
  IN  IF ends = {} THEN 0 ELSE Min(ends)

\* Slip for SnapshotBeforeStreaming: the bytes of the header count as bytes of the snapshot.
ParseHeaderCounted(p) ==
  LET b == Skip(p.buffer)
      end == find_crlf(b, 1)
  IN  IF b = <<>> \/ end = 0 THEN [p EXCEPT !.buffer = b]
      ELSE [p EXCEPT !.buffer = SubSeq(b, end + 2, Len(b)), !.state = "reading_rdb",
                     !.rdb = NewRDBParser, !.size = Parse(SubSeq(b, 2, end - 1)),
                     !.read = end + 1]

parse_rdb_header(p) ==
  LET b == Skip(p.buffer)
      end == find_crlf(b, 1)
      digits == SubSeq(b, 2, end - 1)
  IN  IF b # <<>> /\ b[1] # 36 THEN Fail(p)
      ELSE IF b = <<>> \/ end = 0 THEN [p EXCEPT !.buffer = b]
      ELSE IF ~IsDigits(digits) THEN Fail(p)
      ELSE [p EXCEPT !.buffer = SubSeq(b, end + 2, Len(b)), !.state = "reading_rdb",
                     !.rdb = NewRDBParser, !.size = Parse(digits), !.read = 0]

\* The bytes of the buffer that still belong to the snapshot.
BytesToFeed(p) == Min({Len(p.buffer), p.size - p.read})

\* The stream begins when the announced bytes have been fed, whatever the
\* snapshot parser has made of them.
AfterFeed(p, n, rdb) ==
  LET next == [p EXCEPT !.buffer = SubSeq(@, n + 1, Len(@)), !.read = @ + n,
                        !.out = @ \o rdb.out, !.rdb = [rdb EXCEPT !.out = <<>>]]
  IN  IF rdb.error THEN Fail(p)
      ELSE IF next.read < p.size THEN next
      ELSE [next EXCEPT !.state = "streaming", !.rdb = None, !.size = 0, !.read = 0]

stream_rdb_data(p) ==
  IF p.size = p.read THEN Fail(p)   \* rdb_already_complete
  ELSE IF p.buffer = <<>> THEN p
  ELSE LET n == BytesToFeed(p)
       IN  AfterFeed(p, n, feed_data(p.rdb, SubSeq(p.buffer, 1, n)))

\* `left' bulk strings from position i.
RECURSIVE Elements(_, _, _)
Elements(b, i, left) ==
  LET end == find_crlf(b, i + 1)
      digits == SubSeq(b, i + 1, end - 1)
      after == end + 2 + Parse(digits)
  IN  IF left = 0 THEN Some(<<>>, i - 1)
      ELSE IF i > Len(b) THEN None
      ELSE IF b[i] # 36 THEN Err
      ELSE IF end = 0 THEN None
      ELSE IF ~IsDigits(digits) THEN Err
      ELSE IF after + 1 > Len(b) THEN None
      ELSE Bind(Elements(b, after + 2, left - 1), LAMBDA others :
             Some(<<SubSeq(b, end + 2, after - 1)>> \o others.val, others.size))

Upper(text) == [i \in DOMAIN text |-> IF text[i] \in 97..122 THEN text[i] - 32 ELSE text[i]]

\* SELECT changes the database, PING and REPLCONF GETACK set a flag; none
\* of them is delivered.
Execute(p, words) ==
  LET name == Upper(words[1])
      two == Len(words) >= 2
  IN  IF words = <<>> THEN p
      ELSE IF name = Ascii["SELECT"]
           THEN IF two /\ IsDigits(words[2]) THEN [p EXCEPT !.db = Parse(words[2])] ELSE p
      ELSE IF name = Ascii["PING"] THEN [p EXCEPT !.flags = @ \cup {"ping"}]
      ELSE IF name = Ascii["REPLCONF"]
           THEN IF two /\ Upper(words[2]) = Ascii["GETACK"]
                THEN [p EXCEPT !.flags = @ \cup {"replconf_getack"}] ELSE p
      ELSE [p EXCEPT !.out =
              Append(@, [db |-> p.db, name |-> words[1], args |-> Tail(words)])]

parse_command(p) ==
  LET b == Skip(p.buffer)
      end == find_crlf(b, 1)
      digits == SubSeq(b, 2, end - 1)
      rest == [p EXCEPT !.buffer = b]
  IN  IF b # <<>> /\ b[1] # 42 THEN Fail(p)
      ELSE IF b = <<>> \/ end = 0 THEN rest
      ELSE IF ~IsDigits(digits) THEN Fail(p)
      ELSE OnResult(rest, Elements(b, end + 2, Parse(digits)), LAMBDA words :
             Execute(Advance(rest, words.size), words.val))

ParseNext(p) ==
  CASE p.state = "waiting_rdb" -> parse_rdb_header(p)
    [] p.state = "reading_rdb" -> stream_rdb_data(p)
    [] p.state = "streaming" -> parse_command(p)

RECURSIVE ParseOn(_, _)
ParseOn(before, p) ==
  IF p = before \/ p.error THEN p ELSE ParseOn(p, ParseNext(p))

Feed(p, data) ==
  Commit(p, ParseOn(None, [p EXCEPT !.buffer = @ \o data, !.flags = {}]))

----------------------------------------------------------------------------
(* Behaviour: one input, in chunks.  A parser that has failed is dropped   *)
(* by the replica, which reconnects.                                       *)

Init ==
  /\ \E given \in Inputs :
       input = [skip_rdb |-> given.skip_rdb, entries |-> given.entries, stream |-> given.stream,
                bytes |-> IF given.skip_rdb THEN Arrays(given.stream)
                          ELSE Wire(given.entries, given.stream)]
  /\ fed = 0
  /\ r = NewParser(input.skip_rdb)

Receive ==
  /\ ~r.error
  /\ \E n \in ChunkSizes \cup {Len(input.bytes) - fed} :
       /\ n \in 1..(Len(input.bytes) - fed)
       /\ fed' = fed + n
       /\ r' = Feed(r, SubSeq(input.bytes, fed + 1, fed + n))
  /\ UNCHANGED input

Next == Receive

Spec == Init /\ [][Next]_vars

----------------------------------------------------------------------------
(* Properties.                                                             *)

\* Commands of the stream with the database selected before them.
RECURSIVE Streamed(_, _)
Streamed(stream, db) ==
  IF stream = <<>> THEN <<>>
  ELSE LET words == Head(stream)
           selected == words[1] = Ascii["SELECT"]
       IN  IF selected THEN Streamed(Tail(stream), Parse(words[2]))
           ELSE (IF words[1] \in {Ascii["PING"], Ascii["REPLCONF"]} THEN <<>>
                 ELSE <<[db |-> db, name |-> words[1], args |-> Tail(words)]>>)
                  \o Streamed(Tail(stream), db)

SnapshotCommands ==
  FlattenSeq([i \in DOMAIN input.entries |-> Commands(input.entries[i])])

\* However the bytes are cut into chunks, in a length, a string, an expiry,
\* a value of many parts or a CR LF, the parsers are where one call with
\* all of these bytes would have taken them, with the same commands
\* delivered (feed_data and parse_next of rdb.rs and replica.rs, which must
\* not consume a part of something whose rest has not arrived).
ChunkingIrrelevant ==
  [r EXCEPT !.flags = {}] =
    [Feed(NewParser(input.skip_rdb), SubSeq(input.bytes, 1, fed)) EXCEPT !.flags = {}]

\* The commands delivered are those of the keys the master wrote, in their
\* order, each with its database and expiry, then those of the stream, and
\* nothing else; once all bytes are there, all of them (parse_value,
\* load_object, parse_listpack, parse_intset, parse_command).  It is about
\* the types that calculate_value_size knows, lists in packed nodes and
\* listpacks without the numbers from -4096 to -1; the three properties
\* below are about the rest.
DeliversExactly ==
  LET expected == SnapshotCommands \o Streamed(input.stream, 0)
  IN  /\ IsPrefix(r.out, expected)
      /\ fed = Len(input.bytes) => r.out = expected

\* When the parser reports `streaming', on which the new storage is put in
\* place of the old one, every command of the snapshot has been delivered,
\* and no command of the stream before (stream_rdb_data's count of bytes).
SnapshotBeforeStreaming ==
  IF r.state = "streaming"
  THEN IsPrefix(SnapshotCommands, r.out)
  ELSE Len(r.out) <= Len(SnapshotCommands)

\* The 13-bit integers of a listpack are signed, as parse_listpack_entry's
\* comment says: a hash that holds one is delivered as it was written.
SmallIntegersDecoded ==
  fed = Len(input.bytes) => IsPrefix(SnapshotCommands, r.out)

\* Every key of the type has arrived once all bytes have.
Delivered(type) ==
  fed = Len(input.bytes) =>
    \A i \in DOMAIN input.entries : input.entries[i].type = type =>
      ToSet(Commands(input.entries[i])) \subseteq ToSet(r.out)

\* A list is delivered as it was written, whether its nodes are plain or
\* packed: rdb.rs:954 names both, "1 = plain, 2 = packed (LZF compressed)".
PlainNodesDelivered == Delivered(RDB_TYPE_LIST_QUICKLIST_2)

\* A set is delivered also when it is written as a hash table: rdb_test.exs:8
\* lists, as supported by rdb.rs, "Sets (intset, hashtable, listpack)".
HashtableSetsDelivered == Delivered(RDB_TYPE_SET)
=============================================================================
