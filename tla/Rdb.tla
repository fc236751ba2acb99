-------------------------------- MODULE Rdb --------------------------------
(***************************************************************************)
(* The incremental parser of a snapshot, native/vdr_redis_nif/src/rdb.rs.  *)
(* Bytes are appended to its buffer as they arrive; parse_next takes what  *)
(* it can and leaves the buffer alone when bytes are missing.  A parser is *)
(* a record:                                                               *)
(*   buffer    bytes not consumed yet                                      *)
(*   state     parse_state, with the opcode or value type of it in code    *)
(*   db, expire_ms, saved_key   what the next value belongs to             *)
(*   out       the commands it has delivered: [db, name, args]             *)
(*   error     it returned an error; its owner then drops it               *)
(***************************************************************************)
EXTENDS Listpack

\* How floating point numbers are read and printed is not modelled: the text
\* that to_string() gives a double, by its eight bytes and by a text that
\* parse() accepts.
CONSTANTS F64, Float

NoExpiry == -1

NewRDBParser == [buffer |-> <<>>, state |-> "magic", code |-> 0, db |-> 0,
                 expire_ms |-> NoExpiry, saved_key |-> <<>>,
                 out |-> <<>>, error |-> FALSE]

Fail(p) == [p EXCEPT !.error = TRUE]
Go(p, state, code) == [p EXCEPT !.state = state, !.code = code]
Advance(p, n) == [p EXCEPT !.buffer = SubSeq(@, n + 1, Len(@))]

\* What a step of the parser does with the result of a decoder: wait for
\* more bytes, fail, or go on with the value.
OnResult(p, result, F(_)) ==
  CASE result.is = "none" -> p
    [] result.is = "err" -> Fail(p)
    [] result.is = "some" -> F(result)

----------------------------------------------------------------------------
(* Lengths and strings, at an offset of a buffer.                          *)

peek_length_at(b, offset) ==
  LET first == b[offset + 1]
      Bytes(n) == SubSeq(b, offset + 2, offset + 1 + n)
      Has(n) == offset + n < Len(b)
  IN  CASE ~Has(0) -> None
        [] Has(0) /\ first < 64 -> Some(first, 1)
        [] Has(0) /\ first \in 64..127 ->
             IF Has(1) THEN Some((first % 64) * 256 + b[offset + 2], 2) ELSE None
        [] Has(0) /\ first = 128 ->
             IF Has(4) THEN Some(BigEndian(Bytes(4)), 5) ELSE None
        [] Has(0) /\ first = 129 ->
             IF Has(8) THEN Some(BigEndian(Bytes(8)), 9) ELSE None
        [] OTHER -> Err

\* The two lengths of a compressed string, and the bytes before its data.
LzfHeader(b, offset) ==
  Bind(peek_length_at(b, offset + 1), LAMBDA clen :
    Bind(peek_length_at(b, offset + 1 + clen.size), LAMBDA ulen :
      Some([clen |-> clen.val, ulen |-> ulen.val], 1 + clen.size + ulen.size)))

\* Bytes of an integer string (INT8, INT16, INT32), its first byte included.
IntegerSize == (192 :> 2) @@ (193 :> 3) @@ (194 :> 5)

calculate_string_size(b, offset) ==
  LET first == b[offset + 1]
  IN  IF offset >= Len(b) THEN None
      ELSE IF first \in DOMAIN IntegerSize THEN Some(0, IntegerSize[first])
      ELSE IF first = 195
           THEN Bind(LzfHeader(b, offset), LAMBDA lzf : Some(0, lzf.size + lzf.val.clen))
      ELSE IF first > 195 THEN None   \* unknown special encoding
      ELSE Bind(peek_length_at(b, offset), LAMBDA length : Some(0, length.size + length.val))

\* LZF: a control byte below 32 is followed by that many literals and one,
\* any other is a copy of earlier output.  Nothing, when the input ends too
\* early (EINVAL), the output grows over the limit (E2BIG) or a copy starts
\* before it (EINVAL).
RECURSIVE Unpack(_, _, _)
Unpack(in, out, limit) ==
  IF in = <<>> THEN out
  ELSE LET c == Head(in)
           literal == c < 32
           long == c \div 32 = 7
           used == IF literal THEN c + 2 ELSE IF long THEN 3 ELSE 2
           n == IF literal THEN c + 1 ELSE IF long THEN 9 + in[2] ELSE 2 + c \div 32
           back == (c % 32) * 256 + in[used] + 1
           copy == [k \in 1..n |-> out[Len(out) - back + 1 + ((k - 1) % back)]]
       IN  IF \/ Len(in) < used
              \/ Len(out) + n > limit
              \/ ~literal /\ back > Len(out)
           THEN <<>>
           ELSE Unpack(SubSeq(in, used + 1, Len(in)),
                       out \o (IF literal THEN SubSeq(in, 2, used) ELSE copy), limit)

lzf_decompress(in, ulen) ==
  LET out == Unpack(in, <<>>, ulen)
  IN  IF out # <<>> /\ Len(out) = ulen THEN Some(out, Len(in)) ELSE Err

load_string(b, offset) ==
  LET first == b[offset + 1]
      From(n, m) == SubSeq(b, offset + n + 1, offset + m)
      Has(n) == offset + n <= Len(b)
      LoadInteger(n) == IF Has(n) THEN Some(Decimal(SignedLittleEndian(From(1, n))), n)
                                  ELSE None
      LoadLzf(h, n) ==
        IF Has(n) THEN Bind(lzf_decompress(From(h.size, n), h.val.ulen),
                            LAMBDA text : Some(text.val, n))
                  ELSE None
      LoadBytes(from, n) == IF Has(n) THEN Some(From(from, n), n) ELSE None
  IN  IF ~Has(1) THEN None
      ELSE IF first \in DOMAIN IntegerSize THEN LoadInteger(IntegerSize[first])
      ELSE IF first = 195
           THEN Bind(LzfHeader(b, offset), LAMBDA lzf : LoadLzf(lzf, lzf.size + lzf.val.clen))
      ELSE IF first > 195 THEN None   \* unknown special encoding
      ELSE Bind(peek_length_at(b, offset),
                LAMBDA length : LoadBytes(length.size, length.size + length.val))

----------------------------------------------------------------------------
(* Values.  A value is one string, or a count and that many elements of    *)
(* the parts that Layout lists.                                            *)

RDB_TYPE_STRING == 0
RDB_TYPE_HASH == 4
RDB_TYPE_ZSET_2 == 5
RDB_TYPE_SET_INTSET == 11
RDB_TYPE_HASH_LISTPACK == 16
RDB_TYPE_ZSET_LISTPACK == 17
RDB_TYPE_LIST_QUICKLIST_2 == 18
RDB_TYPE_SET_LISTPACK == 20
RDB_TYPE_HASH_2 == 22

OneString == {RDB_TYPE_STRING, RDB_TYPE_SET_INTSET, RDB_TYPE_HASH_LISTPACK,
              RDB_TYPE_ZSET_LISTPACK, RDB_TYPE_SET_LISTPACK}

Layout == (RDB_TYPE_HASH :> <<"string", "string">>)
       @@ (RDB_TYPE_ZSET_2 :> <<"string", "eight">>)
       @@ (RDB_TYPE_LIST_QUICKLIST_2 :> <<"byte", "string">>)
       @@ (RDB_TYPE_HASH_2 :> <<"string", "string", "eight">>)

PartSize(b, offset, part) ==
  CASE part = "string" -> calculate_string_size(b, offset)
    [] part = "eight" -> Some(<<>>, 8)
    [] part = "byte" -> IF offset < Len(b) THEN Some(<<>>, 1) ELSE None

LoadPart(b, offset, part) ==
  CASE part = "string" -> load_string(b, offset)
    [] part = "eight" -> Some(SubSeq(b, offset + 1, offset + 8), 8)
    [] part = "byte" -> Some(<<b[offset + 1]>>, 1)

\* The parts of the elements from the k-th to the n-th, without or with
\* what they hold.
RECURSIVE PartsSize(_, _, _, _, _)
PartsSize(b, offset, layout, k, n) ==
  IF k > n THEN Some(<<>>, 0)
  ELSE Bind(PartSize(b, offset, layout[((k - 1) % Len(layout)) + 1]), LAMBDA one :
         Bind(PartsSize(b, offset + one.size, layout, k + 1, n), LAMBDA others :
           Some(<<>>, one.size + others.size)))

RECURSIVE LoadParts(_, _, _, _, _)
LoadParts(b, offset, layout, k, n) ==
  IF k > n THEN Some(<<>>, 0)
  ELSE Bind(LoadPart(b, offset, layout[((k - 1) % Len(layout)) + 1]), LAMBDA one :
         Bind(LoadParts(b, offset + one.size, layout, k + 1, n), LAMBDA others :
           Some(<<one.val>> \o others.val, one.size + others.size)))

calculate_value_size(b, type) ==
  IF type \in OneString THEN calculate_string_size(b, 0)
  ELSE IF type \notin DOMAIN Layout THEN Err   \* unknown_rdb_type
  ELSE Bind(peek_length_at(b, 0), LAMBDA count :
         Bind(PartsSize(b, count.size, Layout[type], 1, count.val * Len(Layout[type])),
              LAMBDA parts : Some(<<>>, count.size + parts.size)))

\* binary_to_float_safe and to_string: what is no number is 0.
ScoreText(text) == IF text \in DOMAIN Float THEN Float[text] ELSE <<48>>

\* Member and score, as they are stored, to score and member, as ZADD
\* takes them.
ScoreFirst(pairs) ==
  [i \in DOMAIN pairs |-> IF i % 2 = 1 THEN pairs[i + 1] ELSE pairs[i - 1]]

Build(name, key, args) == <<[name |-> name, args |-> <<key>> \o args]>>

\* The commands for the entries of a listpack.
LoadEntries(type, key, entries) ==
  LET scored == [i \in DOMAIN entries |->
                   IF i % 2 = 0 THEN ScoreText(entries[i]) ELSE entries[i]]
  IN  IF type = RDB_TYPE_SET_LISTPACK THEN Some(Build(Ascii["SADD"], key, entries), 0)
      ELSE IF Len(entries) % 2 # 0 THEN Err
      ELSE IF type = RDB_TYPE_HASH_LISTPACK THEN Some(Build(Ascii["HSET"], key, entries), 0)
      ELSE Some(Build(Ascii["ZADD"], key, ScoreFirst(scored)), 0)

\* The commands for a value that is one string.
LoadOne(type, key, text) ==
  IF type = RDB_TYPE_STRING THEN Some(Build(Ascii["SET"], key, <<text>>), 0)
  ELSE IF type = RDB_TYPE_SET_INTSET
       THEN Bind(parse_intset(text), LAMBDA set : Some(Build(Ascii["SADD"], key, set.val), 0))
  ELSE Bind(parse_listpack(text), LAMBDA list : LoadEntries(type, key, list.val))

\* The commands for a value of counted elements.
LoadMany(type, key, parts) ==
  LET lists == [i \in 1..(Len(parts) \div 2) |-> parse_listpack(parts[2 * i])]
      values == FlattenSeq([i \in DOMAIN lists |-> lists[i].val])
      pairs == [i \in 1..(2 * Len(parts)) \div 3 |-> parts[i + (i - 1) \div 2]]
      scored == [i \in DOMAIN parts |-> IF i % 2 = 0 THEN F64[parts[i]] ELSE parts[i]]
  IN  CASE type = RDB_TYPE_HASH -> Some(Build(Ascii["HSET"], key, parts), 0)
        [] type = RDB_TYPE_ZSET_2 -> Some(Build(Ascii["ZADD"], key, ScoreFirst(scored)), 0)
        [] type = RDB_TYPE_HASH_2 ->
             Some(IF parts = <<>> THEN <<>> ELSE Build(Ascii["HSET"], key, pairs), 0)
        [] type = RDB_TYPE_LIST_QUICKLIST_2 ->
             IF \E i \in DOMAIN lists : lists[i] = Err THEN Err
             ELSE Some(IF values = <<>> THEN <<>> ELSE Build(Ascii["RPUSH"], key, values), 0)

load_object(b, type, key) ==
  IF type \in OneString
  THEN Bind(load_string(b, 0), LAMBDA text : LoadOne(type, key, text.val))
  ELSE Bind(peek_length_at(b, 0), LAMBDA count :
         Bind(LoadParts(b, count.size, Layout[type], 1, count.val * Len(Layout[type])),
              LAMBDA parts : LoadMany(type, key, parts.val)))

----------------------------------------------------------------------------
(* The states of the parser.  A step that finds too few bytes returns its  *)
(* parser unchanged.                                                       *)

Version(text, versions) == IsDigits(text) /\ Parse(text) \in versions

parse_magic(p) ==
  LET magic == SubSeq(p.buffer, 1, 9)
  IN  IF Len(p.buffer) < 9 THEN p
      ELSE IF \/ IsPrefix(Ascii["REDIS"], magic) /\ Version(SubSeq(magic, 6, 9), 1..12)
              \/ IsPrefix(Ascii["VALKEY"], magic) /\ Version(SubSeq(magic, 7, 9), 80..999)
      THEN Go(Advance(p, 9), "opcode", 0)
      ELSE Fail(p)

RDB_OPCODE_AUX == 250
RDB_OPCODE_RESIZEDB == 251
RDB_OPCODE_EXPIRETIME_MS == 252
RDB_OPCODE_EXPIRETIME == 253
RDB_OPCODE_SELECTDB == 254
RDB_OPCODE_EOF == 255

parse_opcode(p) ==
  LET opcode == p.buffer[1]
  IN  IF p.buffer = <<>> THEN p
      ELSE Go(Advance(p, 1),
              IF opcode = RDB_OPCODE_EOF THEN "checksum"
              ELSE IF opcode >= RDB_OPCODE_AUX THEN "processing" ELSE "key",
              IF opcode = RDB_OPCODE_EOF THEN 0 ELSE opcode)

process_key(p) ==
  OnResult(p, load_string(p.buffer, 0), LAMBDA key :
    [Go(Advance(p, key.size), "value", p.code) EXCEPT !.saved_key = key.val])

\* An opcode whose operands took n bytes.
Processed(p, n) == Go(Advance(p, n), "opcode", 0)

ProcessSelectDb(p) ==
  OnResult(p, peek_length_at(p.buffer, 0), LAMBDA db :
    [Processed(p, db.size) EXCEPT !.db = db.val])

\* Slip for ChunkingIrrelevant: the first length is consumed before the second one has arrived.
ProcessResizeEagerly(p) ==
  LET size == peek_length_at(p.buffer, 0)
      expires == peek_length_at(p.buffer, size.size)
  IN  IF size.is = "none" THEN p
      ELSE IF expires.is = "none" THEN Advance(p, size.size)
      ELSE Processed(p, size.size + expires.size)

ProcessResizeDb(p) ==
  OnResult(p, peek_length_at(p.buffer, 0), LAMBDA size :
    OnResult(p, peek_length_at(p.buffer, size.size), LAMBDA expires :
      Processed(p, size.size + expires.size)))

ProcessAux(p) ==
  OnResult(p, PartsSize(p.buffer, 0, <<"string">>, 1, 2), LAMBDA size :
    IF Len(p.buffer) < size.size THEN p
    ELSE OnResult(p, LoadParts(p.buffer, 0, <<"string">>, 1, 2), LAMBDA pair :
           Processed(p, size.size)))

\* Seconds in four bytes or milliseconds in eight.
ProcessExpiry(p, width, unit) ==
  IF Len(p.buffer) < width THEN p
  ELSE [Processed(p, width) EXCEPT
          !.expire_ms = unit * LittleEndian(SubSeq(p.buffer, 1, width))]

process_opcode(p) ==
  CASE p.code = RDB_OPCODE_SELECTDB -> ProcessSelectDb(p)
    [] p.code = RDB_OPCODE_RESIZEDB -> ProcessResizeDb(p)
    [] p.code = RDB_OPCODE_AUX -> ProcessAux(p)
    [] p.code = RDB_OPCODE_EXPIRETIME -> ProcessExpiry(p, 4, 1000)
    [] p.code = RDB_OPCODE_EXPIRETIME_MS -> ProcessExpiry(p, 8, 1)

\* Slip for DeliversExactly: the expiry of one key stays for the next.
ForgetKey(p) == [Go(p, "opcode", 0) EXCEPT !.saved_key = <<>>]

\* The value is complete, or its type is unknown: nothing of what belonged
\* to it is kept.
Forget(p) == [Go(p, "opcode", 0) EXCEPT !.expire_ms = NoExpiry, !.saved_key = <<>>]

Deliver(p, commands) ==
  [p EXCEPT !.out = @ \o [i \in DOMAIN commands |->
     [db |-> p.db, name |-> commands[i].name, args |-> commands[i].args]]]

\* A value whose bytes are all there.
TakeValue(p, size) ==
  LET expiry == IF p.expire_ms = NoExpiry THEN <<>>
                ELSE Build(Ascii["PEXPIREAT"], p.saved_key, <<Decimal(p.expire_ms)>>)
  IN  OnResult(p, load_object(p.buffer, p.code, p.saved_key), LAMBDA value :
        Forget(Advance(Deliver(p, value.val \o expiry), size)))

\* A value of unknown type is "skipped" without consuming its bytes.
ParseSized(p, size) ==
  CASE size.is = "none" -> p
    [] size.is = "err" -> Forget(p)
    [] size.is = "some" -> IF Len(p.buffer) < size.size THEN p ELSE TakeValue(p, size.size)

parse_value(p) == ParseSized(p, calculate_value_size(p.buffer, p.code))

parse_checksum(p) ==
  IF Len(p.buffer) < 8 THEN p ELSE Go(Advance(p, 8), "finished", 0)

parse_next(p) ==
  CASE p.state = "magic" -> parse_magic(p)
    [] p.state = "opcode" -> parse_opcode(p)
    [] p.state = "processing" -> process_opcode(p)
    [] p.state = "key" -> process_key(p)
    [] p.state = "value" -> parse_value(p)
    [] p.state = "checksum" -> parse_checksum(p)
    [] p.state = "finished" -> p

\* Steps from p, which followed `before', until one changes nothing.
RECURSIVE ParseAll(_, _)
ParseAll(before, p) ==
  IF p = before \/ p.error THEN p ELSE ParseAll(p, parse_next(p))

\* An error loses the commands that the same call had parsed before it.
Commit(before, p) == IF p.error THEN [p EXCEPT !.out = before.out] ELSE p

feed_data(p, data) ==
  IF p.state = "finished" THEN Fail(p)
  ELSE Commit(p, ParseAll(None, [p EXCEPT !.buffer = @ \o data]))
=============================================================================
