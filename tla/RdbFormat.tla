----------------------------- MODULE RdbFormat -----------------------------
(***************************************************************************)
(* What a Redis or Valkey master sends for a full synchronisation: the     *)
(* snapshot of some keys in the RDB format, as a bulk string, and the      *)
(* commands that follow it.  The writer is outside the repository; this    *)
(* module is the reference that the parsers are compared with.             *)
(*                                                                         *)
(* A string is a record with the form it is written in and either a text   *)
(* or a number n.  A value is a sequence of strings, but a list is a       *)
(* sequence of nodes (sequences of strings) and an intset a record of the  *)
(* width of its numbers and the numbers.  An entry of the snapshot is a    *)
(* record [db, key, expire_ms, type, value].                               *)
(***************************************************************************)
EXTENDS Rdb

\* Two's complement of n in `width' bytes.
RECURSIVE Unsigned(_, _)
Unsigned(n, width) ==
  IF width = 0 THEN <<>> ELSE <<n % 256>> \o Unsigned(n \div 256, width - 1)
Signed(n, width) ==
  IF n >= 0 THEN Unsigned(n, width)
  ELSE LET bytes == Unsigned(-n - 1, width) IN [i \in 1..width |-> 255 - bytes[i]]

\* What a client sees of a string.
Meaning(s) == IF "n" \in DOMAIN s THEN Decimal(s.n)
              ELSE IF s.form = "f64" THEN F64[s.text] ELSE s.text

----------------------------------------------------------------------------
(* Strings, listpacks and intsets.                                         *)

Length(n, form) ==
  CASE form = "len6" -> <<n>>
    [] form = "len14" -> <<64 + n \div 256, n % 256>>
    [] form = "len32" -> <<128>> \o Reverse(Unsigned(n, 4))
    [] form = "len64" -> <<129>> \o Reverse(Unsigned(n, 8))

\* Literals in one run, or one literal and a copy of it, short or long.
Compressed(text) ==
  IF Len(text) > 3 /\ \A i \in DOMAIN text : text[i] = text[1]
  THEN <<0, text[1]>> \o (IF Len(text) < 10 THEN <<32 * (Len(text) - 3), 0>>
                                            ELSE <<224, Len(text) - 10, 0>>)
  ELSE <<Len(text) - 1>> \o text

String(s) ==
  CASE s.form = "int8" -> <<192>> \o Signed(s.n, 1)
    [] s.form = "int16" -> <<193>> \o Signed(s.n, 2)
    [] s.form = "int32" -> <<194>> \o Signed(s.n, 4)
    [] s.form = "lzf" -> <<195, Len(Compressed(s.text)), Len(s.text)>> \o Compressed(s.text)
    [] s.form \in {"f64", "eight"} -> s.text
    [] OTHER -> Length(Len(s.text), s.form) \o s.text

Plain(text) == String([form |-> IF Len(text) < 64 THEN "len6" ELSE "len14", text |-> text])

\* The body of a listpack entry, then its size, seven bits to a byte.
Entry(s) ==
  LET body == CASE s.form = "u7" -> <<s.n>>
                [] s.form = "i13" -> LET bits == s.n % 8192
                                     IN  <<192 + bits \div 256, bits % 256>>
                [] s.form = "i16" -> <<241>> \o Signed(s.n, 2)
                [] s.form = "i24" -> <<242>> \o Signed(s.n, 3)
                [] s.form = "i32" -> <<243>> \o Signed(s.n, 4)
                [] s.form = "i64" -> <<244>> \o Signed(s.n, 8)
                [] s.form = "s6" -> <<128 + Len(s.text)>> \o s.text
                [] s.form = "s12" ->
                     <<224 + Len(s.text) \div 256, Len(s.text) % 256>> \o s.text
                [] s.form = "s32" -> <<240>> \o Unsigned(Len(s.text), 4) \o s.text
  IN  body \o (IF Len(body) < 128 THEN <<Len(body)>>
               ELSE <<Len(body) \div 128, 128 + (Len(body) % 128)>>)

PackedList(strings) ==
  LET body == FlattenSeq([i \in DOMAIN strings |-> Entry(strings[i])])
  IN  Unsigned(Len(body) + 7, 4) \o Unsigned(Len(strings), 2) \o body \o <<255>>

\* The width is that of the widest number the set ever had: 2, 4 or 8 bytes.
IntSet(set) ==
  Unsigned(set.width, 4) \o Unsigned(Len(set.numbers), 4)
    \o FlattenSeq([i \in DOMAIN set.numbers |-> Signed(set.numbers[i], set.width)])

\* A node of a list: an element too large for a listpack as it is (plain), or
\* a listpack (packed).
Node(strings) ==
  IF strings[1].form = "plain" THEN <<1>> \o Plain(strings[1].text)
                               ELSE <<2>> \o Plain(PackedList(strings))

----------------------------------------------------------------------------
(* Values, their commands and the snapshot.                                *)

\* A set with many or long members, which rdb.rs has no name for.
RDB_TYPE_SET == 2

Value(type, value) ==
  CASE type = RDB_TYPE_STRING -> String(value[1])
    [] type = RDB_TYPE_SET_INTSET -> Plain(IntSet(value))
    [] type = RDB_TYPE_LIST_QUICKLIST_2 ->
         Length(Len(value), "len6")
           \o FlattenSeq([i \in DOMAIN value |-> Node(value[i])])
    [] type = RDB_TYPE_SET ->
         Length(Len(value), "len6") \o FlattenSeq([i \in DOMAIN value |-> String(value[i])])
    [] type \in DOMAIN Layout \ {RDB_TYPE_LIST_QUICKLIST_2} ->
         Length(Len(value) \div Len(Layout[type]), "len6")
           \o FlattenSeq([i \in DOMAIN value |-> String(value[i])])
    [] type \in OneString \ {RDB_TYPE_STRING, RDB_TYPE_SET_INTSET} -> Plain(PackedList(value))

Meanings(strings) == [i \in DOMAIN strings |-> Meaning(strings[i])]

\* The command that puts the value in place, and the one for its expiry.
Commands(e) ==
  LET Is(s) == s.form # "eight"
      name == CASE e.type = RDB_TYPE_STRING -> "SET"
                [] e.type \in {RDB_TYPE_HASH, RDB_TYPE_HASH_2, RDB_TYPE_HASH_LISTPACK} -> "HSET"
                [] e.type \in {RDB_TYPE_ZSET_2, RDB_TYPE_ZSET_LISTPACK} -> "ZADD"
                [] e.type \in {RDB_TYPE_SET, RDB_TYPE_SET_INTSET, RDB_TYPE_SET_LISTPACK} -> "SADD"
                [] e.type = RDB_TYPE_LIST_QUICKLIST_2 -> "RPUSH"
      args == CASE e.type = RDB_TYPE_ZSET_2 -> ScoreFirst(Meanings(e.value))
                [] e.type = RDB_TYPE_ZSET_LISTPACK ->
                     LET pairs == Meanings(e.value)
                     IN  ScoreFirst([i \in DOMAIN pairs |->
                           IF i % 2 = 0 THEN Float[pairs[i]] ELSE pairs[i]])
                [] name = "RPUSH" -> Meanings(FlattenSeq(e.value))
                [] e.type = RDB_TYPE_SET_INTSET ->
                     [i \in DOMAIN e.value.numbers |-> Decimal(e.value.numbers[i])]
                [] OTHER -> Meanings(SelectSeq(e.value, Is))
      Command(n, a) == [db |-> e.db, name |-> Ascii[n], args |-> <<e.key>> \o a]
  IN  <<Command(name, args)>>
        \o (IF e.expire_ms = NoExpiry THEN <<>>
            ELSE <<Command("PEXPIREAT", <<Decimal(e.expire_ms)>>)>>)

\* An expiry of whole seconds is written the old way.
Expiry(ms) ==
  CASE ms = NoExpiry -> <<>>
    [] ms # NoExpiry /\ ms % 1000 = 0 -> <<RDB_OPCODE_EXPIRETIME>> \o Unsigned(ms \div 1000, 4)
    [] OTHER -> <<RDB_OPCODE_EXPIRETIME_MS>> \o Unsigned(ms, 8)

Keyed(e, before) ==
  (IF e.db = before THEN <<>>
   ELSE <<RDB_OPCODE_SELECTDB, e.db, RDB_OPCODE_RESIZEDB>> \o Length(1, "len14") \o <<1>>)
    \o Expiry(e.expire_ms) \o <<e.type>> \o Plain(e.key) \o Value(e.type, e.value)

\* Magic and version, an auxiliary field, the keys, the end and a checksum.
Snapshot(entries) ==
  Ascii["REDIS"] \o <<48, 48, 49, 49>>
    \o <<RDB_OPCODE_AUX, 1, 97>> \o String([form |-> "int8", n |-> 64])
    \o FlattenSeq([i \in DOMAIN entries |->
                     Keyed(entries[i], IF i = 1 THEN -1 ELSE entries[i - 1].db)])
    \o <<RDB_OPCODE_EOF, 13, 10, 42, 255, 0, 36, 10, 1>>

----------------------------------------------------------------------------
(* The stream after it: RESP arrays of bulk strings.                       *)

CRLF == <<13, 10>>
Bulk(text) == <<36>> \o Decimal(Len(text)) \o CRLF \o text \o CRLF
Array(words) ==
  <<42>> \o Decimal(Len(words)) \o CRLF
    \o FlattenSeq([i \in DOMAIN words |-> Bulk(words[i])])

Arrays(stream) == FlattenSeq([i \in DOMAIN stream |-> Array(stream[i])])

\* Line feeds while the master prepares the snapshot, the snapshot, and
\* commands.
Wire(entries, stream) ==
  LET snapshot == Snapshot(entries)
  IN  <<10, 10, 36>> \o Decimal(Len(snapshot)) \o CRLF \o snapshot \o Arrays(stream)
=============================================================================
