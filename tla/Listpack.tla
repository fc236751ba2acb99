------------------------------ MODULE Listpack ------------------------------
(***************************************************************************)
(* The compact encodings inside a snapshot: numbers in little- and         *)
(* big-endian bytes, decimal text, listpacks and intsets, as the functions *)
(* at the end of native/vdr_redis_nif/src/rdb.rs decode them.  A byte      *)
(* string is a sequence of numbers below 256; a value, as in the code, is  *)
(* the byte string a client would see, so that an integer is turned into   *)
(* its decimal text.                                                       *)
(***************************************************************************)
EXTENDS Integers, Sequences, SequencesExt, TLC

----------------------------------------------------------------------------
(* Results of a decoder: bytes are missing, the bytes are wrong, or a      *)
(* value and the number of bytes it took.                                  *)
None == [is |-> "none"]
Err == [is |-> "err"]
Some(v, n) == [is |-> "some", val |-> v, size |-> n]

\* Go on with a value, return anything else: the `?' of the code.
Bind(result, F(_)) == IF result.is = "some" THEN F(result) ELSE result

----------------------------------------------------------------------------
(* Numbers.  Folding from the most significant byte keeps small values of  *)
(* eight bytes within TLC's integers.                                      *)
BigEndian(bytes) == FoldLeft(LAMBDA n, byte : 256 * n + byte, 0, bytes)
LittleEndian(bytes) == BigEndian(Reverse(bytes))

\* Two's complement of any width: get_i8, get_i16_le, get_i32_le, get_i64_le.
SignedLittleEndian(bytes) ==
  IF Last(bytes) < 128
  THEN LittleEndian(bytes)
  ELSE -(LittleEndian([i \in DOMAIN bytes |-> 255 - bytes[i]]) + 1)

RECURSIVE Digits(_)
Digits(n) == IF n < 10 THEN <<48 + n>> ELSE Append(Digits(n \div 10), 48 + (n % 10))

\* to_string() of an integer.
Decimal(n) == IF n < 0 THEN <<45>> \o Digits(-n) ELSE Digits(n)

IsDigits(text) == text # <<>> /\ \A i \in DOMAIN text : text[i] \in 48..57

\* parse() of an unsigned integer whose text IsDigits.
Parse(text) == FoldLeft(LAMBDA n, digit : 10 * n + (digit - 48), 0, text)

\* The byte strings of the code that are compared or sent on.
Ascii ==
     ("REDIS" :> <<82, 69, 68, 73, 83>>)
  @@ ("VALKEY" :> <<86, 65, 76, 75, 69, 89>>)
  @@ ("SET" :> <<83, 69, 84>>)
  @@ ("SADD" :> <<83, 65, 68, 68>>)
  @@ ("HSET" :> <<72, 83, 69, 84>>)
  @@ ("ZADD" :> <<90, 65, 68, 68>>)
  @@ ("RPUSH" :> <<82, 80, 85, 83, 72>>)
  @@ ("PEXPIREAT" :> <<80, 69, 88, 80, 73, 82, 69, 65, 84>>)
  @@ ("SELECT" :> <<83, 69, 76, 69, 67, 84>>)
  @@ ("PING" :> <<80, 73, 78, 71>>)
  @@ ("REPLCONF" :> <<82, 69, 80, 76, 67, 79, 78, 70>>)
  @@ ("GETACK" :> <<71, 69, 84, 65, 67, 75>>)

----------------------------------------------------------------------------
(* Listpack entries.  The entry starts at position i of data, with its     *)
(* encoding byte, and ends with its own length written backwards.          *)
calculate_backlen_size(n) ==
  CASE n <= 127 -> 1
    [] n \in 128..16383 -> 2
    [] n \in 16384..2097151 -> 3
    [] n \in 2097152..268435455 -> 4
    [] OTHER -> 5

\* A string after `header' bytes, the encoding byte included.
StringEntry(data, i, header, length) ==
  LET size == header + length + calculate_backlen_size(header + length)
  IN  IF Len(data) - i + 1 < size
      THEN Err
      ELSE Some(SubSeq(data, i + header, i + header + length - 1), size)

\* An integer of `width' bytes after the encoding byte.
IntegerEntry(data, i, width, value) ==
  IF Len(data) - i < width + 1 THEN Err ELSE Some(Decimal(value), width + 2)

\* The 13-bit class is tested with its upper four bits, 1100: the half of
\* it that holds the negative numbers, 1101, is taken for a string whose
\* length follows in two bytes.
parse_listpack_entry(data, i) ==
  LET enc == data[i]
      Follow(n) == SubSeq(data, i + 1, i + n)
      Has(n) == Len(data) - i >= n
      thirteen == (enc % 32) * 256 + data[i + 1]
  IN  CASE enc < 128 -> IntegerEntry(data, i, 0, enc)
        [] enc \in 128..191 -> StringEntry(data, i, 1, enc % 64)
        [] enc \in 192..207 ->
             IntegerEntry(data, i, 1,
                          IF thirteen >= 4096 THEN thirteen - 8192 ELSE thirteen)
        [] enc \in 208..223 ->
             IF Has(2) THEN StringEntry(data, i, 3, BigEndian(Follow(2))) ELSE Err
        [] enc \in 224..239 ->
             IF Has(1) THEN StringEntry(data, i, 2, (enc % 16) * 256 + data[i + 1])
                       ELSE Err
        [] enc = 240 ->
             IF Has(4) THEN StringEntry(data, i, 5, LittleEndian(Follow(4))) ELSE Err
        [] enc = 241 -> IntegerEntry(data, i, 2, SignedLittleEndian(Follow(2)))
        [] enc = 242 -> IntegerEntry(data, i, 3, SignedLittleEndian(Follow(3)))
        [] enc = 243 -> IntegerEntry(data, i, 4, SignedLittleEndian(Follow(4)))
        [] enc = 244 -> IntegerEntry(data, i, 8, SignedLittleEndian(Follow(8)))
        [] OTHER -> Err

\* At most `left' entries from position i, up to the end marker.
RECURSIVE Entries(_, _, _)
Entries(data, i, left) ==
  IF left = 0 \/ i > Len(data) \/ data[i] = 255
  THEN Some(<<>>, 0)
  ELSE Bind(parse_listpack_entry(data, i), LAMBDA entry :
         Bind(Entries(data, i + entry.size, left - 1), LAMBDA others :
           Some(<<entry.val>> \o others.val, entry.size + others.size)))

parse_listpack(data) ==
  IF Len(data) < 6 THEN Err
                   ELSE Entries(data, 7, LittleEndian(SubSeq(data, 5, 6)))

parse_intset(data) ==
  LET width == LittleEndian(SubSeq(data, 1, 4))
      length == LittleEndian(SubSeq(data, 5, 8))
      Member(k) == SubSeq(data, 9 + (k - 1) * width, 8 + k * width)
  IN  IF \/ Len(data) < 8
         \/ length > 0 /\ (width \notin {2, 4, 8} \/ Len(data) < 8 + length * width)
      THEN Err
      ELSE Some([k \in 1..length |-> Decimal(SignedLittleEndian(Member(k)))], Len(data))
=============================================================================
