-------------------------- MODULE MCReplicaParser --------------------------
(***************************************************************************)
(* Inputs for ReplicaParser.  MCInputs: every form of string and every     *)
(* type of value the parser knows, at the boundaries of their encodings,   *)
(* next to another key, with and without an expiry and a change of         *)
(* database.  What the parser gets wrong is in the three inputs at the     *)
(* end: small negative numbers of a listpack, plain nodes of a list, and   *)
(* sets that are no listpack.                                              *)
(***************************************************************************)
EXTENDS ReplicaParser

\* The doubles 1, 2 and -1.5.
MCF64 == (<<0, 0, 0, 0, 0, 0, 240, 63>> :> <<49>>)
      @@ (<<0, 0, 0, 0, 0, 0, 0, 64>> :> <<50>>)
      @@ (<<0, 0, 0, 0, 0, 0, 248, 191>> :> <<45, 49, 46, 53>>)

\* The texts of scores in a listpack: 3, -1.5, inf, and 1e+20 with all its digits.
MCFloat == (<<51>> :> <<51>>) @@ (<<45, 49, 46, 53>> :> <<45, 49, 46, 53>>)
        @@ (<<105, 110, 102>> :> <<105, 110, 102>>)
        @@ (<<49, 101, 43, 50, 48>> :> <<49>> \o [i \in 1..20 |-> 48])

N(form, n) == [form |-> form, n |-> n]
T(form, text) == [form |-> form, text |-> text]
Many(n) == [i \in 1..n |-> 98]
Eight == T("eight", <<255, 0, 250, 251, 252, 253, 254, 255>>)

\* Strings in every form, in texts that look like opcodes and lengths.
Strings ==
  {T("len6", <<>>), T("len6", <<255, 13, 10, 254>>), T("len14", <<97, 98>>),
   T("len32", <<192>>), T("len64", <<97>>), T("lzf", <<97, 98, 99>>),
   T("lzf", Many(9)), T("lzf", Many(10)), N("int8", -128), N("int8", 127), N("int16", -32768),
   N("int16", 255), N("int32", 65536), N("int32", -65537)}

\* Entries of a listpack in every form but that of small negative numbers.
Packed ==
  {<<N("u7", 0), N("u7", 127)>>, <<N("i13", 128), N("i13", 4095)>>,
   <<N("i16", -32768), N("i16", 4096)>>, <<N("i24", -8388608), N("i24", 32768)>>,
   <<N("i32", -2147483647), N("i32", 8388608)>>, <<N("i64", -5), N("i64", 5)>>,
   <<T("s6", <<>>), T("s6", <<255>>)>>, <<T("s12", <<97>>), N("u7", 3)>>,
   <<T("s32", <<97, 98>>), N("i16", -1)>>}

E(type, value) == [type |-> type, value |-> value]

Values ==
  {E(RDB_TYPE_STRING, <<s>>) : s \in Strings}
    \cup {E(RDB_TYPE_HASH_LISTPACK, list) : list \in Packed}
    \cup {E(type, <<T("s6", <<97>>), N("u7", 3)>>) : type \in {RDB_TYPE_SET_LISTPACK, RDB_TYPE_ZSET_LISTPACK}}
    \cup {E(RDB_TYPE_ZSET_LISTPACK, <<N("u7", 1), T("s6", <<45, 49, 46, 53>>)>>),
          E(RDB_TYPE_ZSET_LISTPACK, <<T("s6", <<97>>), T("s6", <<105, 110, 102>>),
                                      T("s6", <<98>>), T("s6", <<49, 101, 43, 50, 48>>)>>),
          E(RDB_TYPE_SET_INTSET, [width |-> 2, numbers |-> <<-300, -1, 7>>]),
          E(RDB_TYPE_SET_INTSET, [width |-> 4, numbers |-> <<-65536, 65536>>]),
          E(RDB_TYPE_SET_INTSET, [width |-> 8, numbers |-> <<-2147483647, -1, 300>>]),
          E(RDB_TYPE_HASH, <<T("len6", <<97>>), N("int8", 1), T("lzf", Many(4)), T("len14", <<>>)>>),
          E(RDB_TYPE_HASH_2, <<T("len6", <<97>>), N("int8", 1), Eight,
                               T("len6", <<98>>), T("len6", <<>>), Eight>>),
          E(RDB_TYPE_ZSET_2, <<T("len6", <<97>>), T("f64", <<0, 0, 0, 0, 0, 0, 240, 63>>),
                               N("int16", 300), T("f64", <<0, 0, 0, 0, 0, 0, 248, 191>>)>>),
          E(RDB_TYPE_LIST_QUICKLIST_2, << <<N("u7", 1), T("s6", <<97>>)>>, <<N("i13", 300)>> >>)}

Key(db, key, expire_ms, v) ==
  [db |-> db, key |-> key, expire_ms |-> expire_ms, type |-> v.type, value |-> v.value]

\* A string whose listpack entry is of 127 or of 128 bytes: the length after
\* it takes one byte or two.
Boundary == {E(RDB_TYPE_HASH_LISTPACK, <<T("s12", Many(n)), N("u7", 3)>>) : n \in {125, 126}}

Word == <<120>>
Stream1 == << <<Ascii["SELECT"], <<49>>>>, <<Ascii["PING"]>>, <<Ascii["SET"], Word, <<>>>>,
              <<Ascii["REPLCONF"], Ascii["GETACK"], <<42>>>>,
              <<Ascii["SELECT"], <<48>>>>, <<Ascii["SET"], <<13, 10>>, <<42, 36>>>> >>

Small == E(RDB_TYPE_STRING, <<N("int8", 1)>>)

\* Each value before a small key, in the same or in another database and
\* without or with an expiry that the small key must not get.
MCInputs ==
  {[skip_rdb |-> FALSE, entries |-> <<Key(0, <<107>>, ms, v), Key(db, <<>>, NoExpiry, Small)>>,
    stream |-> <<Stream1[1], Stream1[3]>>] : v \in Values, ms \in {NoExpiry, 3000}, db \in {0, 1}}
    \cup {[skip_rdb |-> FALSE, entries |-> <<Key(2, <<107>>, 1001, v)>>, stream |-> Stream1] : v \in Boundary}
    \cup {[skip_rdb |-> skip, entries |-> <<>>, stream |-> Stream1] : skip \in BOOLEAN}

\* A small negative number in a listpack, followed by other entries.
MCNegative ==
  {[skip_rdb |-> FALSE,
    entries |-> <<Key(0, <<107>>, NoExpiry,
                      E(RDB_TYPE_HASH_LISTPACK, <<T("s6", <<97>>), N("i13", n)>>))>>,
    stream |-> Stream1] : n \in {-4096, -1, 128}}

\* A list with an element in a plain node, behind a packed one or alone.
MCPlain ==
  {[skip_rdb |-> FALSE,
    entries |-> <<Key(0, <<107>>, NoExpiry, E(RDB_TYPE_LIST_QUICKLIST_2, nodes))>>,
    stream |-> Stream1] :
     nodes \in {<< <<N("u7", 1)>> >>, << <<T("plain", Many(8))>> >>,
               << <<N("u7", 1)>>, <<T("plain", <<97, 97, 0, 0, 0, 0, 97>>)>> >>}}

\* A set written with its members one after the other, before another key.
MCHashtable ==
  {[skip_rdb |-> FALSE,
    entries |-> <<Key(0, <<107>>, NoExpiry,
                      E(RDB_TYPE_SET, <<T("len6", <<97>>), T("len6", <<98>>)>>)),
                  Key(0, <<>>, NoExpiry, Small)>>,
    stream |-> Stream1]}
=============================================================================
