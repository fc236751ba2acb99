------------------------- MODULE ReplicationProofs -------------------------
(***************************************************************************)
(* The replication path from end to end, for any databases, snapshots of   *)
(* any size, streams of any length and any number of dropped connections:  *)
(* a storage that CONTINUE has not resumed in the wrong place serves the   *)
(* master's history, transactions are never torn, and the acknowledged     *)
(* offset does not run ahead of the stream.                                *)
(***************************************************************************)
EXTENDS Replication, TSProjProofs, MailboxLemmas, SequenceTheorems

Items == [op : StreamOps, db : Dbs]

\* The commands a+1 .. q of the stream st, each in the database the master
\* executed it in, and what the parser hands on of them.
Segment(st, a, q) ==
    [n \in 1 .. (q - a) |-> [op |-> st[a + n].op, at |-> a + n, part |-> 0, db |-> st[a + n].db]]
Held(st, a, q) == Handed(Segment(st, a, q))

\* The first k entries of the snapshot at offset o.
Loaded(o, k) == [j \in 1..k |-> Entry(o, j)]

\* The entries of the present snapshot that the parser has handed on.
Done == IF rdb_left = 0 THEN RdbEntries ELSE RdbEntries + 1 - rdb_left

----------------------------------------------------------------------------
(* What the parser hands on *)

\* The recursion of Handed, over the first n commands.
Rule(cmds, f, n) ==
    f[n] = IF n = 0 THEN <<>>
           ELSE IF cmds[n].op = "select" THEN f[n - 1]
           ELSE Append(f[n - 1], cmds[n])

\* The table f holds what is handed on of the first 0, 1, ..., n commands.
Table(cmds, f, n) ==
    /\ f = [i \in 0..n |-> f[i]]
    /\ \A i \in 0..n : Rule(cmds, f, i)

\* There is such a table.
LEMMA TableExists ==
    ASSUME NEW cmds, NEW n \in Nat
    PROVE  \E f : Table(cmds, f, n)
<1> SUFFICES ASSUME ~ \E f : Table(cmds, f, n) PROVE FALSE
  OBVIOUS
<1>1. PICK T \in SUBSET Nat : \A i \in Nat : i \in T <=> ~ \E f : Table(cmds, f, i)
  <2>1. {i \in Nat : ~ \E f : Table(cmds, f, i)} \in SUBSET Nat
    OBVIOUS
  <2> QED
    BY <2>1, Zenon
<1>2. PICK m \in T : \A i \in T : m <= i
  BY <1>1, LeastNumber
<1>3. m # 0
  <2>1. PICK f : f = [i \in 0..0 |-> <<>>]
    OBVIOUS
  <2>2. Table(cmds, f, 0)
    BY <2>1 DEF Table, Rule
  <2> QED
    BY <1>1, <2>2
<1>4. m \in Nat /\ m - 1 \in Nat /\ m - 1 \notin T
  BY <1>2, <1>3
<1>5. PICK g : Table(cmds, g, m - 1)
  BY <1>1, <1>4
<1>6. PICK f : f = [i \in 0..m |-> IF i < m THEN g[i]
                                   ELSE IF cmds[m].op = "select" THEN g[m - 1]
                                   ELSE Append(g[m - 1], cmds[m])]
  OBVIOUS
<1>7. ASSUME NEW i \in 0..m
      PROVE  Rule(cmds, f, i)
  <2>1. CASE i = m
    BY <1>3, <1>4, <1>6, <2>1 DEF Rule
  <2>2. CASE i < m
    <3>1. Rule(cmds, g, i) /\ f[i] = g[i] /\ (i # 0 => f[i - 1] = g[i - 1])
      BY <1>4, <1>5, <1>6, <2>2 DEF Table
    <3> QED
      BY <3>1 DEF Rule
  <2> QED
    BY <1>4, <2>1, <2>2
<1>8. Table(cmds, f, m)
  BY <1>6, <1>7 DEF Table
<1> QED
  BY <1>1, <1>2, <1>4, <1>8

\* Two tables agree as far as the commands agree, SELECTs apart.
LEMMA TableUnique ==
    ASSUME NEW c, NEW d, NEW f, NEW g, NEW m \in Nat, NEW n \in Nat,
           Table(c, f, m), Table(d, g, n), m <= n,
           \A i \in 1..m : c[i].op = d[i].op /\ (c[i].op # "select" => c[i] = d[i])
    PROVE  \A i \in 0..m : f[i] = g[i]
<1> SUFFICES ASSUME NEW k \in 0..m, f[k] # g[k] PROVE FALSE
  OBVIOUS
<1>1. PICK T \in SUBSET Nat : \A i \in Nat : i \in T <=> i \in 0..m /\ f[i] # g[i]
  <2>1. {i \in Nat : i \in 0..m /\ f[i] # g[i]} \in SUBSET Nat
    OBVIOUS
  <2> QED
    BY <2>1, Zenon
<1>0. T # {}
  BY <1>1
<1>2. PICK j \in T : \A i \in T : j <= i
  BY <1>0, LeastNumber
<1>3. j \in 0..m /\ j \in 0..n /\ f[j] # g[j]
  BY <1>1, <1>2
<1>4. Rule(c, f, j) /\ Rule(d, g, j)
  BY <1>3 DEF Table
<1>5. CASE j = 0
  BY <1>3, <1>4, <1>5 DEF Rule
<1>6. CASE j # 0
  <2>1. j - 1 \in Nat /\ j - 1 \in 0..m /\ j \in 1..m /\ j - 1 \notin T
    BY <1>2, <1>3, <1>6
  <2>2. /\ f[j - 1] = g[j - 1]
        /\ c[j].op = d[j].op /\ (c[j].op # "select" => c[j] = d[j])
    BY <1>1, <2>1
  <2> QED
    BY <1>3, <1>4, <1>6, <2>2 DEF Rule
<1> QED
  BY <1>5, <1>6

\* Handed reads the last entry of the table.
LEMMA HandedTable ==
    ASSUME NEW cmds, Len(cmds) \in Nat
    PROVE  \E f : Table(cmds, f, Len(cmds)) /\ Handed(cmds) = f[Len(cmds)]
<1>1. PICK n \in Nat : n = Len(cmds)
  OBVIOUS
<1>2. PICK f : Table(cmds, f, n)
  BY TableExists
<1>3. f = [i \in 0..n |-> IF i = 0 THEN <<>>
                          ELSE IF cmds[i].op = "select" THEN f[i - 1]
                          ELSE Append(f[i - 1], cmds[i])]
  BY <1>2 DEF Table, Rule
<1>4. PICK h : h = CHOOSE g : g = [i \in 0..n |-> IF i = 0 THEN <<>>
                                      ELSE IF cmds[i].op = "select" THEN g[i - 1]
                                      ELSE Append(g[i - 1], cmds[i])]
  OBVIOUS
<1>5. h = [i \in 0..n |-> IF i = 0 THEN <<>>
                          ELSE IF cmds[i].op = "select" THEN h[i - 1]
                          ELSE Append(h[i - 1], cmds[i])]
  BY <1>3, <1>4
<1>6. Table(cmds, h, n)
  BY <1>5 DEF Table, Rule
<1>7. Handed(cmds) = h[n]
  BY <1>1, <1>4 DEF Handed
<1> QED
  BY <1>1, <1>6, <1>7

\* Nothing is handed on of no commands.
LEMMA HandedEmpty == Handed(<<>>) = <<>>
<1>1. Len(<<>>) = 0
  OBVIOUS
<1>2. PICK f : Table(<<>>, f, 0) /\ Handed(<<>>) = f[0]
  BY <1>1, HandedTable
<1> QED
  BY <1>2 DEF Table, Rule

\* One more command is handed on unless it is a SELECT.
LEMMA HandedAppend ==
    ASSUME NEW S, NEW cmds \in Seq(S), NEW c \in S
    PROVE  Handed(Append(cmds, c)) = IF c.op = "select" THEN Handed(cmds) ELSE Append(Handed(cmds), c)
<1>1. PICK n \in Nat : n = Len(cmds)
  OBVIOUS
<1>0. Append(cmds, c) \in Seq(S)
  OBVIOUS
<1>2. PICK more \in Seq(S) : more = Append(cmds, c)
  BY <1>0
<1>3. Len(more) = n + 1 /\ more[n + 1] = c /\ \A i \in 1..n : cmds[i] = more[i]
  BY <1>1, <1>2
<1>4. PICK f : Table(cmds, f, n) /\ Handed(cmds) = f[n]
  BY <1>1, HandedTable
<1>5. PICK g : Table(more, g, n + 1) /\ Handed(more) = g[n + 1]
  BY <1>3, HandedTable
<1>6. f[n] = g[n]
  <2>1. \A i \in 0..n : f[i] = g[i]
    BY <1>3, <1>4, <1>5, TableUnique
  <2> QED
    BY <2>1
<1>7. g[n + 1] = IF c.op = "select" THEN g[n] ELSE Append(g[n], c)
  <2>0. n + 1 \in 0 .. n + 1 /\ n + 1 # 0 /\ (n + 1) - 1 = n
    OBVIOUS
  <2>1. Rule(more, g, n + 1)
    BY <1>5, <2>0 DEF Table
  <2> QED
    BY <1>3, <2>0, <2>1 DEF Rule
<1> QED
  BY <1>2, <1>4, <1>5, <1>6, <1>7

\* What is handed on are commands other than SELECT.
LEMMA TableType ==
    ASSUME NEW S, NEW cmds \in Seq(S), NEW f, Table(cmds, f, Len(cmds)),
           NEW k \in 0..Len(cmds)
    PROVE  f[k] \in Seq({c \in S : c.op # "select"})
<1>1. PICK n \in Nat : n = Len(cmds)
  OBVIOUS
<1>3. PICK K : K = {c \in S : c.op # "select"}
  OBVIOUS
<1> SUFFICES ASSUME f[k] \notin Seq(K) PROVE FALSE
  BY <1>3
<1>4. PICK T \in SUBSET Nat : \A i \in Nat : i \in T <=> i \in 0..n /\ f[i] \notin Seq(K)
  <2>1. {i \in Nat : i \in 0..n /\ f[i] \notin Seq(K)} \in SUBSET Nat
    OBVIOUS
  <2> QED
    BY <2>1, Zenon
<1>2. T # {}
  BY <1>1, <1>4
<1>5. PICK j \in T : \A i \in T : j <= i
  BY <1>2, LeastNumber
<1>6. j \in 0..n /\ f[j] \notin Seq(K) /\ Rule(cmds, f, j)
  BY <1>1, <1>4, <1>5 DEF Table
<1>7. j # 0
  BY <1>6 DEF Rule
<1>8. j - 1 \in Nat /\ j - 1 \notin T /\ j \in 1..n
  BY <1>5, <1>6, <1>7
<1>9. f[j - 1] \in Seq(K) /\ cmds[j] \in S
  BY <1>1, <1>4, <1>8
<1>10. cmds[j].op # "select" => cmds[j] \in K
  BY <1>3, <1>9
<1> QED
  BY <1>6, <1>7, <1>9, <1>10 DEF Rule

\* The same for Handed.
LEMMA HandedType ==
    ASSUME NEW S, NEW cmds \in Seq(S)
    PROVE  Handed(cmds) \in Seq({c \in S : c.op # "select"})
<1>1. PICK f : Table(cmds, f, Len(cmds)) /\ Handed(cmds) = f[Len(cmds)]
  BY HandedTable
<1> QED
  BY <1>1, TableType

\* Handed works chunk by chunk.
LEMMA HandedConcat ==
    ASSUME NEW S, NEW s \in Seq(S), NEW t \in Seq(S)
    PROVE  Handed(s \o t) = Handed(s) \o Handed(t)
<1>1. PICK m \in Nat, n \in Nat : m = Len(s) /\ n = Len(t)
  OBVIOUS
<1>0. s \o t \in Seq(S)
  OBVIOUS
<1>2. PICK st \in Seq(S) : st = s \o t
  BY <1>0
<1>3. Len(st) = m + n /\ (\A i \in 1..m : st[i] = s[i]) /\ (\A i \in 1..n : st[m + i] = t[i])
  BY <1>1, <1>2
<1>4. PICK f : Table(s, f, m) /\ Handed(s) = f[m]
  BY <1>1, HandedTable
<1>5. PICK g : Table(t, g, n) /\ Handed(t) = g[n]
  BY <1>1, HandedTable
<1>6. PICK h : Table(st, h, m + n) /\ Handed(st) = h[m + n]
  BY <1>3, HandedTable
<1>7. h[m] = f[m]
  <2>1. \A i \in 1..m : s[i] = st[i]
    BY <1>3
  <2>2. \A i \in 0..m : f[i] = h[i]
    BY <1>4, <1>6, <2>1, TableUnique
  <2> QED
    BY <2>2
<1> SUFFICES ASSUME h[m + n] # f[m] \o g[n] PROVE FALSE
  BY <1>2, <1>4, <1>5, <1>6
<1>8. PICK T \in SUBSET Nat : \A i \in Nat : i \in T <=> i \in 0..n /\ h[m + i] # f[m] \o g[i]
  <2>1. {i \in Nat : i \in 0..n /\ h[m + i] # f[m] \o g[i]} \in SUBSET Nat
    OBVIOUS
  <2> QED
    BY <2>1, Zenon
<1>16. n \in 0..n /\ T # {}
  <2>1. n \in 0..n
    OBVIOUS
  <2> QED
    BY <1>8, <2>1
<1>9. PICK j \in T : \A i \in T : j <= i
  BY <1>16, LeastNumber
<1>10. j \in 0..n /\ h[m + j] # f[m] \o g[j] /\ Rule(t, g, j)
  BY <1>5, <1>8, <1>9 DEF Table
<1>11. PICK K : f[m] \in Seq(K) /\ \A i \in 0..n : g[i] \in Seq(K)
  <2>1. /\ f[m] \in Seq({c \in S : c.op # "select"})
        /\ \A i \in 0..n : g[i] \in Seq({c \in S : c.op # "select"})
    <3>1. Table(s, f, Len(s)) /\ m \in 0..Len(s) /\ Table(t, g, Len(t))
      BY <1>1, <1>4, <1>5
    <3>2. f[m] \in Seq({c \in S : c.op # "select"})
      BY <3>1, TableType
    <3>3. ASSUME NEW i \in 0..Len(t) PROVE g[i] \in Seq({c \in S : c.op # "select"})
      BY <3>1, TableType
    <3> QED
      BY <1>1, <3>2, <3>3
  <2> QED
    BY <2>1
<1>12. j # 0
  <2>1. f[m] \o <<>> = f[m]
    BY <1>11, ConcatEmptySeq
  <2>2. j = 0 => g[j] = <<>> /\ m + j = m
    BY <1>10 DEF Rule
  <2> QED
    BY <1>7, <1>10, <2>1, <2>2
<1>13. j - 1 \in Nat /\ j - 1 \notin T /\ j \in 1..n /\ m + j \in 0 .. m + n /\ m + j # 0
  BY <1>9, <1>10, <1>12
<1>14. h[(m + j) - 1] = f[m] \o g[j - 1]
  <2>1. j - 1 \in 0..n /\ m + (j - 1) = (m + j) - 1
    BY <1>13
  <2>2. h[m + (j - 1)] = f[m] \o g[j - 1]
    BY <1>8, <1>13, <2>1
  <2> QED
    BY <2>1, <2>2
<1>15. Rule(st, h, m + j) /\ st[m + j] = t[j]
  BY <1>3, <1>6, <1>13 DEF Table
<1>17. j - 1 \in 0..n
  BY <1>13
<1>18. g[j - 1] \in Seq(K) /\ g[j] \in Seq(K)
  BY <1>10, <1>11, <1>17
<1>19. CASE t[j].op = "select"
  BY <1>10, <1>12, <1>13, <1>14, <1>15, <1>19 DEF Rule
<1>20. CASE t[j].op # "select"
  <2>1. /\ g[j] = Append(g[j - 1], t[j])
        /\ h[m + j] = Append(f[m] \o g[j - 1], t[j])
    BY <1>10, <1>12, <1>13, <1>14, <1>15, <1>20 DEF Rule
  <2>2. PICK K2 : K2 = K \cup {t[j]}
    OBVIOUS
  <2>3. f[m] \in Seq(K2) /\ g[j - 1] \in Seq(K2) /\ t[j] \in K2
    BY <1>11, <1>18, <2>2
  <2>4. Append(f[m] \o g[j - 1], t[j]) = f[m] \o Append(g[j - 1], t[j])
    <3>1. PICK a \in Seq(K2), b \in Seq(K2), x \in K2 : a = f[m] /\ b = g[j - 1] /\ x = t[j]
      BY <2>3
    <3>2. <<x>> \in Seq(K2) /\ a \o b \in Seq(K2)
      OBVIOUS
    <3>3. Append(a \o b, x) = (a \o b) \o <<x>> /\ Append(b, x) = b \o <<x>>
      BY <3>2, AppendIsConcat
    <3>5. PICK y \in Seq(K2) : y = <<x>>
      BY <3>2
    <3>6. (a \o b) \o y = a \o (b \o y)
      BY ConcatAssociative, SMTT(20)
    <3>4. (a \o b) \o <<x>> = a \o (b \o <<x>>)
      BY <3>5, <3>6
    <3> QED
      BY <3>1, <3>3, <3>4
  <2> QED
    BY <1>10, <2>1, <2>4
<1> QED
  BY <1>19, <1>20

\* What a command of the stream looks like to the parser.
Raw == [op : StreamOps, at : 0 .. 3 * MaxStream, part : 0 .. RdbEntries, db : Dbs]

\* Sequences that differ in SELECTs only hand on the same.
LEMMA HandedSame ==
    ASSUME NEW S, NEW c \in Seq(S), NEW d \in Seq(S), Len(c) = Len(d),
           \A i \in 1..Len(c) : c[i].op = d[i].op /\ (c[i].op # "select" => c[i] = d[i])
    PROVE  Handed(c) = Handed(d)
<1>1. PICK n \in Nat : n = Len(c) /\ n = Len(d)
  OBVIOUS
<1>2. PICK f : Table(c, f, n) /\ Handed(c) = f[n]
  BY <1>1, HandedTable
<1>3. PICK g : Table(d, g, n) /\ Handed(d) = g[n]
  BY <1>1, HandedTable
<1>4. \A i \in 1..n : c[i].op = d[i].op /\ (c[i].op # "select" => c[i] = d[i])
  BY <1>1
<1>5. \A i \in 0..n : f[i] = g[i]
  BY <1>2, <1>3, <1>4, TableUnique
<1>6. n \in 0..n
  OBVIOUS
<1> QED
  BY <1>2, <1>3, <1>5, <1>6

\* What is handed on of anything the parser can meet are commands.
LEMMA HandedCommands ==
    ASSUME NEW s \in Seq(Raw)
    PROVE  Handed(s) \in Seq(StreamCommands)
<1>1. PICK K : K = {c \in Raw : c.op # "select"}
  OBVIOUS
<1>2. Handed(s) \in Seq(K)
  BY <1>1, HandedType
<1>3. K \subseteq StreamCommands
  BY <1>1 DEF Raw, StreamCommands, StreamOps
<1> QED
  BY <1>2, <1>3, SeqMonotonic

\* A segment of a stream.
LEMMA SegmentFacts ==
    ASSUME NEW st \in Seq(Items), Len(st) <= MaxStream,
           NEW a \in Nat, NEW q \in Nat, a <= q, q <= Len(st)
    PROVE  /\ Segment(st, a, q) \in Seq(Raw)
           /\ Len(Segment(st, a, q)) = q - a
           /\ \A n \in 1 .. (q - a) : Segment(st, a, q)[n] =
                 [op |-> st[a + n].op, at |-> a + n, part |-> 0, db |-> st[a + n].db]
<1>1. q - a \in Nat /\ Len(st) \in Nat /\ MaxStream \in Nat /\ RdbEntries \in Nat
  BY ReplicationConstants
<1>2. ASSUME NEW n \in 1 .. (q - a)
      PROVE  [op |-> st[a + n].op, at |-> a + n, part |-> 0, db |-> st[a + n].db] \in Raw
  <2>1. a + n \in 1..Len(st) /\ a + n \in 0 .. 3 * MaxStream /\ 0 \in 0..RdbEntries
    BY <1>1
  <2>2. st[a + n] \in Items
    BY <2>1
  <2> QED
    BY <2>1, <2>2 DEF Items, Raw
<1>3. Segment(st, a, q) \in [1 .. (q - a) -> Raw]
  BY <1>2 DEF Segment
<1>4. PICK d \in Nat : d = q - a
  BY <1>1
<1>5. PICK x \in [1..d -> Raw] : x = Segment(st, a, q)
  BY <1>3, <1>4
<1>6. x \in Seq(Raw) /\ Len(x) = d
  OBVIOUS
<1>7. \A n \in 1 .. (q - a) : Segment(st, a, q)[n] =
         [op |-> st[a + n].op, at |-> a + n, part |-> 0, db |-> st[a + n].db]
  BY DEF Segment
<1> QED
  BY <1>4, <1>5, <1>6, <1>7

\* Nothing, and more, of a stream.
LEMMA HeldFacts ==
    ASSUME NEW st \in Seq(Items), Len(st) <= MaxStream,
           NEW a \in Nat, NEW q \in Nat, a <= q, q <= Len(st)
    PROVE  /\ Held(st, a, q) \in Seq(StreamCommands)
           /\ a = q => Held(st, a, q) = <<>>
<1>1. Segment(st, a, q) \in Seq(Raw) /\ Len(Segment(st, a, q)) = q - a
  BY SegmentFacts
<1>2. Held(st, a, q) \in Seq(StreamCommands)
  BY <1>1, HandedCommands DEF Held
<1>3. ASSUME a = q
      PROVE  Held(st, a, q) = <<>>
  <2>1. Segment(st, a, q) = <<>>
    BY <1>1, <1>3
  <2> QED
    BY <2>1, HandedEmpty DEF Held
<1> QED
  BY <1>2, <1>3

\* A stream is handed on chunk by chunk.
Splits(st, a, b, q) == Held(st, a, q) = Held(st, a, b) \o Held(st, b, q)

\* It always is.
LEMMA HeldConcat ==
    ASSUME NEW st \in Seq(Items), Len(st) <= MaxStream,
           NEW a \in Nat, NEW b \in Nat, NEW q \in Nat, a <= b, b <= q, q <= Len(st)
    PROVE  Splits(st, a, b, q)
<1>0. Len(st) \in Nat /\ b <= Len(st) /\ a <= q
  OBVIOUS
<1>1. PICK x \in Seq(Raw) : x = Segment(st, a, b) /\ Len(x) = b - a
  BY <1>0, SegmentFacts
<1>2. PICK y \in Seq(Raw) : y = Segment(st, b, q) /\ Len(y) = q - b
  BY <1>0, SegmentFacts
<1>3. PICK z \in Seq(Raw) : z = Segment(st, a, q) /\ Len(z) = q - a
  BY <1>0, SegmentFacts
<1>4. \A n \in 1 .. (q - a) : z[n] =
         [op |-> st[a + n].op, at |-> a + n, part |-> 0, db |-> st[a + n].db]
  BY <1>3 DEF Segment
<1>5. \A n \in 1 .. (b - a) : x[n] = z[n]
  BY <1>1, <1>4 DEF Segment
<1>6. ASSUME NEW n \in 1 .. (q - b)
      PROVE  y[n] = z[(b - a) + n]
  <2>1. (b - a) + n \in 1 .. (q - a) /\ a + ((b - a) + n) = b + n
    BY <1>0
  <2>2. y[n] = [op |-> st[b + n].op, at |-> b + n, part |-> 0, db |-> st[b + n].db]
    BY <1>2 DEF Segment
  <2> QED
    BY <1>4, <2>1, <2>2
<1>7. z = x \o y
  <2>1. x \o y \in Seq(Raw) /\ Len(x \o y) = q - a
    <3>1. x \o y \in Seq(Raw) /\ Len(x \o y) = Len(x) + Len(y)
      OBVIOUS
    <3> QED
      BY <1>0, <1>1, <1>2, <3>1
  <2>2. ASSUME NEW n \in 1 .. (q - a)
        PROVE  z[n] = (x \o y)[n]
    <3>1. CASE n <= b - a
      BY <1>1, <1>2, <1>5, <3>1
    <3>2. CASE ~(n <= b - a)
      <4>1. PICK k \in 1 .. (q - b) : n = (b - a) + k
        <5>1. n - (b - a) \in 1 .. (q - b) /\ n = (b - a) + (n - (b - a))
          BY <1>0, <3>2
        <5> QED
          BY <5>1
      <4>2. (x \o y)[n] = y[k]
        BY <1>1, <1>2, <4>1
      <4> QED
        BY <1>6, <4>1, <4>2
    <3> QED
      BY <3>1, <3>2
  <2> QED
    BY <1>3, <2>1, <2>2, SeqEqual
<1>8. Handed(x \o y) = Handed(x) \o Handed(y)
  BY HandedConcat
<1> QED
  BY <1>1, <1>2, <1>3, <1>7, <1>8 DEF Held, Splits

\* What was handed on does not depend on what the stream holds later.
LEMMA HeldStable ==
    ASSUME NEW st \in Seq(Items), NEW su \in Seq(Items),
           NEW a \in Nat, NEW q \in Nat, a <= q, q <= Len(st),
           \A i \in 1..Len(st) : su[i] = st[i]
    PROVE  Held(su, a, q) = Held(st, a, q)
<1>1. \A n \in 1 .. (q - a) : su[a + n] = st[a + n]
  BY SMTT(20)
<1>2. Segment(su, a, q) = Segment(st, a, q)
  BY <1>1 DEF Segment
<1> QED
  BY <1>2 DEF Held

\* One more command of the stream.
LEMMA HeldStep ==
    ASSUME NEW st \in Seq(Items), Len(st) <= MaxStream,
           NEW a \in Nat, NEW q \in Nat, a <= q, q + 1 <= Len(st)
    PROVE  \/ st[q + 1].op = "select" /\ Held(st, a, q + 1) = Held(st, a, q)
           \/ /\ st[q + 1].op # "select"
              /\ \E c \in StreamCommands : /\ c.op = st[q + 1].op
                                           /\ Held(st, a, q + 1) = Append(Held(st, a, q), c)
<1>0. Len(st) \in Nat /\ q + 1 \in Nat /\ q <= Len(st)
  OBVIOUS
<1>1. PICK x \in Seq(Raw) : x = Segment(st, a, q) /\ Len(x) = q - a
  BY <1>0, SegmentFacts
<1>2. PICK z \in Seq(Raw) : z = Segment(st, a, q + 1) /\ Len(z) = (q + 1) - a
  <2>1. PICK r \in Nat : r = q + 1 /\ a <= r /\ r <= Len(st)
    BY <1>0
  <2>2. Segment(st, a, r) \in Seq(Raw) /\ Len(Segment(st, a, r)) = r - a
    BY <2>1, SegmentFacts
  <2> QED
    BY <2>1, <2>2
<1>3. PICK n \in 1..Len(z) : n = Len(x) + 1 /\ n = Len(z)
  BY <1>1, <1>2
<1>4. a + n = q + 1
  BY <1>1, <1>3
<1>5. PICK c \in Raw : c = z[n] /\ c.op = st[q + 1].op
  <2>1. z[n] \in Raw /\ n \in 1 .. ((q + 1) - a)
    BY <1>2, <1>3
  <2>2. z[n].op = st[a + n].op
    BY <1>2, <2>1 DEF Segment
  <2> QED
    BY <1>4, <2>1, <2>2
<1>6. z = Append(x, c)
  <2>1. Append(x, c) \in Seq(Raw) /\ Len(Append(x, c)) = Len(z) /\ Append(x, c)[n] = c
    BY <1>1, <1>3
  <2>2. \A i \in 1..Len(x) : x[i] = z[i]
    BY <1>1, <1>2 DEF Segment
  <2>3. \A i \in 1..Len(z) : z[i] = Append(x, c)[i]
    BY <1>3, <1>5, <2>1, <2>2
  <2> QED
    BY <2>1, <2>3, SeqEqual
<1>7. Handed(z) = IF c.op = "select" THEN Handed(x) ELSE Append(Handed(x), c)
  BY <1>6, HandedAppend
<1>8. c.op # "select" => c \in StreamCommands
  BY DEF Raw, StreamCommands, StreamOps
<1> QED
  BY <1>1, <1>2, <1>5, <1>7, <1>8 DEF Held

----------------------------------------------------------------------------
(* The database of a command *)

\* DbOf: of the last SELECT among f .. i-1, or else the parser's database.
Selects(st, f, i) == {j \in f .. (i - 1) : st[j].op = "select"}
DbIn(st, cdb, T) == IF T = {} THEN cdb ELSE st[CHOOSE j \in T : \A k \in T : k <= j].db
LastDb(st, cdb, f, i) == DbIn(st, cdb, Selects(st, f, i))

\* A set of numbers with a bound has a largest one.
LEMMA LargestNumber ==
    ASSUME NEW m \in Nat, NEW T \in SUBSET (0..m), T # {}
    PROVE  \E j \in T : \A k \in T : k <= j
<1>1. PICK U \in SUBSET Nat : \A i \in Nat : i \in U <=> i <= m /\ m - i \in T
  <2>1. {i \in Nat : i <= m /\ m - i \in T} \in SUBSET Nat
    OBVIOUS
  <2> QED
    BY <2>1, Zenon
<1>2. \A k \in T : m - k \in U
  <2> SUFFICES ASSUME NEW k \in T PROVE m - k \in U
    OBVIOUS
  <2>1. k \in Nat /\ m - k \in Nat /\ m - (m - k) = k /\ m - k <= m
    OBVIOUS
  <2> QED
    BY <1>1, <2>1
<1>3. U # {}
  BY <1>2
<1>4. PICK i \in U : \A l \in U : i <= l
  BY <1>3, LeastNumber
<1>5. m - i \in T
  BY <1>1, <1>4
<1>6. \A k \in T : k <= m - i
  BY <1>2, <1>4
<1> QED
  BY <1>5, <1>6

\* DbOf is a database.
LEMMA LastDbType ==
    ASSUME NEW st \in Seq(Items), NEW cdb \in Dbs, NEW f \in Nat, 1 <= f,
           NEW i \in Nat, i <= Len(st) + 1
    PROVE  LastDb(st, cdb, f, i) \in Dbs
<1>1. PICK T : T = Selects(st, f, i)
  OBVIOUS
<1>2. T \in SUBSET (0..Len(st)) /\ \A j \in T : j \in 1..Len(st) /\ Len(st) \in Nat
  BY <1>1 DEF Selects
<1>3. CASE T = {}
  BY <1>1, <1>3 DEF LastDb, DbIn
<1>4. CASE T # {}
  <2>1. \E j \in T : \A k \in T : k <= j
    BY <1>2, <1>4, LargestNumber
  <2>2. PICK j \in T : LastDb(st, cdb, f, i) = st[j].db
    BY <1>1, <1>4, <2>1 DEF LastDb, DbIn
  <2>3. st[j] \in Items
    BY <1>2
  <2> QED
    BY <2>2, <2>3 DEF Items
<1> QED
  BY <1>3, <1>4

\* DbOf follows the commands one by one.
LEMMA LastDbStep ==
    ASSUME NEW st \in Seq(Items), NEW cdb, NEW f \in Nat, 1 <= f,
           NEW i \in Nat, f <= i, i <= Len(st)
    PROVE  LastDb(st, cdb, f, i + 1) = IF st[i].op = "select" THEN st[i].db ELSE LastDb(st, cdb, f, i)
<1>1. (i + 1) - 1 = i /\ Len(st) \in Nat
  OBVIOUS
<1>2. CASE st[i].op = "select"
  <2>1. PICK T : T = Selects(st, f, i + 1)
    OBVIOUS
  <2>2. i \in T /\ \A k \in T : k <= i /\ k \in Nat
    BY <1>1, <1>2, <2>1 DEF Selects
  <2>3. PICK j : j = CHOOSE m \in T : \A k \in T : k <= m
    OBVIOUS
  <2>4. j \in T /\ \A k \in T : k <= j
    BY <2>2, <2>3
  <2>5. j = i
    BY <2>2, <2>4
  <2>6. DbIn(st, cdb, T) = st[j].db
    BY <2>2, <2>3 DEF DbIn
  <2> QED
    BY <1>2, <2>1, <2>5, <2>6 DEF LastDb
<1>3. CASE st[i].op # "select"
  <2>1. Selects(st, f, i + 1) = Selects(st, f, i)
    BY <1>1, <1>3 DEF Selects
  <2>2. LastDb(st, cdb, f, i + 1) = LastDb(st, cdb, f, i)
    BY <2>1 DEF LastDb
  <2> QED
    BY <1>3, <2>2
<1> QED
  BY <1>2, <1>3

\* When every command but a SELECT is in the database of the one before it, the
\* parser hands every command on in the database it was executed in.
LEMMA LastDbFollows ==
    ASSUME NEW st \in Seq(Items), NEW cdb, NEW f \in Nat, 1 <= f,
           NEW q \in Nat, f <= q + 1, q <= Len(st),
           \A i \in f..q : st[i].op # "select" =>
              /\ i = f => st[i].db = cdb
              /\ i # f => st[i].db = st[i - 1].db
    PROVE  \A i \in f .. (q + 1) : LastDb(st, cdb, f, i) = IF i = f THEN cdb ELSE st[i - 1].db
<1> SUFFICES ASSUME NEW w \in f .. (q + 1),
                    LastDb(st, cdb, f, w) # IF w = f THEN cdb ELSE st[w - 1].db
             PROVE  FALSE
  OBVIOUS
<1>1. PICK T \in SUBSET Nat : \A i \in Nat : i \in T <=>
         i \in f .. (q + 1) /\ LastDb(st, cdb, f, i) # IF i = f THEN cdb ELSE st[i - 1].db
  <2>1. {i \in Nat : i \in f .. (q + 1) /\ LastDb(st, cdb, f, i) # IF i = f THEN cdb ELSE st[i - 1].db}
           \in SUBSET Nat
    OBVIOUS
  <2> QED
    BY <2>1, Zenon
<1>2. T # {}
  BY <1>1
<1>3. PICK j \in T : \A i \in T : j <= i
  BY <1>2, LeastNumber
<1>4. j \in f .. (q + 1) /\ LastDb(st, cdb, f, j) # IF j = f THEN cdb ELSE st[j - 1].db
  BY <1>1, <1>3
<1>5. CASE j = f
  <2>1. Selects(st, f, f) = {}
    BY DEF Selects
  <2> QED
    BY <1>4, <1>5, <2>1 DEF LastDb, DbIn
<1>6. CASE j # f
  <2>1. PICK i \in Nat : j = i + 1
    <3>1. j - 1 \in Nat /\ j = (j - 1) + 1
      BY <1>4
    <3> QED
      BY <3>1
  <2>2. f <= i /\ i <= q /\ i \in f..q /\ i \in f .. (q + 1) /\ i \notin T /\ i <= Len(st)
    BY <1>3, <1>4, <1>6, <2>1
  <2>3. LastDb(st, cdb, f, i) = IF i = f THEN cdb ELSE st[i - 1].db
    BY <1>1, <2>2
  <2>4. LastDb(st, cdb, f, i + 1) = IF st[i].op = "select" THEN st[i].db ELSE LastDb(st, cdb, f, i)
    BY <2>2, LastDbStep
  <2>5. LastDb(st, cdb, f, j) # st[i].db
    BY <1>4, <1>6, <2>1
  <2> QED
    BY <2>1, <2>2, <2>3, <2>4, <2>5
<1> QED
  BY <1>5, <1>6

----------------------------------------------------------------------------
(* Transactions *)

\* A transaction is a start, a write and an end, one after the other.
TxShaped(h) ==
    \A m \in 1..Len(h) : h[m].op = "tx_start" =>
       /\ m + 1 <= Len(h) => h[m + 1].op = "write"
       /\ m + 2 <= Len(h) => h[m + 2].op = "tx_end"

\* In the stream of the master none is open.
TxWhole(st, q) ==
    \A i \in 1..q : st[i].op = "tx_start" =>
       i + 2 <= q /\ st[i + 1].op = "write" /\ st[i + 2].op = "tx_end"

\* Every transaction of a history is complete.
TxClosed(h) ==
    \A i \in 1..Len(h) : h[i].op = "tx_start" => \E j \in i + 1 .. Len(h) : h[j].op = "tx_end"

\* What was handed on ends inside a transaction where the stream does.
Follows(st, a, q, h) ==
    /\ TxShaped(h)
    /\ (q > a /\ st[q].op = "tx_start") <=> (Len(h) >= 1 /\ h[Len(h)].op = "tx_start")
    /\ (q > a + 1 /\ st[q - 1].op = "tx_start") <=> (Len(h) >= 2 /\ h[Len(h) - 1].op = "tx_start")

\* Another command of the stream.
LEMMA FollowsStep ==
    ASSUME NEW st \in Seq(Items), Len(st) <= MaxStream, TxWhole(st, Len(st)),
           NEW a \in Nat, NEW q \in Nat, a <= q, q + 1 <= Len(st),
           Follows(st, a, q, Held(st, a, q))
    PROVE  Follows(st, a, q + 1, Held(st, a, q + 1))
<1>0. q \in 0..Len(st) /\ q <= Len(st) /\ Len(st) \in Nat /\ (q + 1) - 1 = q
  OBVIOUS
<1>1. PICK h \in Seq(StreamCommands) : h = Held(st, a, q)
  BY <1>0, HeldFacts
<1>2. (q > a /\ st[q].op = "tx_start") => st[q + 1].op = "write"
  <2>1. q > a => q \in 1..Len(st)
    BY <1>0
  <2> QED
    BY <2>1 DEF TxWhole
<1>3. (q > a + 1 /\ st[q - 1].op = "tx_start") => st[q + 1].op = "tx_end"
  <2>1. q > a + 1 => q - 1 \in 1..Len(st) /\ (q - 1) + 2 = q + 1
    BY <1>0
  <2> QED
    BY <2>1 DEF TxWhole
<1>4. CASE st[q + 1].op = "select" /\ Held(st, a, q + 1) = h
  <2>1. ~(q > a /\ st[q].op = "tx_start") /\ ~(q > a + 1 /\ st[q - 1].op = "tx_start")
    BY <1>2, <1>3, <1>4
  <2>2. TxShaped(h) /\ ~(Len(h) >= 1 /\ h[Len(h)].op = "tx_start")
        /\ ~(Len(h) >= 2 /\ h[Len(h) - 1].op = "tx_start")
    BY <1>1, <2>1 DEF Follows
  <2> QED
    BY <1>0, <1>4, <2>1, <2>2 DEF Follows
<1>5. ASSUME NEW c \in StreamCommands, c.op = st[q + 1].op, Held(st, a, q + 1) = Append(h, c)
      PROVE  Follows(st, a, q + 1, Held(st, a, q + 1))
  <2>1. PICK g \in Seq(StreamCommands) : g = Append(h, c)
    <3>1. Append(h, c) \in Seq(StreamCommands)
      OBVIOUS
    <3> QED
      BY <3>1
  <2>2. /\ Len(h) \in Nat /\ Len(g) = Len(h) + 1 /\ g[Len(h) + 1] = c
        /\ \A m \in 1..Len(h) : g[m] = h[m]
    BY <2>1
  <2>3. TxShaped(g)
    <3> SUFFICES ASSUME NEW m \in 1..Len(g), g[m].op = "tx_start"
                 PROVE  /\ m + 1 <= Len(g) => g[m + 1].op = "write"
                        /\ m + 2 <= Len(g) => g[m + 2].op = "tx_end"
      BY DEF TxShaped
    <3>1. CASE m + 2 <= Len(h)
      <4>1. /\ m \in 1..Len(h) /\ m + 1 \in 1..Len(h) /\ m + 2 \in 1..Len(h)
            /\ m + 1 <= Len(h)
        BY <2>2, <3>1
      <4>2. h[m].op = "tx_start" /\ g[m + 1] = h[m + 1] /\ g[m + 2] = h[m + 2]
        BY <2>2, <4>1
      <4>3. h[m + 1].op = "write" /\ h[m + 2].op = "tx_end"
        BY <1>1, <3>1, <4>1, <4>2 DEF Follows, TxShaped
      <4> QED
        BY <4>2, <4>3
    <3>2. CASE m = Len(h) - 1
      <4>1. /\ m \in 1..Len(h) /\ m + 1 \in 1..Len(h) /\ m + 1 <= Len(h) /\ Len(h) >= 2
            /\ m + 2 = Len(h) + 1
        BY <2>2, <3>2
      <4>2. h[m].op = "tx_start" /\ g[m + 1] = h[m + 1] /\ g[m + 2] = c
        BY <2>2, <4>1
      <4>3. h[m + 1].op = "write"
        BY <1>1, <4>1, <4>2 DEF Follows, TxShaped
      <4>4. c.op = "tx_end"
        BY <1>1, <1>3, <1>5, <3>2, <4>1, <4>2 DEF Follows
      <4> QED
        BY <4>2, <4>3, <4>4
    <3>3. CASE m = Len(h)
      <4>1. m \in 1..Len(h) /\ Len(h) >= 1 /\ m + 1 = Len(h) + 1 /\ ~(m + 2 <= Len(g))
        BY <2>2, <3>3
      <4>2. h[m].op = "tx_start" /\ g[m + 1] = c
        BY <2>2, <4>1
      <4>3. c.op = "write"
        BY <1>1, <1>2, <1>5, <3>3, <4>1, <4>2 DEF Follows
      <4> QED
        BY <4>1, <4>2, <4>3
    <3>4. CASE m = Len(h) + 1
      BY <2>2, <3>4
    <3> QED
      BY <2>2, <3>1, <3>2, <3>3, <3>4
  <2>4. (q + 1 > a /\ st[q + 1].op = "tx_start") <=> (Len(g) >= 1 /\ g[Len(g)].op = "tx_start")
    BY <1>5, <2>2
  <2>5. (q + 1 > a + 1 /\ st[(q + 1) - 1].op = "tx_start") <=>
           (Len(g) >= 2 /\ g[Len(g) - 1].op = "tx_start")
    <3>1. (q > a /\ st[q].op = "tx_start") <=> (Len(h) >= 1 /\ h[Len(h)].op = "tx_start")
      BY <1>1 DEF Follows
    <3>2. Len(g) - 1 = Len(h) /\ (Len(h) >= 1 => g[Len(h)] = h[Len(h)])
      BY <2>2
    <3> QED
      BY <1>0, <2>2, <3>1, <3>2
  <2> QED
    BY <1>5, <2>1, <2>3, <2>4, <2>5 DEF Follows
<1> QED
  BY <1>1, <1>4, <1>5, HeldStep

\* A part of the stream hands on shaped transactions.
LEMMA HeldShaped ==
    ASSUME NEW st \in Seq(Items), Len(st) <= MaxStream, TxWhole(st, Len(st)),
           NEW a \in Nat, NEW q \in Nat, a <= q, q <= Len(st)
    PROVE  TxShaped(Held(st, a, q))
<1> SUFFICES ASSUME ~TxShaped(Held(st, a, q)) PROVE FALSE
  OBVIOUS
<1>1. PICK T \in SUBSET Nat : \A i \in Nat : i \in T <=>
         a <= i /\ i <= q /\ ~Follows(st, a, i, Held(st, a, i))
  <2>1. {i \in Nat : a <= i /\ i <= q /\ ~Follows(st, a, i, Held(st, a, i))} \in SUBSET Nat
    OBVIOUS
  <2> QED
    BY <2>1, Zenon
<1>2. T # {}
  <2>1. ~Follows(st, a, q, Held(st, a, q))
    BY DEF Follows
  <2> QED
    BY <1>1, <2>1
<1>3. PICK j \in T : \A i \in T : j <= i
  BY <1>2, LeastNumber
<1>4. a <= j /\ j <= q /\ ~Follows(st, a, j, Held(st, a, j))
  BY <1>1, <1>3
<1>5. CASE j = a
  <2>1. a <= Len(st)
    OBVIOUS
  <2>2. Held(st, a, a) = <<>>
    BY <2>1, HeldFacts
  <2>3. Len(<<>>) = 0 /\ TxShaped(<<>>)
    BY DEF TxShaped
  <2>4. Follows(st, a, a, <<>>)
    BY <2>3 DEF Follows
  <2> QED
    BY <1>4, <1>5, <2>2, <2>4
<1>6. CASE j # a
  <2>1. PICK i \in Nat : j = i + 1
    <3>1. j - 1 \in Nat /\ j = (j - 1) + 1
      BY <1>4, <1>6
    <3> QED
      BY <3>1
  <2>2. a <= i /\ i <= q /\ i + 1 <= Len(st) /\ i \notin T
    BY <1>3, <1>4, <1>6, <2>1
  <2>3. Follows(st, a, i, Held(st, a, i))
    BY <1>1, <2>2
  <2> QED
    BY <1>4, <2>1, <2>2, <2>3, FollowsStep
<1> QED
  BY <1>5, <1>6

----------------------------------------------------------------------------
(* Histories *)

\* The entries of a snapshot are writes.
LEMMA LoadedFacts ==
    ASSUME NEW o \in 0 .. 3 * MaxStream, NEW k \in 0..RdbEntries
    PROVE  /\ Loaded(o, k) \in Seq(StreamCommands)
           /\ Len(Loaded(o, k)) = k
           /\ \A j \in 1..k : Loaded(o, k)[j] = Entry(o, j) /\ Loaded(o, k)[j].op = "write"
<1>1. k \in Nat /\ RdbEntries \in Nat /\ MaxStream \in Nat /\ 0 \in Dbs
  BY ReplicationConstants
<1>2. \A j \in 1..k : Entry(o, j) \in StreamCommands
  BY <1>1 DEF Entry, StreamCommands
<1>3. PICK x \in [1..k -> StreamCommands] : x = Loaded(o, k)
  BY <1>2 DEF Loaded
<1>4. x \in Seq(StreamCommands) /\ Len(x) = k
  BY <1>1
<1>5. \A j \in 1..k : x[j] = Entry(o, j) /\ x[j].op = "write"
  BY <1>3 DEF Loaded, Entry
<1> QED
  BY <1>3, <1>4, <1>5

\* A snapshot is handed on unit by unit.
LEMMA LoadedMore ==
    ASSUME NEW o \in 0 .. 3 * MaxStream, NEW j \in Nat, NEW k \in Nat, j + k <= RdbEntries
    PROVE  /\ [n \in 1..k |-> Entry(o, j + n)] \in Seq(StreamCommands)
           /\ Loaded(o, j + k) = Loaded(o, j) \o [n \in 1..k |-> Entry(o, j + n)]
<1>1. RdbEntries \in Nat /\ MaxStream \in Nat /\ 0 \in Dbs
  BY ReplicationConstants
<1>2. j \in 0..RdbEntries /\ j + k \in 0..RdbEntries /\ j + k \in Nat
  BY <1>1
<1>3. \A n \in 1..k : Entry(o, j + n) \in StreamCommands
  BY <1>1 DEF Entry, StreamCommands
<1>4. PICK y \in [1..k -> StreamCommands] : y = [n \in 1..k |-> Entry(o, j + n)]
  BY <1>3
<1>5. y \in Seq(StreamCommands) /\ Len(y) = k
  OBVIOUS
<1>6. PICK x \in Seq(StreamCommands) : x = Loaded(o, j) /\ Len(x) = j /\ \A n \in 1..j : x[n] = Entry(o, n)
  BY <1>2, LoadedFacts
<1>7. PICK z \in Seq(StreamCommands) : z = Loaded(o, j + k) /\ Len(z) = j + k
                                       /\ \A n \in 1 .. (j + k) : z[n] = Entry(o, n)
  <2>1. PICK l \in 0..RdbEntries : l = j + k
    BY <1>2
  <2>2. PICK z \in Seq(StreamCommands) : z = Loaded(o, l) /\ Len(z) = l /\ \A n \in 1..l : z[n] = Entry(o, n)
    BY LoadedFacts
  <2> QED
    BY <2>1, <2>2
<1>8. x \o y \in Seq(StreamCommands) /\ Len(x \o y) = Len(x) + Len(y)
  BY <1>5
<1>9. ASSUME NEW n \in 1 .. (j + k)
      PROVE  z[n] = (x \o y)[n]
  <2>1. CASE n <= j
    BY <1>5, <1>6, <1>7, <2>1
  <2>2. CASE ~(n <= j)
    <3>1. PICK i \in 1..k : n = j + i
      <4>1. n - j \in 1..k /\ n = j + (n - j)
        BY <2>2
      <4> QED
        BY <4>1
    <3>2. (x \o y)[n] = y[i]
      <4>1. \A l \in 1..Len(y) : (x \o y)[Len(x) + l] = y[l]
        BY <1>5
      <4> QED
        BY <1>5, <1>6, <3>1, <4>1
    <3> QED
      BY <1>4, <1>7, <3>1, <3>2
  <2> QED
    BY <2>1, <2>2
<1>10. z = x \o y
  <2>1. Len(z) = Len(x \o y) /\ \A n \in 1..Len(z) : z[n] = (x \o y)[n]
    BY <1>5, <1>6, <1>7, <1>8, <1>9
  <2> QED
    BY <1>8, <2>1, SeqEqual
<1> QED
  BY <1>4, <1>5, <1>6, <1>7, <1>10

\* Writes in front change no transaction.
LEMMA ConcatShaped ==
    ASSUME NEW s \in Seq(StreamCommands), NEW h \in Seq(StreamCommands),
           \A i \in 1..Len(s) : s[i].op = "write", TxShaped(h)
    PROVE  TxShaped(s \o h)
<1>1. PICK g \in Seq(StreamCommands) : g = s \o h
  <2>1. s \o h \in Seq(StreamCommands)
    OBVIOUS
  <2> QED
    BY <2>1
<1>2. PICK a \in Nat, b \in Nat : a = Len(s) /\ b = Len(h)
  OBVIOUS
<1>3. /\ Len(g) = a + b
      /\ \A i \in 1..a : g[i] = s[i]
      /\ \A i \in 1..b : g[a + i] = h[i]
  BY <1>1, <1>2
<1> SUFFICES ASSUME NEW m \in 1..Len(g), g[m].op = "tx_start"
             PROVE  /\ m + 1 <= Len(g) => g[m + 1].op = "write"
                    /\ m + 2 <= Len(g) => g[m + 2].op = "tx_end"
  BY <1>1 DEF TxShaped
<1>4. ~(m <= a)
  BY <1>2, <1>3
<1>5. PICK i \in 1..b : m = a + i
  <2>1. m - a \in 1..b /\ m = a + (m - a)
    BY <1>3, <1>4
  <2> QED
    BY <2>1
<1>6. h[i].op = "tx_start"
  BY <1>3, <1>5
<1>7. /\ i + 1 <= b => h[i + 1].op = "write"
      /\ i + 2 <= b => h[i + 2].op = "tx_end"
  BY <1>2, <1>6 DEF TxShaped
<1>8. m + 1 <= Len(g) => i + 1 \in 1..b /\ m + 1 = a + (i + 1)
  BY <1>3, <1>5
<1>9. m + 2 <= Len(g) => i + 2 \in 1..b /\ m + 2 = a + (i + 2)
  BY <1>3, <1>5
<1>10. m + 1 <= Len(g) => g[m + 1] = h[i + 1]
  BY <1>3, <1>8
<1>11. m + 2 <= Len(g) => g[m + 2] = h[i + 2]
  BY <1>3, <1>9
<1> QED
  BY <1>7, <1>8, <1>9, <1>10, <1>11

\* A beginning stays one when more follows.
LEMMA PrefixFacts ==
    ASSUME NEW S, NEW s \in Seq(S), NEW t \in Seq(S), NEW r \in Seq(S)
    PROVE  /\ IsPrefixOf(s, s \o r)
           /\ IsPrefixOf(s, t) => IsPrefixOf(s, t \o r)
<1>1. Len(s) \in Nat /\ Len(t) \in Nat /\ Len(r) \in Nat
  OBVIOUS
<1>2. ASSUME NEW w \in Seq(S), Len(s) <= Len(w), \A i \in 1..Len(s) : w[i] = s[i]
      PROVE  IsPrefixOf(s, w)
  <2>1. SubSeq(w, 1, Len(s)) \in Seq(S) /\ Len(SubSeq(w, 1, Len(s))) = Len(s)
    BY <1>1, <1>2
  <2>2. \A i \in 1..Len(s) : SubSeq(w, 1, Len(s))[i] = s[i]
    BY <1>1, <1>2
  <2>3. s = SubSeq(w, 1, Len(s))
    BY <2>1, <2>2, SeqEqual
  <2> QED
    BY <1>2, <2>3 DEF IsPrefixOf
<1>3. IsPrefixOf(s, s \o r)
  <2>1. PICK w \in Seq(S) : w = s \o r
    <3>1. s \o r \in Seq(S)
      OBVIOUS
    <3> QED
      BY <3>1
  <2>2. Len(s) <= Len(w) /\ \A i \in 1..Len(s) : w[i] = s[i]
    BY <1>1, <2>1
  <2> QED
    BY <1>2, <2>1, <2>2
<1>4. ASSUME IsPrefixOf(s, t)
      PROVE  IsPrefixOf(s, t \o r)
  <2>1. PICK w \in Seq(S) : w = t \o r
    <3>1. t \o r \in Seq(S)
      OBVIOUS
    <3> QED
      BY <3>1
  <2>2. Len(s) <= Len(t) /\ \A i \in 1..Len(s) : t[i] = s[i]
    BY <1>1, <1>4 DEF IsPrefixOf
  <2>3. Len(s) <= Len(w) /\ \A i \in 1..Len(s) : w[i] = s[i]
    BY <1>1, <2>1, <2>2
  <2> QED
    BY <1>2, <2>1, <2>3
<1> QED
  BY <1>3, <1>4

Associates(x, y, z) == (x \o y) \o z = x \o (y \o z)

\* Concatenation is associative.
LEMMA Associative ==
    ASSUME NEW C, NEW x \in Seq(C), NEW y \in Seq(C), NEW z \in Seq(C)
    PROVE  Associates(x, y, z)
  BY ConcatAssociative DEF Associates

Regroups(s, b, q) ==
    /\ ((s \o b) \o <<Head(q)>>) \o Tail(q) = (s \o b) \o q
    /\ ((s \o Append(b, Head(q))) \o <<>>) \o Tail(q) = (s \o b) \o q
    /\ (s \o Append(b, Head(q))) \o Tail(q) = (s \o b) \o q

\* process_single_command moves commands from the batch to the buffer and from
\* there to the storage, and keeps their order.
LEMMA Regroup ==
    ASSUME NEW S, NEW s \in Seq(S), NEW b \in Seq(S), NEW q \in Seq(S), q # <<>>
    PROVE  Regroups(s, b, q)
<1>0. ASSUME NEW v \in Seq(S)
      PROVE  (s \o b) \o v = s \o (b \o v)
  <2>1. Associates(s, b, v)
    BY Associative
  <2> QED
    BY <2>1 DEF Associates
<1>1. PICK x \in S, u \in Seq(S) : x = Head(q) /\ u = Tail(q)
  <2>1. Head(q) \in S /\ Tail(q) \in Seq(S)
    OBVIOUS
  <2> QED
    BY <2>1
<1>2. PICK y \in Seq(S) : y = <<x>> /\ Len(y) = 1 /\ y[1] = x
  <2>1. <<x>> \in Seq(S) /\ Len(<<x>>) = 1 /\ <<x>>[1] = x
    OBVIOUS
  <2> QED
    BY <2>1
<1>3. q = y \o u
  <2>1. y \o u \in Seq(S) /\ Len(y \o u) = Len(q)
    BY <1>1, <1>2
  <2>2. \A i \in 1..Len(q) : q[i] = (y \o u)[i]
    BY <1>1, <1>2
  <2> QED
    BY <2>1, <2>2, SeqEqual
<1>4. Append(b, x) = b \o y
  BY <1>2, AppendIsConcat
<1>5. PICK sb \in Seq(S) : sb = s \o b
  <2>1. s \o b \in Seq(S)
    OBVIOUS
  <2> QED
    BY <2>1
<1>6. (sb \o y) \o u = sb \o (y \o u)
  BY ConcatAssociative, SMTT(20)
<1>7. s \o (b \o y) = sb \o y
  BY <1>0, <1>5
<1>8. PICK sby \in Seq(S) : sby = sb \o y
  <2>1. sb \o y \in Seq(S)
    OBVIOUS
  <2> QED
    BY <2>1
<1>9. sby \o <<>> = sby
  BY ConcatEmptySeq
<1> QED
  BY <1>1, <1>2, <1>3, <1>4, <1>5, <1>6, <1>7, <1>8, <1>9 DEF Regroups

\* A storage that gets what holds no transaction start, or what ends one,
\* keeps its transactions complete.
LEMMA ClosedConcat ==
    ASSUME NEW S, NEW s \in Seq(S), NEW b \in Seq(S), TxClosed(s),
           \/ \A k \in 1..Len(b) : b[k].op # "tx_start"
           \/ Len(b) > 0 /\ b[Len(b)].op = "tx_end"
    PROVE  TxClosed(s \o b)
<1>1. PICK m \in Nat, n \in Nat : m = Len(s) /\ n = Len(b)
  OBVIOUS
<1>2. PICK w \in Seq(S) : w = s \o b
  <2>1. s \o b \in Seq(S)
    OBVIOUS
  <2> QED
    BY <2>1
<1>3. Len(w) = m + n /\ (\A i \in 1..m : w[i] = s[i]) /\ (\A i \in 1..n : w[m + i] = b[i])
  BY <1>1, <1>2
<1> SUFFICES ASSUME NEW i \in 1..Len(w), w[i].op = "tx_start"
             PROVE  \E j \in i + 1 .. Len(w) : w[j].op = "tx_end"
  BY <1>2 DEF TxClosed
<1>4. CASE i <= m
  <2>1. i \in 1..Len(s) /\ s[i].op = "tx_start"
    BY <1>1, <1>3, <1>4
  <2>2. PICK j \in i + 1 .. Len(s) : s[j].op = "tx_end"
    BY <2>1 DEF TxClosed
  <2>3. j \in i + 1 .. Len(w) /\ w[j] = s[j]
    BY <1>1, <1>3, <2>2
  <2> QED
    BY <2>2, <2>3
<1>5. CASE ~(i <= m)
  <2>1. PICK k \in 1..n : i = m + k
    <3>1. i - m \in 1..n /\ i = m + (i - m)
      BY <1>3, <1>5
    <3> QED
      BY <3>1
  <2>2. b[k].op = "tx_start"
    BY <1>3, <2>1
  <2>3. b[n].op = "tx_end" /\ n \in 1..n
    BY <1>1, <2>1, <2>2
  <2>4. w[m + n] = b[n] /\ k # n
    BY <1>3, <2>2, <2>3
  <2>5. m + n \in i + 1 .. Len(w)
    BY <1>3, <2>1, <2>4
  <2> QED
    BY <2>3, <2>4, <2>5
<1> QED
  BY <1>4, <1>5

----------------------------------------------------------------------------
(* The inductive invariant *)

\* Commands the snapshot stands for, and commands the parser has consumed.
Before == base \div 3
Consumed == unparsed \div 3

\* The stream from the snapshot at a on: no transaction is open, and every
\* command but a SELECT is in the database of the command before it.
Chained(st, a, sel) ==
    /\ a <= Len(st)
    /\ sel = IF Len(st) = a THEN NoDb ELSE st[Len(st)].db
    /\ \A i \in a + 1 .. Len(st) : st[i].op # "select" => i > a + 1 /\ st[i].db = st[i - 1].db

StreamOK ==
    /\ Len(stream) <= MaxStream
    /\ TxWhole(stream, Len(stream))
    /\ replication_id => Chained(stream, Before, selected_db)

\* Link, parser and offsets.
LinkOK ==
    /\ base % 3 = 0 /\ base <= MasterOffset
    /\ unparsed <= MasterOffset + 1
    /\ connected => /\ replication_id
                    /\ next <= MasterOffset + 1
                    /\ 1 <= unparsed /\ unparsed <= next
                    /\ parser_state = IF rdb_left > 0 THEN "rdb" ELSE "streaming"
    /\ connected /\ rdb_left > 0 => next = base + 1 /\ new_ts_storage # Nil
    /\ rdb_left > 0 => unparsed = base + 1
    /\ replication_id /\ new_ts_storage = Nil => rdb_left = 0
    /\ ~connected => saved_replication_offset = replication_offset
    /\ saved_replication_id => replication_id

\* Before the first FULLRESYNC there is nothing.
Unsynced ==
    ~replication_id =>
       /\ ~handle.ready /\ new_ts_storage = Nil /\ pc = "idle"
       /\ \A s \in Storages : storages[s] = <<>>

\* The buffer of an open transaction begins with its start; there is no other
\* marker in a buffer.
BufferOK(buffer, open) ==
    /\ \A k \in 1..Len(buffer) : /\ buffer[k].op # "tx_end"
                                 /\ buffer[k].op = "tx_start" => k = 1 /\ open
    /\ open => Len(buffer) >= 1 /\ buffer[1].op = "tx_start"

\* What storage, buffer and batch hold together is what the parser has handed
\* on: the snapshot at o as far as it is delivered, and the commands after it
\* up to byte u; the parser is in the database of the last one.
Consistent(st, hist, o, d, u, cdb, off) ==
    /\ u % 3 \in {0, 1}
    /\ u % 3 = 0 => u <= off
    /\ o \div 3 <= u \div 3
    /\ cdb = IF u \div 3 = o \div 3 THEN 0 ELSE st[u \div 3].db
    /\ hist = Loaded(o, d) \o Held(st, o \div 3, u \div 3)

Pipeline ==
    replication_id /\ Target \notin dirty =>
       Consistent(stream, (storages[Target] \o tx_buffer) \o batch,
                  base, Done, unparsed, current_db, replication_offset)

TargetClosed == Target \notin dirty => TxClosed(storages[Target])

\* A history is the master's, from some snapshot on.
Exact(h, st) ==
    \E i \in 0..Len(st) :
       /\ IsPrefixOf(h, Loaded(3 * i, RdbEntries) \o Held(st, i, Len(st)))
       /\ Len(h) >= RdbEntries

\* While another storage is filled, readers have a whole one.
HandleExact ==
    handle.storage # Target /\ handle.storage \notin dirty =>
       /\ TxClosed(Visible)
       /\ handle.ready => Exact(Visible, stream)

RInv ==
    /\ ProjInv /\ TypeOK /\ OffsetTracksStream
    /\ StreamOK /\ LinkOK /\ Unsynced
    /\ BufferOK(tx_buffer, in_transaction)
    /\ Pipeline /\ TargetClosed /\ HandleExact

\* The state before the first connection satisfies it.
LEMMA InitRInv == Init => RInv
<1> SUFFICES ASSUME Init PROVE RInv
  OBVIOUS
<1>1. ProjInv
  BY InitInv DEF Init
<1>2. TypeOK
  <2>1. <<>> \in Seq([op : StreamOps, db : Dbs])
    OBVIOUS
  <2>2. stream \in Seq([op : StreamOps, db : Dbs]) /\ dirty \subseteq Storages
    BY <2>1 DEF Init
  <2>3. rdb_left \in 0 .. RdbEntries + 1 /\ current_db \in Dbs /\ selected_db \in Dbs \cup {NoDb}
    BY ReplicationConstants DEF Init
  <2>4. connected \in BOOLEAN /\ replication_id \in BOOLEAN /\ saved_replication_id \in BOOLEAN
    BY DEF Init
  <2>5. parser_state \in {"none", "rdb", "streaming"}
    BY DEF Init
  <2>6. /\ base \in Nat /\ next \in Nat /\ unparsed \in Nat
        /\ replication_offset \in Nat /\ saved_replication_offset \in Nat /\ drops \in Nat
    BY DEF Init
  <2> QED
    BY <1>1, <2>2, <2>3, <2>4, <2>5, <2>6 DEF TypeOK, ProjInv
<1>3. StreamOK /\ LinkOK /\ OffsetTracksStream
  BY ReplicationConstants DEF Init, StreamOK, LinkOK, TxWhole, MasterOffset, OffsetTracksStream
<1>4. /\ ts_storage \in Storages /\ storages[ts_storage] = <<>> /\ Target = ts_storage
      /\ handle.storage = ts_storage /\ ~handle.ready
  BY DEF Init, ProjInit, Target
<1>5. Unsynced
  BY <1>4 DEF Init, ProjInit, Unsynced
<1>6. BufferOK(tx_buffer, in_transaction)
  BY DEF Init, ProjInit, BufferOK
<1>7. Pipeline /\ HandleExact
  BY <1>4 DEF Init, Pipeline, HandleExact
<1>8. TargetClosed
  BY <1>4 DEF TargetClosed, TxClosed
<1> QED
  BY <1>1, <1>2, <1>3, <1>5, <1>6, <1>7, <1>8 DEF RInv

\* The state of the projection, as the steps need it.
LEMMA ProjFacts ==
    ASSUME RInv
    PROVE  /\ Target \in Storages
           /\ storages \in [Storages -> Seq(Commands)]
           /\ storages[Target] \in Seq(Commands)
           /\ tx_buffer \in Seq(Commands) /\ batch \in Seq(Commands)
           /\ handle.storage \in Storages /\ Visible \in Seq(Commands)
           /\ stream \in Seq(Items) /\ Len(stream) \in Nat
<1>1. ProjTypeOK /\ TypeOK
  BY DEF RInv, TypeOK
<1>2. Target \in Storages
  BY <1>1 DEF ProjTypeOK, Target
<1>3. handle.storage \in Storages
  BY <1>1 DEF ProjTypeOK
<1>4. stream \in Seq(Items)
  BY <1>1 DEF TypeOK, Items
<1> QED
  BY <1>1, <1>2, <1>3, <1>4 DEF ProjTypeOK, Visible

\* The numbers of the stream.
LEMMA Numbers ==
    ASSUME RInv
    PROVE  /\ base \in Nat /\ unparsed \in Nat /\ next \in Nat /\ replication_offset \in Nat
           /\ Before \in Nat /\ base = 3 * Before /\ Before <= Len(stream)
           /\ Consumed \in Nat /\ Consumed <= Len(stream)
           /\ Len(stream) \in Nat /\ Len(stream) <= MaxStream
           /\ base \in 0 .. 3 * MaxStream
           /\ Done \in 0..RdbEntries /\ RdbEntries \in Nat /\ MaxStream \in Nat
           /\ rdb_left \in 0 .. RdbEntries + 1
<1>1. /\ base \in Nat /\ unparsed \in Nat /\ next \in Nat /\ replication_offset \in Nat
      /\ rdb_left \in 0 .. RdbEntries + 1 /\ RdbEntries \in Nat /\ MaxStream \in Nat
  BY ReplicationConstants DEF RInv, TypeOK
<1>2. Len(stream) \in Nat /\ Len(stream) <= MaxStream
  BY ProjFacts DEF RInv, StreamOK
<1>3. base % 3 = 0 /\ base <= 3 * Len(stream) /\ unparsed <= 3 * Len(stream) + 1
  BY DEF RInv, LinkOK, MasterOffset
<1>4. Before \in Nat /\ base = 3 * Before /\ Before <= Len(stream)
  BY <1>1, <1>2, <1>3 DEF Before
<1>5. Consumed \in Nat /\ Consumed <= Len(stream)
  BY <1>1, <1>2, <1>3 DEF Consumed
<1>6. Done \in 0..RdbEntries
  BY <1>1 DEF Done
<1> QED
  BY <1>1, <1>2, <1>3, <1>4, <1>5, <1>6

\* Commands of the stream are commands of the projection.
LEMMA CommandsFacts ==
    /\ Seq(StreamCommands) \subseteq Seq(Commands)
<1>1. StreamCommands \subseteq Commands
  BY ReplicationConstants
<1> QED
  BY <1>1, SeqMonotonic

----------------------------------------------------------------------------
(* Steps of the master *)

\* What a longer stream hands on begins with what the shorter one did.
LEMMA ExactGrows ==
    ASSUME NEW st \in Seq(Items), NEW su \in Seq(Items), Len(st) <= Len(su), Len(su) <= MaxStream,
           \A i \in 1..Len(st) : su[i] = st[i],
           NEW h \in Seq(Commands), Exact(h, st)
    PROVE  Exact(h, su)
<1>1. PICK i \in 0..Len(st) : /\ IsPrefixOf(h, Loaded(3 * i, RdbEntries) \o Held(st, i, Len(st)))
                              /\ Len(h) >= RdbEntries
  BY DEF Exact
<1>2. PICK n \in Nat, m \in Nat : n = Len(st) /\ m = Len(su)
  OBVIOUS
<1>3. /\ i \in Nat /\ i <= n /\ n <= m /\ i <= m /\ m <= MaxStream /\ n <= MaxStream
      /\ Len(st) <= MaxStream /\ n <= Len(st) /\ n <= Len(su) /\ m <= Len(su)
  BY <1>2, ReplicationConstants
<1>4. Held(su, i, n) = Held(st, i, n)
  BY <1>2, <1>3, HeldStable
<1>5. Held(su, i, m) = Held(su, i, n) \o Held(su, n, m)
  <2>1. Splits(su, i, n, m)
    BY <1>3, HeldConcat
  <2> QED
    BY <2>1 DEF Splits
<1>6. PICK x \in Seq(Commands) : x = Held(st, i, n)
  BY <1>2, <1>3, HeldFacts, CommandsFacts
<1>7. PICK y \in Seq(Commands) : y = Held(su, n, m)
  BY <1>2, <1>3, HeldFacts, CommandsFacts
<1>8. PICK l \in Seq(Commands) : l = Loaded(3 * i, RdbEntries)
  <2>1. PICK o \in 0 .. 3 * MaxStream : o = 3 * i
    BY <1>3, ReplicationConstants
  <2>2. RdbEntries \in 0..RdbEntries
    BY ReplicationConstants
  <2>3. Loaded(o, RdbEntries) \in Seq(StreamCommands)
    BY <2>2, LoadedFacts
  <2> QED
    BY <2>1, <2>3, CommandsFacts
<1>9. PICK lx \in Seq(Commands) : lx = l \o x
  <2>1. l \o x \in Seq(Commands)
    OBVIOUS
  <2> QED
    BY <2>1
<1>10. IsPrefixOf(h, lx)
  BY <1>1, <1>2, <1>6, <1>8, <1>9
<1>11. IsPrefixOf(h, lx \o y)
  BY <1>10, PrefixFacts
<1>12. lx \o y = l \o (x \o y)
  <2>1. Associates(l, x, y)
    BY Associative
  <2> QED
    BY <1>9, <2>1 DEF Associates
<1>13. IsPrefixOf(h, Loaded(3 * i, RdbEntries) \o Held(su, i, Len(su)))
  BY <1>2, <1>4, <1>5, <1>6, <1>7, <1>8, <1>11, <1>12
<1>14. i \in 0..Len(su)
  BY <1>2, <1>3
<1> QED
  BY <1>1, <1>13, <1>14 DEF Exact

\* The stream after a write or a transaction.
LEMMA PropagateFacts ==
    ASSUME RInv, NEW db \in Dbs, NEW ops \in Seq(StreamOps), Propagate(db, ops)
    PROVE  /\ stream' \in Seq(Items) /\ Len(stream') <= MaxStream
           /\ \A i \in 1..Len(stream) : stream'[i] = stream[i]
           /\ \E e \in {0, 1} :
                 /\ Len(stream') = Len(stream) + e + Len(ops)
                 /\ e = 0 <=> selected_db = db
                 /\ e = 1 => stream'[Len(stream) + 1] = [op |-> "select", db |-> db]
                 /\ \A k \in 1..Len(ops) :
                       stream'[Len(stream) + e + k] = [op |-> ops[k], db |-> db]
<1>1. PICK n \in Nat, l \in Nat : n = Len(stream) /\ l = Len(ops)
  BY ProjFacts
<1>2. PICK s \in Seq(Items) : s = stream
  BY ProjFacts
<1>3. PICK b \in Seq(Items) : b = [k \in 1..Len(ops) |-> [op |-> ops[k], db |-> db]]
                              /\ Len(b) = l /\ \A k \in 1..l : b[k] = [op |-> ops[k], db |-> db]
  <2>1. \A k \in 1..l : [op |-> ops[k], db |-> db] \in Items
    BY <1>1 DEF Items
  <2>2. PICK b \in [1..l -> Items] : b = [k \in 1..l |-> [op |-> ops[k], db |-> db]]
    BY <2>1
  <2>3. b \in Seq(Items) /\ Len(b) = l
    OBVIOUS
  <2> QED
    BY <1>1, <2>2, <2>3
<1>4. PICK x \in Items : x = [op |-> "select", db |-> db]
  BY DEF Items, StreamOps
<1>5. CASE selected_db = db
  <2>1. stream' = (s \o <<>>) \o b /\ Len(s) + Len(<<>>) + l <= MaxStream
    BY <1>1, <1>2, <1>3, <1>5 DEF Propagate
  <2>2. s \o <<>> = s /\ Len(<<>>) = 0
    BY ConcatEmptySeq
  <2>3. PICK w \in Seq(Items) : w = s \o b
    <3>1. s \o b \in Seq(Items)
      OBVIOUS
    <3> QED
      BY <3>1
  <2>4. /\ Len(w) = n + l
        /\ \A i \in 1..n : w[i] = s[i]
        /\ \A k \in 1..l : w[n + k] = b[k]
    BY <1>1, <1>2, <1>3, <2>3
  <2>5. stream' = w /\ n + l <= MaxStream /\ n + 0 = n
    BY <1>1, <1>2, <2>1, <2>2, <2>3
  <2>6. \A k \in 1..Len(ops) : stream'[Len(stream) + 0 + k] = [op |-> ops[k], db |-> db]
    BY <1>1, <1>3, <2>4, <2>5
  <2> QED
    BY <1>1, <1>2, <1>3, <1>5, <2>3, <2>4, <2>5, <2>6
<1>6. CASE selected_db # db
  <2>1. PICK sel \in Seq(Items) : sel = <<x>> /\ Len(sel) = 1 /\ sel[1] = x
    <3>1. <<x>> \in Seq(Items) /\ Len(<<x>>) = 1 /\ <<x>>[1] = x
      OBVIOUS
    <3> QED
      BY <3>1
  <2>2. stream' = (s \o sel) \o b /\ Len(s) + Len(sel) + l <= MaxStream
    BY <1>1, <1>2, <1>3, <1>4, <1>6, <2>1 DEF Propagate
  <2>3. PICK v \in Seq(Items) : v = s \o sel
    <3>1. s \o sel \in Seq(Items)
      OBVIOUS
    <3> QED
      BY <3>1
  <2>4. Len(v) = n + 1 /\ (\A i \in 1..n : v[i] = s[i]) /\ v[n + 1] = x
    BY <1>1, <1>2, <2>1, <2>3
  <2>5. PICK w \in Seq(Items) : w = v \o b
    <3>1. v \o b \in Seq(Items)
      OBVIOUS
    <3> QED
      BY <3>1
  <2>6. /\ Len(w) = (n + 1) + l
        /\ \A i \in 1 .. (n + 1) : w[i] = v[i]
        /\ \A k \in 1..l : w[(n + 1) + k] = b[k]
    <3>1. /\ Len(w) = Len(v) + Len(b)
          /\ \A i \in 1..Len(v) : w[i] = v[i]
          /\ \A k \in 1..Len(b) : w[Len(v) + k] = b[k]
      BY <2>5
    <3> QED
      BY <1>3, <2>4, <3>1
  <2>7. stream' = w /\ (n + 1) + l <= MaxStream
    BY <1>1, <1>2, <2>1, <2>2, <2>3, <2>5
  <2>8. \A i \in 1..n : w[i] = s[i]
    BY <2>4, <2>6
  <2>9. w[n + 1] = x
    BY <2>4, <2>6
  <2>10. \A k \in 1..Len(ops) : stream'[Len(stream) + 1 + k] = [op |-> ops[k], db |-> db]
    BY <1>1, <1>3, <2>6, <2>7
  <2>11. stream' \in Seq(Items) /\ Len(stream') = Len(stream) + 1 + Len(ops) /\ Len(stream') <= MaxStream
    BY <1>1, <2>5, <2>6, <2>7
  <2>12. \A i \in 1..Len(stream) : stream'[i] = stream[i]
    BY <1>1, <1>2, <2>7, <2>8
  <2>13. stream'[Len(stream) + 1] = [op |-> "select", db |-> db]
    BY <1>1, <1>4, <2>7, <2>9
  <2> QED
    BY <1>6, <2>10, <2>11, <2>12, <2>13
<1> QED
  BY <1>5, <1>6

\* It is a stream like the one before.
LEMMA GrownStream ==
    ASSUME RInv, NEW db \in Dbs, NEW ops \in Seq(StreamOps), Propagate(db, ops),
           \/ Len(ops) = 1 /\ ops[1] = "write"
           \/ Len(ops) = 3 /\ ops[1] = "tx_start" /\ ops[2] = "write" /\ ops[3] = "tx_end"
    PROVE  StreamOK'
<1>1. PICK n \in Nat, l \in {1, 3} : n = Len(stream) /\ l = Len(ops)
  BY ProjFacts
<1>2. PICK e \in {0, 1} :
         /\ Len(stream') = n + e + l
         /\ e = 0 <=> selected_db = db
         /\ e = 1 => stream'[n + 1] = [op |-> "select", db |-> db]
         /\ \A k \in 1..l : stream'[n + e + k] = [op |-> ops[k], db |-> db]
  <2>1. \E e \in {0, 1} :
           /\ Len(stream') = Len(stream) + e + Len(ops)
           /\ e = 0 <=> selected_db = db
           /\ e = 1 => stream'[Len(stream) + 1] = [op |-> "select", db |-> db]
           /\ \A k \in 1..Len(ops) : stream'[Len(stream) + e + k] = [op |-> ops[k], db |-> db]
    BY PropagateFacts
  <2> QED
    BY <1>1, <2>1, Zenon
<1>3. Len(stream') <= MaxStream /\ \A i \in 1..n : stream'[i] = stream[i]
  BY <1>1, PropagateFacts
<1>3a. ASSUME NEW k \in 1..l, NEW i \in Nat, i = n + e + k
      PROVE  stream'[i].op = ops[k] /\ stream'[i].db = db
  <2>1. stream'[n + e + k] = [op |-> ops[k], db |-> db]
    BY <1>2
  <2> QED
    BY <1>3a, <2>1
<1>4. \A i \in 1..Len(stream') : i <= n \/ (e = 1 /\ i = n + 1) \/ \E k \in 1..l : i = n + e + k
  <2> SUFFICES ASSUME NEW i \in 1..Len(stream'), ~(i <= n), ~(e = 1 /\ i = n + 1)
               PROVE  \E k \in 1..l : i = n + e + k
    OBVIOUS
  <2>1. i - (n + e) \in 1..l /\ i = n + e + (i - (n + e))
    BY <1>2
  <2> QED
    BY <2>1
<1>5. TxWhole(stream', Len(stream'))
  <2> SUFFICES ASSUME NEW i \in 1..Len(stream'), stream'[i].op = "tx_start"
               PROVE  /\ i + 2 <= Len(stream')
                      /\ stream'[i + 1].op = "write" /\ stream'[i + 2].op = "tx_end"
    BY DEF TxWhole
  <2>1. CASE i <= n
    <3>1. i \in 1..n /\ stream[i].op = "tx_start"
      BY <1>3, <2>1
    <3>2. i + 2 <= n /\ stream[i + 1].op = "write" /\ stream[i + 2].op = "tx_end"
      BY <1>1, <3>1 DEF RInv, StreamOK, TxWhole
    <3>3. i + 1 \in 1..n /\ i + 2 \in 1..n /\ i + 2 <= Len(stream')
      BY <1>2, <3>1, <3>2
    <3> QED
      BY <1>3, <3>2, <3>3
  <2>2. CASE e = 1 /\ i = n + 1
    BY <1>2, <2>2
  <2>3. ASSUME NEW k \in 1..l, i = n + e + k
        PROVE  /\ i + 2 <= Len(stream')
               /\ stream'[i + 1].op = "write" /\ stream'[i + 2].op = "tx_end"
    <3>1. ops[k] = "tx_start"
      BY <1>3a, <2>3
    <3>2. k = 1 /\ l = 3 /\ ops[2] = "write" /\ ops[3] = "tx_end"
      BY <1>1, <3>1
    <3>3. i + 1 = n + e + 2 /\ i + 2 = n + e + 3 /\ 2 \in 1..l /\ 3 \in 1..l
      BY <2>3, <3>2
    <3>4. stream'[i + 1].op = "write" /\ stream'[i + 2].op = "tx_end"
      BY <1>3a, <3>2, <3>3
    <3> QED
      BY <1>2, <3>2, <3>3, <3>4
  <2> QED
    BY <1>4, <2>1, <2>2, <2>3
<1>6. ASSUME replication_id
      PROVE  Chained(stream', Before, db)
  <2>1. /\ Before <= n
        /\ selected_db = IF n = Before THEN NoDb ELSE stream[n].db
        /\ \A i \in Before + 1 .. n :
              stream[i].op # "select" => i > Before + 1 /\ stream[i].db = stream[i - 1].db
    BY <1>1, <1>6 DEF RInv, StreamOK, Chained
  <2>2. Before \in Nat /\ db # NoDb
    BY Numbers, ReplicationConstants
  <2>3. Before <= Len(stream') /\ Len(stream') # Before
    BY <1>2, <2>1, <2>2
  <2>4. stream'[Len(stream')].db = db
    <3>1. l \in 1..l /\ Len(stream') = n + e + l /\ Len(stream') \in Nat
      BY <1>2
    <3> QED
      BY <1>3a, <3>1
  <2>5. ASSUME NEW i \in Before + 1 .. Len(stream'), stream'[i].op # "select"
        PROVE  i > Before + 1 /\ stream'[i].db = stream'[i - 1].db
    <3>1. i \in 1..Len(stream')
      BY <2>2
    <3>2. CASE i <= n
      <4>1. i \in Before + 1 .. n /\ i \in 1..n /\ stream[i].op # "select"
        BY <1>3, <2>2, <2>5, <3>2
      <4>2. i > Before + 1 /\ stream[i].db = stream[i - 1].db
        BY <2>1, <4>1
      <4>3. i - 1 \in 1..n
        BY <2>2, <4>1, <4>2
      <4> QED
        BY <1>3, <4>1, <4>2, <4>3
    <3>3. CASE e = 1 /\ i = n + 1
      BY <1>2, <2>5, <3>3
    <3>4. ASSUME NEW k \in 1..l, i = n + e + k
          PROVE  i > Before + 1 /\ stream'[i].db = stream'[i - 1].db
      <4>1. stream'[i].db = db
        BY <1>3a, <3>1, <3>4
      <4>2. CASE k # 1
        <5>1. k - 1 \in 1..l /\ i - 1 \in Nat /\ i - 1 = n + e + (k - 1) /\ i > Before + 1
          BY <2>1, <2>2, <3>4, <4>2
        <5>2. stream'[i - 1].db = db
          BY <1>3a, <5>1
        <5> QED
          BY <4>1, <5>1, <5>2
      <4>3. CASE k = 1 /\ e = 1
        <5>1. i - 1 = n + 1 /\ i > Before + 1
          BY <2>1, <2>2, <3>4, <4>3
        <5>2. stream'[i - 1].db = db
          BY <1>2, <4>3, <5>1
        <5> QED
          BY <4>1, <5>1, <5>2
      <4>4. CASE k = 1 /\ e = 0
        <5>1. selected_db = db
          BY <1>2, <4>4
        <5>2. n # Before /\ stream[n].db = db
          BY <2>1, <2>2, <5>1
        <5>3. i - 1 = n /\ n \in 1..n /\ i > Before + 1
          BY <2>1, <2>2, <3>4, <4>4, <5>2
        <5> QED
          BY <1>3, <4>1, <5>2, <5>3
      <4> QED
        BY <4>2, <4>3, <4>4
    <3> QED
      BY <1>4, <3>1, <3>2, <3>3, <3>4
  <2> QED
    BY <2>3, <2>4, <2>5 DEF Chained
<1>7. replication_id' = replication_id /\ base' = base /\ selected_db' = db
  BY DEF Propagate, idVars, linkVars
<1> QED
  BY <1>3, <1>5, <1>6, <1>7 DEF StreamOK, Before

\* A step that leaves the projection alone keeps its invariant.
LEMMA ProjSame ==
    ASSUME ProjInv, UNCHANGED projVars
    PROVE  ProjInv'
  BY DEF projVars, ProjInv, ProjTypeOK, ServesCurrent, LoadsApart, SwapsReady,
         BufferOnlyInTransaction, HeldBack, ExecutedFirst, InitTold,
         NotifiedIsVisible, Announced, Visible

\* A write or a transaction of the master.
LEMMA MasterStep ==
    ASSUME RInv, NEW db \in Dbs, MasterWrites(db) \/ MasterTransaction(db)
    PROVE  RInv'
<1>1. PICK ops \in Seq(StreamOps) :
         /\ Propagate(db, ops)
         /\ \/ Len(ops) = 1 /\ ops[1] = "write"
            \/ Len(ops) = 3 /\ ops[1] = "tx_start" /\ ops[2] = "write" /\ ops[3] = "tx_end"
  <2>1. /\ <<"write">> \in Seq(StreamOps)
        /\ <<"tx_start", "write", "tx_end">> \in Seq(StreamOps)
    BY DEF StreamOps
  <2>2. Len(<<"write">>) = 1 /\ <<"write">>[1] = "write"
    OBVIOUS
  <2>3. /\ Len(<<"tx_start", "write", "tx_end">>) = 3
        /\ <<"tx_start", "write", "tx_end">>[1] = "tx_start"
        /\ <<"tx_start", "write", "tx_end">>[2] = "write"
        /\ <<"tx_start", "write", "tx_end">>[3] = "tx_end"
    OBVIOUS
  <2>4. CASE MasterWrites(db)
    BY <2>1, <2>2, <2>4 DEF MasterWrites
  <2>5. CASE MasterTransaction(db)
    BY <2>1, <2>3, <2>5 DEF MasterTransaction
  <2> QED
    BY <2>4, <2>5
<1>2. /\ UNCHANGED <<projVars, linkVars, idVars, drops, dirty>> /\ selected_db' = db
  BY <1>1 DEF Propagate
<1>3. PICK su \in Seq(Items) : /\ su = stream' /\ Len(su) <= MaxStream /\ Len(stream) <= Len(su)
                               /\ \A i \in 1..Len(stream) : su[i] = stream[i]
  <2>1. PICK e \in {0, 1} : Len(stream') = Len(stream) + e + Len(ops)
    BY <1>1, PropagateFacts
  <2>2. Len(stream) \in Nat /\ Len(ops) \in Nat
    BY ProjFacts
  <2>3. Len(stream) <= Len(stream')
    BY <2>1, <2>2
  <2> QED
    BY <1>1, <2>3, PropagateFacts
<1>4. StreamOK'
  BY <1>1, GrownStream
<1>5. /\ stream \in Seq(Items) /\ Len(stream) \in Nat /\ Len(su) \in Nat
      /\ Len(stream) <= MaxStream
  BY ProjFacts, Numbers
<1>6. ProjInv'
  BY <1>2, ProjSame DEF RInv
<1>7. TypeOK'
  <2>1. ProjTypeOK'
    BY <1>6 DEF ProjInv
  <2> QED
    BY <1>2, <1>3, <2>1 DEF RInv, TypeOK, Items, linkVars, idVars
<1>8. OffsetTracksStream'
  BY <1>2 DEF RInv, OffsetTracksStream, linkVars, idVars
<1>9. LinkOK'
  <2>1. PICK m \in Nat, n \in Nat : m = Len(stream) /\ n = Len(su) /\ m <= n
    BY <1>3, <1>5
  <2>2. base \in Nat /\ unparsed \in Nat /\ next \in Nat
    BY Numbers
  <2>3. /\ base' = base /\ unparsed' = unparsed /\ next' = next /\ connected' = connected
        /\ replication_id' = replication_id /\ rdb_left' = rdb_left
        /\ parser_state' = parser_state /\ new_ts_storage' = new_ts_storage
        /\ saved_replication_offset' = saved_replication_offset
        /\ replication_offset' = replication_offset
        /\ saved_replication_id' = saved_replication_id
    BY <1>2 DEF linkVars, idVars, projVars
  <2>4. LinkOK
    BY DEF RInv
  <2>5. /\ base <= MasterOffset' /\ unparsed <= MasterOffset' + 1
        /\ connected => next <= MasterOffset' + 1
    <3>1. base <= 3 * m /\ unparsed <= 3 * m + 1 /\ (connected => next <= 3 * m + 1)
      BY <2>1, <2>4 DEF LinkOK, MasterOffset
    <3>2. base <= 3 * n /\ unparsed <= 3 * n + 1 /\ (connected => next <= 3 * n + 1)
      BY <2>1, <2>2, <3>1
    <3>3. MasterOffset' = 3 * n
      BY <1>3, <2>1 DEF MasterOffset
    <3> QED
      BY <3>2, <3>3
  <2> QED
    BY <2>3, <2>4, <2>5 DEF LinkOK
<1>10. Unsynced' /\ BufferOK(tx_buffer, in_transaction)'
  BY <1>2 DEF RInv, Unsynced, BufferOK, idVars, projVars
<1>11. Target' = Target /\ Visible' = Visible
  BY <1>2 DEF Target, Visible, projVars
<1>12. TargetClosed'
  BY <1>2, <1>11 DEF RInv, TargetClosed, TxClosed, projVars
<1>13. HandleExact'
  <2>1. Exact(Visible, stream) => Exact(Visible, su)
    BY <1>3, <1>5, ProjFacts, ExactGrows
  <2> QED
    BY <1>2, <1>3, <1>11, <2>1 DEF RInv, HandleExact, TxClosed, projVars
<1>14. Pipeline'
  <2> SUFFICES ASSUME replication_id, Target \notin dirty
               PROVE  Consistent(su, (storages[Target] \o tx_buffer) \o batch,
                                 base, Done, unparsed, current_db, replication_offset)
    BY <1>2, <1>3, <1>11 DEF Pipeline, Done, projVars, linkVars, idVars
  <2>1. Consistent(stream, (storages[Target] \o tx_buffer) \o batch,
                   base, Done, unparsed, current_db, replication_offset)
    BY DEF RInv, Pipeline
  <2>2. PICK a \in Nat, q \in Nat : a = base \div 3 /\ q = unparsed \div 3 /\ q <= Len(stream)
    BY Numbers DEF Before, Consumed
  <2>3. a <= q
    BY <2>1, <2>2 DEF Consistent
  <2>4. Held(su, a, q) = Held(stream, a, q)
    BY <1>3, <1>5, <2>2, <2>3, HeldStable
  <2>5. q # a => su[q] = stream[q]
    <3>1. q # a => q \in 1..Len(stream)
      BY <1>5, <2>2, <2>3
    <3> QED
      BY <1>3, <3>1
  <2> QED
    BY <2>1, <2>2, <2>4, <2>5 DEF Consistent
<1> QED
  BY <1>4, <1>6, <1>7, <1>8, <1>9, <1>10, <1>12, <1>13, <1>14 DEF RInv

----------------------------------------------------------------------------
(* Losing the connection *)

\* handle_disconnect, after a parse error or a lost connection.
LEMMA DisconnectStep ==
    ASSUME RInv, connected, HandleDisconnect, drops' \in Nat
    PROVE  RInv'
<1>1. /\ connected' = FALSE /\ parser_state' = "none"
      /\ saved_replication_id' = (replication_id \/ saved_replication_id)
      /\ saved_replication_offset' = replication_offset
      /\ UNCHANGED projVars
      /\ UNCHANGED <<stream, selected_db, rdb_left, base, next, unparsed, current_db,
                     replication_id, replication_offset, dirty>>
  BY DEF HandleDisconnect
<1>2. replication_id
  BY DEF RInv, LinkOK
<1>3. ProjInv'
  BY <1>1, ProjSame DEF RInv
<1>4. ProjTypeOK'
  BY <1>3 DEF ProjInv
<1>5. TypeOK'
  BY <1>1, <1>2, <1>4 DEF RInv, TypeOK
<1>6. LinkOK'
  <2>1. MasterOffset' = MasterOffset /\ new_ts_storage' = new_ts_storage
    BY <1>1 DEF MasterOffset, projVars
  <2> QED
    BY <1>1, <1>2, <2>1 DEF RInv, LinkOK
<1>7. StreamOK' /\ OffsetTracksStream'
  BY <1>1 DEF RInv, StreamOK, TxWhole, Chained, Before, OffsetTracksStream
<1>8. Unsynced' /\ BufferOK(tx_buffer, in_transaction)'
  BY <1>1 DEF RInv, Unsynced, BufferOK, projVars
<1>9. Target' = Target /\ Visible' = Visible /\ Done' = Done
  BY <1>1 DEF Target, Visible, projVars, Done
<1>10. Pipeline'
  BY <1>1, <1>9 DEF RInv, Pipeline, projVars
<1>11. TargetClosed' /\ HandleExact'
  BY <1>1, <1>9 DEF RInv, TargetClosed, HandleExact, projVars
<1> QED
  BY <1>3, <1>5, <1>6, <1>7, <1>8, <1>10, <1>11 DEF RInv

----------------------------------------------------------------------------
(* The storage that is served and written *)

\* Once the snapshot is loaded, what has been executed is a beginning of the
\* master's history, and at the end of a batch it holds the whole snapshot:
\* only an open transaction is held back then, and no entry is in one.
LEMMA TargetPrefix ==
    ASSUME RInv, replication_id, Target \notin dirty, new_ts_storage = Nil
    PROVE  /\ IsPrefixOf(storages[Target],
                         Loaded(3 * Before, RdbEntries) \o Held(stream, Before, Len(stream)))
           /\ batch = <<>> /\ (tx_buffer # <<>> => in_transaction)
                 => Len(storages[Target]) >= RdbEntries
<1>1. PICK s \in Seq(Commands), b \in Seq(Commands), q \in Seq(Commands) :
         s = storages[Target] /\ b = tx_buffer /\ q = batch
  BY ProjFacts
<1>2. PICK a \in Nat, c \in Nat, n \in Nat :
         a = Before /\ c = Consumed /\ n = Len(stream) /\ c <= n /\ n <= MaxStream
  BY Numbers
<1>3. base = 3 * a /\ base \in 0 .. 3 * MaxStream /\ RdbEntries \in 0..RdbEntries /\ RdbEntries \in Nat
  BY <1>2, Numbers
<1>4. Done = RdbEntries
  BY DEF RInv, LinkOK, Done
<1>5. Consistent(stream, (s \o b) \o q, base, RdbEntries, unparsed, current_db, replication_offset)
  BY <1>1, <1>4 DEF RInv, Pipeline
<1>6. a <= c /\ (s \o b) \o q = Loaded(base, RdbEntries) \o Held(stream, a, c)
  BY <1>2, <1>5 DEF Consistent, Before, Consumed
<1>7. stream \in Seq(Items) /\ a <= n /\ n <= Len(stream) /\ Len(stream) <= MaxStream /\ c <= Len(stream)
  BY <1>2, <1>6, ProjFacts
<1>8. PICK l \in Seq(Commands) : /\ l = Loaded(base, RdbEntries) /\ Len(l) = RdbEntries
                                 /\ \A j \in 1..RdbEntries : l[j].op = "write"
  BY <1>3, LoadedFacts, CommandsFacts
<1>9. PICK x \in Seq(Commands) : x = Held(stream, a, c)
  BY <1>6, <1>7, HeldFacts, CommandsFacts
<1>10. PICK y \in Seq(Commands) : y = Held(stream, c, n)
  BY <1>2, <1>7, HeldFacts, CommandsFacts
<1>11. Held(stream, a, n) = x \o y
  <2>1. Splits(stream, a, c, n)
    BY <1>2, <1>6, <1>7, HeldConcat
  <2> QED
    BY <1>9, <1>10, <2>1 DEF Splits
<1>12. PICK lx \in Seq(Commands) : lx = l \o x
  <2>1. l \o x \in Seq(Commands)
    OBVIOUS
  <2> QED
    BY <2>1
<1>13. PICK bq \in Seq(Commands) : bq = b \o q
  <2>1. b \o q \in Seq(Commands)
    OBVIOUS
  <2> QED
    BY <2>1
<1>14. s \o bq = lx /\ (s \o b) \o q = lx
  <2>1. Associates(s, b, q)
    BY Associative
  <2> QED
    BY <1>6, <1>8, <1>9, <1>12, <1>13, <2>1 DEF Associates
<1>15. IsPrefixOf(s, lx)
  <2>1. IsPrefixOf(s, s \o bq)
    BY PrefixFacts
  <2> QED
    BY <1>14, <2>1
<1>16. IsPrefixOf(s, lx \o y)
  BY <1>15, PrefixFacts
<1>17. lx \o y = l \o (x \o y)
  <2>1. Associates(l, x, y)
    BY Associative
  <2> QED
    BY <1>12, <2>1 DEF Associates
<1>18. IsPrefixOf(storages[Target],
                  Loaded(3 * Before, RdbEntries) \o Held(stream, Before, Len(stream)))
  BY <1>1, <1>2, <1>3, <1>8, <1>11, <1>16, <1>17
<1>19. ASSUME batch = <<>>, tx_buffer # <<>> => in_transaction, ~(Len(storages[Target]) >= RdbEntries)
       PROVE  FALSE
  <2>1. PICK m \in Nat : m = Len(s) /\ m < RdbEntries
    BY <1>1, <1>3, <1>19
  <2>2. bq = b
    BY <1>1, <1>13, <1>19, ConcatEmptySeq
  <2>3. Len(lx) >= RdbEntries /\ \A j \in 1..RdbEntries : lx[j] = l[j]
    BY <1>3, <1>8, <1>12
  <2>4. Len(s \o b) = Len(s) + Len(b)
    OBVIOUS
  <2>5. Len(b) >= 1
    BY <1>3, <1>14, <2>1, <2>2, <2>3, <2>4
  <2>6. b # <<>> /\ b[1].op = "tx_start"
    BY <1>1, <1>19, <2>5 DEF RInv, BufferOK
  <2>7. \A j \in 1..Len(b) : (s \o b)[Len(s) + j] = b[j]
    OBVIOUS
  <2>8. (s \o b)[m + 1] = b[1]
    <3>1. 1 \in 1..Len(b)
      BY <2>5
    <3> QED
      BY <2>1, <2>7, <3>1
  <2>9. m + 1 \in 1..RdbEntries
    BY <1>3, <2>1
  <2> QED
    <3>1. PICK i \in 1..RdbEntries : i = m + 1
      BY <2>9
    <3>2. lx = s \o b
      BY <1>14, <2>2
    <3>3. lx[i] = b[1] /\ lx[i] = l[i]
      BY <2>3, <2>8, <3>1, <3>2
    <3>4. l[i].op = "write"
      BY <1>8
    <3> QED
      BY <2>6, <3>3, <3>4
<1> QED
  BY <1>18, <1>19

\* Between callbacks readers have whole transactions and, once the replica has
\* been ready, a whole snapshot.
LEMMA VisibleWhole ==
    ASSUME RInv, pc = "idle", handle.storage \notin dirty
    PROVE  /\ TxClosed(Visible)
           /\ handle.ready => Exact(Visible, stream)
<1>1. CASE handle.storage # Target
  BY <1>1 DEF RInv, HandleExact
<1>2. CASE handle.storage = Target
  <2>1. TxClosed(Visible)
    BY <1>2 DEF RInv, TargetClosed, Visible
  <2>2. ASSUME handle.ready
        PROVE  Exact(Visible, stream)
    <3>1. replication_id
      BY <2>2 DEF RInv, Unsynced
    <3>2. new_ts_storage = Nil
      BY <1>2 DEF RInv, ProjInv, LoadsApart, Target
    <3>3. batch = <<>> /\ (tx_buffer # <<>> => in_transaction)
      BY DEF RInv, ProjInv, BufferOnlyInTransaction
    <3>4. /\ IsPrefixOf(Visible, Loaded(3 * Before, RdbEntries) \o Held(stream, Before, Len(stream)))
          /\ Len(Visible) >= RdbEntries
      BY <1>2, <3>1, <3>2, <3>3, TargetPrefix DEF Visible
    <3>5. Before \in 0..Len(stream)
      BY Numbers
    <3> QED
      BY <3>4, <3>5 DEF Exact
  <2> QED
    BY <2>1, <2>2
<1> QED
  BY <1>1, <1>2

----------------------------------------------------------------------------
(* The replies to PSYNC *)

\* A FULLRESYNC: readers keep the storage they have, and an empty one is to
\* be filled with the snapshot and the stream after it.
LEMMA FullresyncStep ==
    ASSUME RInv, Fullresync
    PROVE  RInv'
<1>1. /\ HandleReplicationStart /\ connected' = TRUE /\ selected_db' = NoDb
      /\ base' = MasterOffset /\ next' = MasterOffset + 1 /\ rdb_left' = RdbEntries + 1
      /\ parser_state' = "rdb" /\ unparsed' = MasterOffset + 1 /\ current_db' = 0
      /\ replication_id' = TRUE /\ replication_offset' = MasterOffset
      /\ dirty' = dirty \ {new_ts_storage'}
      /\ UNCHANGED <<stream, saved_replication_id, saved_replication_offset, drops>>
  BY DEF Fullresync
<1>2. /\ pc = "idle" /\ new_ts_storage' \in Storages \ {ts_storage, handle.storage}
      /\ storages' = Keeping({ts_storage, handle.storage})
      /\ tx_buffer' = <<>> /\ in_transaction' = FALSE
      /\ UNCHANGED <<ts_storage, ready, handle, pc, batch, flushed, known>>
  BY <1>1 DEF HandleReplicationStart
<1>3. ProjInv'
  BY <1>1, SwapSteps DEF RInv
<1>4. PICK n \in Nat : n = Len(stream) /\ n <= MaxStream /\ MaxStream \in Nat /\ RdbEntries \in Nat
                       /\ stream \in Seq(Items)
  BY Numbers, ProjFacts
<1>5. MasterOffset = 3 * n /\ MasterOffset' = 3 * n
  BY <1>1, <1>4 DEF MasterOffset
<1>6. base' = 3 * n /\ next' = 3 * n + 1 /\ unparsed' = 3 * n + 1 /\ replication_offset' = 3 * n
  BY <1>1, <1>5
<1>7. base' \div 3 = n /\ unparsed' \div 3 = n /\ unparsed' % 3 = 1 /\ base' % 3 = 0
  BY <1>4, <1>6
<1>8. TypeOK'
  <2>1. ProjTypeOK'
    BY <1>3 DEF ProjInv
  <2>2. base' \in Nat /\ next' \in Nat /\ unparsed' \in Nat /\ replication_offset' \in Nat
    BY <1>4, <1>6
  <2>3. rdb_left' \in 0 .. RdbEntries + 1 /\ current_db' \in Dbs
    BY <1>1, <1>4, ReplicationConstants
  <2> QED
    BY <1>1, <2>1, <2>2, <2>3 DEF RInv, TypeOK
<1>9. StreamOK'
  <2>1. Before' = n
    BY <1>7 DEF Before
  <2>2. Chained(stream, n, NoDb)
    BY <1>4 DEF Chained
  <2>3. TxWhole(stream, Len(stream))
    BY DEF RInv, StreamOK
  <2> QED
    BY <1>1, <1>4, <2>1, <2>2, <2>3 DEF StreamOK
<1>10. LinkOK'
  <2>1. new_ts_storage' # Nil
    BY <1>2, ProjConstants
  <2>2. rdb_left' > 0
    BY <1>1, <1>4
  <2> QED
    BY <1>1, <1>4, <1>5, <1>6, <1>7, <2>1, <2>2 DEF LinkOK
<1>11. OffsetTracksStream'
  BY <1>4, <1>6 DEF OffsetTracksStream
<1>12. Unsynced' /\ BufferOK(tx_buffer, in_transaction)'
  BY <1>1, <1>2 DEF Unsynced, BufferOK
<1>13. Target' = new_ts_storage' /\ storages'[Target'] = <<>> /\ batch' = <<>>
  <2>1. batch = <<>>
    BY <1>2 DEF RInv, ProjInv, BufferOnlyInTransaction
  <2>2. Target' = new_ts_storage'
    BY <1>2, ProjConstants DEF Target
  <2> QED
    BY <1>2, <2>1, <2>2 DEF Keeping
<1>14. Pipeline'
  <2>1. Done' = 0
    BY <1>1, <1>4 DEF Done
  <2>2. Held(stream, n, n) = <<>>
    BY <1>4, HeldFacts
  <2>3. Loaded(3 * n, 0) = <<>>
    <3>1. 3 * n \in 0 .. 3 * MaxStream /\ 0 \in 0..RdbEntries
      BY <1>4
    <3>2. PICK o \in 0 .. 3 * MaxStream : o = 3 * n
      BY <3>1
    <3>3. Loaded(o, 0) \in Seq(StreamCommands) /\ Len(Loaded(o, 0)) = 0
      BY <3>1, LoadedFacts
    <3>4. Loaded(o, 0) = <<>>
      BY <3>3
    <3> QED
      BY <3>2, <3>4
  <2>4. (<<>> \o <<>>) \o <<>> = <<>> \o <<>>
    OBVIOUS
  <2>5. Consistent(stream, (<<>> \o <<>>) \o <<>>, 3 * n, 0, 3 * n + 1, 0, 3 * n)
    BY <1>6, <1>7, <2>2, <2>3, <2>4 DEF Consistent
  <2> QED
    BY <1>1, <1>2, <1>6, <1>13, <2>1, <2>5 DEF Pipeline
<1>15. TargetClosed'
  BY <1>13 DEF TargetClosed, TxClosed
<1>16. HandleExact'
  <2>1. Visible' = Visible
    <3>1. handle.storage \in Storages /\ ProjTypeOK
      BY ProjFacts DEF RInv, ProjInv
    <3> QED
      BY <1>2, <3>1, KeepingFacts DEF Visible
  <2>2. handle.storage \notin dirty' => handle.storage \notin dirty
    BY <1>1, <1>2
  <2>3. handle.storage \notin dirty => /\ TxClosed(Visible)
                                       /\ handle.ready => Exact(Visible, stream)
    BY <1>2, VisibleWhole
  <2> QED
    BY <1>1, <1>2, <2>1, <2>2, <2>3 DEF HandleExact
<1> QED
  BY <1>3, <1>8, <1>9, <1>10, <1>11, <1>12, <1>14, <1>15, <1>16 DEF RInv

\* A CONTINUE: the stream resumes at the byte that was asked for.  Where that
\* repeats at most one line feed and no database was selected, the parser is
\* where it was; elsewhere the storages written from now on are dirty.
LEMMA ContinueStep ==
    ASSUME RInv, Continue
    PROVE  RInv'
<1>1. /\ ~connected /\ saved_replication_id
      /\ saved_replication_offset \in 1 .. MasterOffset + 1
      /\ connected' = TRUE /\ next' = saved_replication_offset
      /\ unparsed' = saved_replication_offset /\ rdb_left' = 0 /\ parser_state' = "streaming"
      /\ current_db' = 0 /\ replication_id' = saved_replication_id
      /\ replication_offset' = saved_replication_offset
      /\ dirty' = IF ResumesCleanly THEN dirty
                  ELSE dirty \cup ({ts_storage, new_ts_storage} \ {Nil})
      /\ UNCHANGED projVars
      /\ UNCHANGED <<stream, selected_db, base, saved_replication_id,
                     saved_replication_offset, drops>>
  BY DEF Continue
<1>2. PICK f \in Nat : f = saved_replication_offset /\ f = replication_offset
  BY <1>1, Numbers DEF RInv, LinkOK
<1>3. PICK n \in Nat : n = Len(stream) /\ MasterOffset = 3 * n /\ MasterOffset' = 3 * n
  BY <1>1, Numbers DEF MasterOffset
<1>4. 1 <= f /\ f <= 3 * n + 1
  BY <1>1, <1>2, <1>3
<1>5. replication_id /\ replication_id' = replication_id
  BY <1>1 DEF RInv, LinkOK, TypeOK
<1>6. ProjInv' /\ ProjTypeOK
  BY <1>1, ProjSame DEF RInv, ProjInv
<1>7. Target' = Target /\ Visible' = Visible /\ handle' = handle
  BY <1>1 DEF Target, Visible, projVars
<1>8. TypeOK'
  <2>1. ProjTypeOK'
    BY <1>6 DEF ProjInv
  <2>2. base' \in Nat /\ next' \in Nat /\ unparsed' \in Nat /\ replication_offset' \in Nat
    BY <1>1, <1>2, Numbers
  <2>3. rdb_left' \in 0 .. RdbEntries + 1 /\ current_db' \in Dbs
    BY <1>1, ReplicationConstants
  <2>4. dirty' \subseteq Storages
    BY <1>1, <1>6 DEF RInv, TypeOK, ProjTypeOK
  <2>5. replication_id' \in BOOLEAN
    BY <1>5 DEF RInv, TypeOK
  <2> QED
    BY <1>1, <2>1, <2>2, <2>3, <2>4, <2>5 DEF RInv, TypeOK
<1>9. StreamOK' /\ OffsetTracksStream'
  <2>1. Before' = Before
    BY <1>1 DEF Before
  <2>2. f <= f
    OBVIOUS
  <2> QED
    BY <1>1, <1>2, <1>5, <2>1, <2>2 DEF RInv, StreamOK, OffsetTracksStream
<1>10. LinkOK'
  <2>1. base % 3 = 0 /\ base <= 3 * n
    BY <1>3 DEF RInv, LinkOK
  <2>2. 1 <= unparsed' /\ unparsed' <= next' /\ next' <= 3 * n + 1 /\ unparsed' <= 3 * n + 1
    BY <1>1, <1>2, <1>4
  <2>3. new_ts_storage' = new_ts_storage /\ rdb_left' = 0 /\ ~(rdb_left' > 0)
    BY <1>1 DEF projVars
  <2> QED
    BY <1>1, <1>3, <1>5, <2>1, <2>2, <2>3 DEF LinkOK
<1>11. Unsynced' /\ BufferOK(tx_buffer, in_transaction)'
  BY <1>1, <1>5 DEF RInv, Unsynced, BufferOK, projVars
<1>12. HandleExact'
  <2>1. handle.storage \notin dirty' => handle.storage \notin dirty
    BY <1>1
  <2> QED
    BY <1>1, <1>7, <2>1 DEF RInv, HandleExact
<1>13. CASE ~ResumesCleanly
  <2>1. Target \in dirty'
    BY <1>1, <1>6, <1>13, ProjConstants DEF Target, ProjTypeOK
  <2>2. Pipeline' /\ TargetClosed'
    BY <1>7, <2>1 DEF Pipeline, TargetClosed
  <2> QED
    BY <1>6, <1>8, <1>9, <1>10, <1>11, <1>12, <2>2 DEF RInv
<1>14. CASE ResumesCleanly
  <2>1. TargetClosed' /\ dirty' = dirty
    BY <1>1, <1>7, <1>14 DEF RInv, TargetClosed, projVars
  <2>2. ASSUME Target \notin dirty
        PROVE  Consistent(stream, (storages[Target] \o tx_buffer) \o batch,
                          base, RdbEntries, f, 0, f)
    <3>1. PICK u \in Nat : u = unparsed
      BY Numbers
    <3>2. new_ts_storage = Nil /\ (f = u \/ f = u - 1) /\ current_db = 0
      BY <1>2, <1>14, <3>1 DEF ResumesCleanly
    <3>3. Done = RdbEntries
      BY <1>5, <3>2 DEF RInv, LinkOK, Done
    <3>4. Consistent(stream, (storages[Target] \o tx_buffer) \o batch,
                     base, RdbEntries, u, 0, f)
      BY <1>2, <1>5, <2>2, <3>1, <3>2, <3>3 DEF RInv, Pipeline
    <3>5. u % 3 \in {0, 1} /\ (u % 3 = 0 => u <= f)
      BY <3>4 DEF Consistent
    <3>6. f % 3 \in {0, 1} /\ f \div 3 = u \div 3 /\ f <= f
      BY <3>2, <3>5
    <3> QED
      BY <3>4, <3>6 DEF Consistent
  <2>3. Done' = RdbEntries
    BY <1>1 DEF Done
  <2>4. Pipeline'
    BY <1>1, <1>2, <1>7, <2>1, <2>2, <2>3 DEF Pipeline, projVars
  <2> QED
    BY <1>6, <1>8, <1>9, <1>10, <1>11, <1>12, <2>1, <2>4 DEF RInv
<1> QED
  BY <1>13, <1>14

----------------------------------------------------------------------------
(* Steps of the callbacks *)

\* A step of a callback that keeps, of storage, buffer and batch together, what
\* the parser has handed on, and the transactions of the storage complete.
LEMMA CallbackFrame ==
    ASSUME RInv, UNCHANGED <<stream, selected_db, linkVars, idVars, drops, dirty>>,
           ProjInv', pc # "idle",
           UNCHANGED <<ts_storage, new_ts_storage>>,
           BufferOK(tx_buffer', in_transaction'),
           (storages'[Target] \o tx_buffer') \o batch' = (storages[Target] \o tx_buffer) \o batch,
           Target \notin dirty => TxClosed(storages'[Target]),
           \/ handle'.storage = Target
           \/ /\ handle' = handle
              /\ handle.storage # Target => storages'[handle.storage] = storages[handle.storage]
    PROVE  RInv'
<1>1. Target' = Target /\ Done' = Done /\ Before' = Before /\ MasterOffset' = MasterOffset
  BY DEF Target, Done, Before, MasterOffset, linkVars
<1>2. TypeOK'
  <2>1. ProjTypeOK'
    BY DEF ProjInv
  <2> QED
    BY <2>1 DEF RInv, TypeOK, linkVars, idVars
<1>3. StreamOK' /\ OffsetTracksStream'
  BY <1>1 DEF RInv, StreamOK, OffsetTracksStream, linkVars, idVars
<1>4. LinkOK'
  BY <1>1 DEF RInv, LinkOK, linkVars, idVars
<1>5. replication_id /\ replication_id'
  BY DEF RInv, Unsynced, idVars
<1>6. Unsynced'
  BY <1>5 DEF Unsynced
<1>7. BufferOK(tx_buffer, in_transaction)'
  BY DEF BufferOK
<1>8. Pipeline'
  BY <1>1, <1>5 DEF RInv, Pipeline, linkVars, idVars
<1>9. TargetClosed'
  BY <1>1 DEF TargetClosed
<1>10. HandleExact'
  <2>1. CASE handle'.storage = Target
    BY <1>1, <2>1 DEF HandleExact
  <2>2. CASE /\ handle' = handle
             /\ handle.storage # Target => storages'[handle.storage] = storages[handle.storage]
    BY <1>1, <2>2 DEF RInv, HandleExact, Visible
  <2> QED
    BY <2>1, <2>2
<1> QED
  BY <1>2, <1>3, <1>4, <1>6, <1>7, <1>8, <1>9, <1>10 DEF RInv

\* Telling the watchers changes no history.
LEMMA TellStep ==
    ASSUME RInv, SendInit \/ NotifyWatchers,
           UNCHANGED <<stream, selected_db, linkVars, idVars, drops, dirty>>
    PROVE  RInv'
<1>1. /\ pc # "idle"
      /\ UNCHANGED <<ts_storage, new_ts_storage, ready, tx_buffer, in_transaction, storages,
                     handle, batch>>
  BY DEF SendInit, NotifyWatchers
<1>2. ProjInv'
  BY SwapSteps, CommandSteps DEF RInv
<1>3. Target \notin dirty => TxClosed(storages'[Target])
  BY <1>1 DEF RInv, TargetClosed
<1>4. BufferOK(tx_buffer', in_transaction')
  BY <1>1 DEF RInv
<1> QED
  BY <1>1, <1>2, <1>3, <1>4, CallbackFrame

\* The storage that becomes the readers' is the one that was filled.
LEMMA RegisterStep ==
    ASSUME RInv, Register, UNCHANGED <<stream, selected_db, linkVars, idVars, drops, dirty>>
    PROVE  RInv'
<1>1. /\ pc = "register" /\ handle' = [storage |-> ts_storage, ready |-> TRUE]
      /\ storages' = Keeping({ts_storage})
      /\ UNCHANGED <<ts_storage, new_ts_storage, ready, tx_buffer, in_transaction, batch>>
  BY DEF Register
<1>2. ProjInv'
  BY SwapSteps DEF RInv
<1>3. Target = ts_storage /\ ts_storage \in Storages /\ ProjTypeOK
  BY <1>1 DEF RInv, ProjInv, SwapsReady, Target, ProjTypeOK
<1>4. storages'[Target] = storages[Target]
  BY <1>1, <1>3, KeepingFacts
<1>5. Target \notin dirty => TxClosed(storages'[Target])
  BY <1>4 DEF RInv, TargetClosed
<1>6. BufferOK(tx_buffer', in_transaction')
  BY <1>1 DEF RInv
<1>7. handle'.storage = Target
  BY <1>1, <1>3
<1> QED
  BY <1>1, <1>2, <1>4, <1>5, <1>6, <1>7, CallbackFrame

\* flush_tx_buffer adds to the storage being written and to no other.
LEMMA FlushTarget ==
    ASSUME RInv, NEW cmds \in Seq(Commands), Flush(cmds)
    PROVE  /\ storages'[Target] = storages[Target] \o cmds
           /\ handle.storage # Target => storages'[handle.storage] = storages[handle.storage]
  BY ProjFacts DEF Flush

\* No transaction is open in the buffer when another one starts: the master
\* ends a transaction before the next one, and what has been handed on is the
\* stream in order.
LEMMA NoOpenStart ==
    ASSUME RInv, replication_id, Target \notin dirty, batch # <<>>, Head(batch).op = "tx_start"
    PROVE  \A k \in 1..Len(tx_buffer) : tx_buffer[k].op # "tx_start"
<1> SUFFICES ASSUME NEW k \in 1..Len(tx_buffer), tx_buffer[k].op = "tx_start"
             PROVE  FALSE
  OBVIOUS
<1>1. PICK s \in Seq(Commands), b \in Seq(Commands), q \in Seq(Commands) :
         s = storages[Target] /\ b = tx_buffer /\ q = batch
  BY ProjFacts
<1>2. PICK m \in Nat, n \in Nat : m = Len(s) /\ n = Len(b)
  BY SMTT(20)
<1>3. n >= 1 /\ b[1].op = "tx_start" /\ \A i \in 1..n : b[i].op # "tx_end"
  BY <1>1, <1>2 DEF RInv, BufferOK
<1>4. Len(q) >= 1 /\ q[1].op = "tx_start"
  BY <1>1
<1>5. PICK sb \in Seq(Commands) : sb = s \o b
  <2>1. s \o b \in Seq(Commands)
    OBVIOUS
  <2> QED
    BY <2>1
<1>6. Len(sb) = m + n /\ \A i \in 1..n : sb[m + i] = b[i]
  BY <1>2, <1>5
<1>7. PICK g \in Seq(Commands) : g = sb \o q
  <2>1. sb \o q \in Seq(Commands)
    OBVIOUS
  <2> QED
    BY <2>1
<1>8. /\ Len(g) = Len(sb) + Len(q)
      /\ \A i \in 1..Len(sb) : g[i] = sb[i]
      /\ \A i \in 1..Len(q) : g[Len(sb) + i] = q[i]
  BY <1>7
<1>9. Len(g) >= m + n + 1 /\ g[m + n + 1].op = "tx_start" /\ Len(g) \in Nat
  <2>1. 1 \in 1..Len(q) /\ Len(q) \in Nat
    BY <1>4
  <2> QED
    BY <1>4, <1>6, <1>8, <2>1
<1>10. \A i \in 1..n : g[m + i] = b[i]
  <2> SUFFICES ASSUME NEW i \in 1..n PROVE g[m + i] = b[i]
    OBVIOUS
  <2>1. m + i \in 1..Len(sb)
    BY <1>6
  <2> QED
    BY <1>6, <1>8, <2>1
<1>11. TxShaped(g)
  <2>1. PICK a \in Nat, c \in Nat : a = Before /\ c = Consumed /\ c <= Len(stream)
    BY Numbers
  <2>2. Consistent(stream, g, base, Done, unparsed, current_db, replication_offset)
    BY <1>1, <1>5, <1>7 DEF RInv, Pipeline
  <2>3. a <= c /\ g = Loaded(base, Done) \o Held(stream, a, c)
    BY <2>1, <2>2 DEF Consistent, Before, Consumed
  <2>4. PICK l \in Seq(StreamCommands) : l = Loaded(base, Done) /\ \A i \in 1..Len(l) : l[i].op = "write"
    <3>1. base \in 0 .. 3 * MaxStream /\ Done \in 0..RdbEntries
      BY Numbers
    <3>2. PICK d \in 0..RdbEntries : d = Done
      BY <3>1
    <3> QED
      BY <3>1, <3>2, LoadedFacts
  <2>5. stream \in Seq(Items) /\ Len(stream) <= MaxStream /\ TxWhole(stream, Len(stream))
    BY ProjFacts DEF RInv, StreamOK
  <2>6. PICK h \in Seq(StreamCommands) : h = Held(stream, a, c) /\ TxShaped(h)
    BY <2>1, <2>3, <2>5, HeldFacts, HeldShaped
  <2> QED
    BY <2>3, <2>4, <2>6, ConcatShaped
<1>12. m + 1 \in 1..Len(g) /\ g[m + 1].op = "tx_start"
  <2>1. 1 \in 1..n
    BY <1>3
  <2>2. g[m + 1] = b[1]
    BY <1>10, <2>1
  <2>3. m + 1 \in 1..Len(g)
    BY <1>3, <1>9
  <2> QED
    BY <1>3, <2>2, <2>3
<1>13. PICK p \in Nat : p = m + 1
  OBVIOUS
<1>14. /\ p + 1 <= Len(g) => g[p + 1].op = "write"
       /\ p + 2 <= Len(g) => g[p + 2].op = "tx_end"
  BY <1>11, <1>12, <1>13 DEF TxShaped
<1>15. CASE n = 1
  <2>1. p + 1 = m + n + 1
    BY <1>13, <1>15
  <2> QED
    BY <1>9, <1>14, <2>1
<1>16. CASE n = 2
  <2>1. p + 2 = m + n + 1
    BY <1>13, <1>16
  <2> QED
    BY <1>9, <1>14, <2>1
<1>17. CASE n >= 3
  <2>1. p + 2 = m + 3 /\ p + 2 <= Len(g) /\ 3 \in 1..n
    BY <1>9, <1>13, <1>17
  <2>2. g[p + 2] = b[3]
    BY <1>10, <2>1
  <2> QED
    BY <1>3, <1>14, <2>1, <2>2
<1> QED
  BY <1>3, <1>15, <1>16, <1>17

\* process_single_command.
LEMMA ProcessStep ==
    ASSUME RInv, ProcessNext, UNCHANGED <<stream, selected_db, linkVars, idVars, drops, dirty>>
    PROVE  RInv'
<1>1. /\ pc = "commands" /\ batch # <<>> /\ batch' = Tail(batch)
      /\ ProcessSingleCommand(Head(batch))
      /\ UNCHANGED <<ts_storage, new_ts_storage, ready, handle, known>>
  BY DEF ProcessNext
<1>2. ProjInv'
  BY CommandSteps DEF RInv
<1>3. PICK s \in Seq(Commands), b \in Seq(Commands), q \in Seq(Commands) :
         s = storages[Target] /\ b = tx_buffer /\ q = batch
  BY ProjFacts
<1>4. PICK x \in Commands : x = Head(q)
  BY <1>1, <1>3
<1>5. replication_id
  BY <1>1 DEF RInv, Unsynced
<1>6. /\ ((s \o b) \o <<x>>) \o Tail(q) = (s \o b) \o q
      /\ ((s \o Append(b, x)) \o <<>>) \o Tail(q) = (s \o b) \o q
      /\ (s \o Append(b, x)) \o Tail(q) = (s \o b) \o q
  <2>1. q # <<>>
    BY <1>1, <1>3
  <2>2. Regroups(s, b, q)
    BY <2>1, Regroup
  <2> QED
    BY <1>4, <2>2 DEF Regroups
<1>7. BufferOK(b, in_transaction)
  BY <1>3 DEF RInv
<1>8. Target \notin dirty => TxClosed(s)
  BY <1>3 DEF RInv, TargetClosed
<1>9. PICK bx \in Seq(Commands) :
         /\ bx = Append(b, x) /\ Len(bx) = Len(b) + 1 /\ bx[Len(bx)] = x
         /\ \A i \in 1..Len(b) : bx[i] = b[i]
  <2>1. /\ Append(b, x) \in Seq(Commands) /\ Len(Append(b, x)) = Len(b) + 1
        /\ Append(b, x)[Len(b) + 1] = x
        /\ \A i \in 1..Len(b) : Append(b, x)[i] = b[i]
    OBVIOUS
  <2> QED
    BY <2>1
<1>10. CASE x.op = "tx_start" /\ Flush(tx_buffer) /\ in_transaction' = TRUE /\ tx_buffer' = <<x>>
  <2>1. /\ storages'[Target] = s \o b
        /\ handle.storage # Target => storages'[handle.storage] = storages[handle.storage]
    BY <1>3, <1>10, FlushTarget
  <2>2. Target \notin dirty => TxClosed(storages'[Target])
    <3> SUFFICES ASSUME Target \notin dirty PROVE TxClosed(s \o b)
      BY <2>1
    <3>1. \A k \in 1..Len(b) : b[k].op # "tx_start"
      BY <1>1, <1>3, <1>4, <1>5, <1>10, NoOpenStart
    <3> QED
      BY <1>8, <3>1, ClosedConcat
  <2>3. BufferOK(tx_buffer', in_transaction')
    BY <1>10 DEF BufferOK
  <2>4. (storages'[Target] \o tx_buffer') \o batch' = (storages[Target] \o tx_buffer) \o batch
    BY <1>1, <1>3, <1>6, <1>10, <2>1
  <2> QED
    BY <1>1, <1>2, <2>1, <2>2, <2>3, <2>4, CallbackFrame
<1>11. CASE /\ x.op = "tx_end" /\ Flush(Append(tx_buffer, x))
            /\ in_transaction' = FALSE /\ tx_buffer' = <<>>
  <2>1. /\ storages'[Target] = s \o bx
        /\ handle.storage # Target => storages'[handle.storage] = storages[handle.storage]
    BY <1>3, <1>9, <1>11, FlushTarget
  <2>2. Target \notin dirty => TxClosed(storages'[Target])
    <3>1. Len(bx) > 0 /\ bx[Len(bx)].op = "tx_end"
      BY <1>9, <1>11
    <3> QED
      BY <1>8, <2>1, <3>1, ClosedConcat
  <2>3. BufferOK(tx_buffer', in_transaction')
    BY <1>11 DEF BufferOK
  <2>4. (storages'[Target] \o tx_buffer') \o batch' = (storages[Target] \o tx_buffer) \o batch
    BY <1>1, <1>3, <1>6, <1>9, <1>11, <2>1
  <2> QED
    BY <1>1, <1>2, <2>1, <2>2, <2>3, <2>4, CallbackFrame
<1>12. CASE /\ x.op \in {"write", "generic"} /\ tx_buffer' = Append(tx_buffer, x)
            /\ UNCHANGED <<in_transaction, storages, flushed, pc>>
  <2>1. BufferOK(tx_buffer', in_transaction')
    <3>1. \A k \in 1..Len(bx) : k \in 1..Len(b) \/ k = Len(bx)
      BY <1>9
    <3>2. \A k \in 1..Len(bx) : /\ bx[k].op # "tx_end"
                                /\ bx[k].op = "tx_start" => k = 1 /\ in_transaction
      BY <1>7, <1>9, <1>12, <3>1 DEF BufferOK
    <3>3. in_transaction => Len(bx) >= 1 /\ bx[1].op = "tx_start"
      <4>1. in_transaction => Len(b) >= 1 /\ b[1].op = "tx_start"
        BY <1>7 DEF BufferOK
      <4> QED
        BY <1>9, <4>1
    <3>4. BufferOK(bx, in_transaction)
      BY <3>2, <3>3 DEF BufferOK
    <3> QED
      BY <1>3, <1>9, <1>12, <3>4
  <2>2. (storages'[Target] \o tx_buffer') \o batch' = (storages[Target] \o tx_buffer) \o batch
    BY <1>1, <1>3, <1>6, <1>12
  <2>3. Target \notin dirty => TxClosed(storages'[Target])
    BY <1>3, <1>8, <1>12
  <2> QED
    BY <1>1, <1>2, <1>12, <2>1, <2>2, <2>3, CallbackFrame
<1> QED
  BY <1>1, <1>3, <1>4, <1>10, <1>11, <1>12 DEF ProcessSingleCommand

\* The end of handle_commands.
LEMMA EndStep ==
    ASSUME RInv, EndOfBatch, UNCHANGED <<stream, selected_db, linkVars, idVars, drops, dirty>>
    PROVE  RInv'
<1>1. /\ pc = "commands" /\ batch = <<>>
      /\ UNCHANGED <<ts_storage, new_ts_storage, ready, in_transaction, handle, batch, known>>
  BY DEF EndOfBatch
<1>2. ProjInv'
  BY CommandSteps DEF RInv
<1>3. PICK s \in Seq(Commands), b \in Seq(Commands) : s = storages[Target] /\ b = tx_buffer
  BY ProjFacts
<1>4. BufferOK(b, in_transaction)
  BY <1>3 DEF RInv
<1>5. Target \notin dirty => TxClosed(s)
  BY <1>3 DEF RInv, TargetClosed
<1>6. CASE ~in_transaction /\ Flush(tx_buffer) /\ tx_buffer' = <<>>
  <2>1. /\ storages'[Target] = s \o b
        /\ handle.storage # Target => storages'[handle.storage] = storages[handle.storage]
    BY <1>3, <1>6, FlushTarget
  <2>2. \A k \in 1..Len(b) : b[k].op # "tx_start"
    BY <1>4, <1>6 DEF BufferOK
  <2>3. Target \notin dirty => TxClosed(storages'[Target])
    BY <1>5, <2>1, <2>2, ClosedConcat
  <2>4. BufferOK(tx_buffer', in_transaction')
    BY <1>1, <1>6 DEF BufferOK
  <2>5. ((s \o b) \o <<>>) \o <<>> = (s \o b) \o <<>>
    <3>1. PICK sb \in Seq(Commands) : sb = s \o b
      <4>1. s \o b \in Seq(Commands)
        OBVIOUS
      <4> QED
        BY <4>1
    <3>2. sb \o <<>> = sb
      BY ConcatEmptySeq
    <3> QED
      BY <3>1, <3>2
  <2>6. (storages'[Target] \o tx_buffer') \o batch' = (storages[Target] \o tx_buffer) \o batch
    BY <1>1, <1>3, <1>6, <2>1, <2>5
  <2> QED
    BY <1>1, <1>2, <2>1, <2>3, <2>4, <2>6, CallbackFrame
<1>7. CASE UNCHANGED <<tx_buffer, storages, flushed>>
  <2>1. BufferOK(tx_buffer', in_transaction')
    BY <1>1, <1>3, <1>4, <1>7
  <2>2. Target \notin dirty => TxClosed(storages'[Target])
    BY <1>3, <1>5, <1>7
  <2> QED
    BY <1>1, <1>2, <1>7, <2>1, <2>2, CallbackFrame
<1> QED
  BY <1>6, <1>7 DEF EndOfBatch

\* Every step of a callback.
LEMMA CallbackSteps ==
    ASSUME RInv, Callback
    PROVE  RInv'
  BY TellStep, RegisterStep, ProcessStep, EndStep DEF Callback, CallbackStep

----------------------------------------------------------------------------
(* A chunk *)

\* The bytes of a chunk are bytes of the stream, and its complete commands
\* commands of the stream.
LEMMA ChunkBytes ==
    ASSUME RInv, NEW k \in 0 .. RdbEntries + 1, NEW b \in next - 1 .. MasterOffset, IsChunk(k, b)
    PROVE  /\ b \in Nat /\ next - 1 <= b /\ b <= 3 * Len(stream)
           /\ 1 <= unparsed /\ unparsed <= next /\ replication_id
           /\ b \div 3 \in Nat /\ b \div 3 <= Len(stream)
           /\ First(b) \in Nat /\ 1 <= First(b) /\ First(b) <= b + 1
           /\ FirstCommand(b) \in Nat /\ 1 <= FirstCommand(b) /\ FirstCommand(b) <= (b \div 3) + 1
<1>1. PICK n \in Nat, u \in Nat, x \in Nat : n = Len(stream) /\ u = unparsed /\ x = next
  BY Numbers
<1>2. 1 <= u /\ u <= x /\ replication_id
  BY <1>1 DEF RInv, LinkOK, IsChunk
<1>3. b \in Nat /\ x - 1 <= b /\ b <= 3 * n
  BY <1>1, <1>2 DEF MasterOffset
<1>4. b \div 3 \in Nat /\ b \div 3 <= n
  BY <1>1, <1>3
<1>5. PICK f \in Nat : f = First(b) /\ 1 <= f /\ f <= b + 1
  <2>1. CASE u <= b /\ u % 3 = 0
    BY <1>1, <1>2, <1>3, <2>1 DEF First
  <2>2. CASE ~(u <= b /\ u % 3 = 0)
    BY <1>1, <1>2, <1>3, <2>2 DEF First
  <2> QED
    BY <2>1, <2>2
<1>6. FirstCommand(b) = (f + 2) \div 3
  BY <1>5 DEF FirstCommand
<1>7. (f + 2) \div 3 \in Nat /\ 1 <= (f + 2) \div 3 /\ (f + 2) \div 3 <= (b \div 3) + 1
  BY <1>3, <1>5
<1> QED
  BY <1>1, <1>2, <1>3, <1>4, <1>5, <1>6, <1>7

\* The n-th of the commands from f on, in the database the parser gives it,
\* and all of them up to q.
Nth(f, n) == Command(f + n - 1, LastDb(stream, current_db, f, f + n - 1))
RawOf(f, q) == [n \in 1 .. (q + 1 - f) |-> Nth(f, n)]

\* They are commands with an operation, a position and a database.
LEMMA RawType ==
    ASSUME RInv, NEW f \in Nat, 1 <= f, NEW q \in Nat, f <= q + 1, q <= Len(stream)
    PROVE  /\ RawOf(f, q) \in Seq(Raw)
           /\ Len(RawOf(f, q)) = q + 1 - f
           /\ \A n \in 1 .. (q + 1 - f) : RawOf(f, q)[n] = Nth(f, n)
<1>1. /\ stream \in Seq(Items) /\ Len(stream) \in Nat /\ Len(stream) <= MaxStream
      /\ MaxStream \in Nat /\ RdbEntries \in Nat /\ current_db \in Dbs
  BY ProjFacts, Numbers DEF RInv, TypeOK
<1>2. PICK m \in Nat : m = q + 1 - f
  <2>1. q + 1 - f \in Nat
    OBVIOUS
  <2> QED
    BY <2>1
<1>3. ASSUME NEW n \in 1..m
      PROVE  Nth(f, n) \in Raw
  <2>1. PICK i \in Nat : i = f + n - 1 /\ i \in 1..Len(stream) /\ i <= Len(stream) + 1
    <3>1. f + n - 1 \in 1..Len(stream) /\ f + n - 1 \in Nat /\ f + n - 1 <= Len(stream) + 1
      BY <1>1, <1>2
    <3> QED
      BY <3>1
  <2>2. LastDb(stream, current_db, f, i) \in Dbs
    BY <1>1, <2>1, LastDbType
  <2>3. stream[i].op \in StreamOps
    <3>1. stream[i] \in Items
      BY <1>1, <2>1
    <3> QED
      BY <3>1 DEF Items
  <2>4. i \in 0 .. 3 * MaxStream /\ 0 \in 0..RdbEntries
    BY <1>1, <2>1
  <2>5. Command(i, LastDb(stream, current_db, f, i)) \in Raw
    BY <2>2, <2>3, <2>4 DEF Command, Raw
  <2> QED
    BY <2>1, <2>5 DEF Nth
<1>4. PICK x \in [1..m -> Raw] : x = [n \in 1..m |-> Nth(f, n)]
  BY <1>3
<1>5. x = RawOf(f, q) /\ x \in Seq(Raw) /\ Len(x) = m
  BY <1>2, <1>4 DEF RawOf
<1> QED
  BY <1>2, <1>4, <1>5

\* What the parser makes of a chunk.
LEMMA ParsedIs ==
    ASSUME RInv, NEW b, NEW f \in Nat, f = FirstCommand(b), NEW q \in Nat, q = b \div 3
    PROVE  /\ Parsed(b) = Handed(RawOf(f, q))
           /\ \A i : DbOf(b, i) = LastDb(stream, current_db, f, i)
<1>1. \A i : DbOf(b, i) = LastDb(stream, current_db, f, i)
  BY DEF DbOf, LastDb, Selects, DbIn
<1>2. RawOf(f, q) = [n \in 1 .. ((b \div 3) + 1 - FirstCommand(b)) |->
               Command(FirstCommand(b) + n - 1, DbOf(b, FirstCommand(b) + n - 1))]
  BY <1>1 DEF RawOf, Nth
<1> QED
  BY <1>1, <1>2 DEF Parsed

\* Whatever the state of the parser, a chunk gives commands and a database.
LEMMA ParsedType ==
    ASSUME RInv, NEW k \in 0 .. RdbEntries + 1, NEW b \in next - 1 .. MasterOffset, IsChunk(k, b)
    PROVE  /\ Parsed(b) \in Seq(StreamCommands)
           /\ DbOf(b, (b \div 3) + 1) \in Dbs
<1>1. PICK f \in Nat, q \in Nat : f = FirstCommand(b) /\ q = b \div 3 /\ 1 <= f /\ f <= q + 1
                                  /\ q <= Len(stream)
  BY ChunkBytes
<1>2. Parsed(b) = Handed(RawOf(f, q)) /\ DbOf(b, q + 1) = LastDb(stream, current_db, f, q + 1)
  BY <1>1, ParsedIs
<1>3. RawOf(f, q) \in Seq(Raw)
  BY <1>1, RawType
<1>4. PICK i \in Nat : i = q + 1 /\ i <= Len(stream) + 1
  <2>1. q + 1 \in Nat /\ q + 1 <= Len(stream) + 1
    BY <1>1, Numbers
  <2> QED
    BY <2>1
<1>5. LastDb(stream, current_db, f, i) \in Dbs
  BY <1>1, <1>4, ProjFacts, LastDbType DEF RInv, TypeOK
<1> QED
  BY <1>1, <1>2, <1>3, <1>4, <1>5, HandedCommands

\* A parser that is where it should be takes the next commands of the stream,
\* each in the database the master executed it in.
LEMMA CleanParse ==
    ASSUME RInv, Target \notin dirty, NEW k \in 0 .. RdbEntries + 1,
           NEW b \in next - 1 .. MasterOffset, IsChunk(k, b)
    PROVE  /\ Before <= Consumed /\ Consumed <= b \div 3
           /\ (IF Complete(b) = {} THEN First(b) ELSE 3 * (b \div 3) + 1) = 3 * (b \div 3) + 1
           /\ Parsed(b) = Held(stream, Consumed, b \div 3)
           /\ DbOf(b, (b \div 3) + 1) = IF b \div 3 = Before THEN 0 ELSE stream[b \div 3].db
<1>1. PICK f \in Nat, q \in Nat, p \in Nat, u \in Nat, c \in Nat, a \in Nat :
         /\ f = FirstCommand(b) /\ q = b \div 3 /\ p = First(b) /\ u = unparsed
         /\ c = Consumed /\ a = Before
  BY ChunkBytes, Numbers
<1>2. /\ 1 <= f /\ f <= q + 1 /\ q <= Len(stream) /\ p <= b + 1 /\ b \in Nat
      /\ 1 <= u /\ u <= next /\ next - 1 <= b /\ next \in Nat /\ replication_id
  BY <1>1, ChunkBytes, Numbers
<1>3. Consistent(stream, (storages[Target] \o tx_buffer) \o batch,
                 base, Done, u, current_db, replication_offset)
  BY <1>1, <1>2 DEF RInv, Pipeline
<1>4. u % 3 \in {0, 1} /\ a <= c /\ current_db = IF c = a THEN 0 ELSE stream[c].db
  BY <1>1, <1>3 DEF Consistent, Before, Consumed
<1>5. c = u \div 3
  BY <1>1 DEF Consumed
<1>6. u % 3 = 0 => u <= b
  <2>1. CASE rdb_left > 0
    <3>1. u = base + 1 /\ base % 3 = 0 /\ base \in Nat
      BY <1>1, <2>1, Numbers DEF RInv, LinkOK
    <3> QED
      BY <3>1
  <2>2. CASE ~(rdb_left > 0)
    <3>1. rdb_left \in Nat
      BY Numbers
    <3>2. b >= next
      BY <2>2, <3>1 DEF IsChunk
    <3> QED
      BY <1>2, <3>2
  <2> QED
    BY <2>1, <2>2
<1>7. p = 3 * c + 1
  <2>1. CASE u % 3 = 0
    <3>1. p = u + 1
      BY <1>1, <1>6, <2>1 DEF First
    <3> QED
      BY <1>5, <2>1, <3>1
  <2>2. CASE u % 3 = 1
    <3>1. p = u
      BY <1>1, <2>2 DEF First
    <3> QED
      BY <1>5, <2>2, <3>1
  <2> QED
    BY <1>4, <2>1, <2>2
<1>8. f = c + 1
  <2>1. f = (p + 2) \div 3
    BY <1>1 DEF FirstCommand
  <2> QED
    BY <1>7, <2>1
<1>9. c <= q
  BY <1>2, <1>8
<1>10. (IF Complete(b) = {} THEN First(b) ELSE 3 * (b \div 3) + 1) = 3 * (b \div 3) + 1
  <2>1. CASE c = q
    BY <1>1, <1>7, <2>1
  <2>2. CASE c # q
    <3>1. q \in f..q
      BY <1>8, <1>9, <2>2
    <3>2. Complete(b) # {}
      BY <1>1, <3>1 DEF Complete
    <3> QED
      BY <3>2
  <2> QED
    BY <2>1, <2>2
<1>11. \A i \in f..q : stream[i].op # "select" => /\ i = f => stream[i].db = current_db
                                                  /\ i # f => stream[i].db = stream[i - 1].db
  <2> SUFFICES ASSUME NEW i \in f..q, stream[i].op # "select"
               PROVE  /\ i = f => stream[i].db = current_db
                      /\ i # f => stream[i].db = stream[i - 1].db
    OBVIOUS
  <2>1. \A j \in a + 1 .. Len(stream) :
           stream[j].op # "select" => j > a + 1 /\ stream[j].db = stream[j - 1].db
    BY <1>1, <1>2 DEF RInv, StreamOK, Chained
  <2>2. i \in a + 1 .. Len(stream) /\ Len(stream) \in Nat
    <3>1. PICK n \in Nat : n = Len(stream)
      BY Numbers
    <3>2. i \in Nat /\ c + 1 <= i /\ i <= n
      BY <1>2, <1>8, <3>1
    <3>3. a + 1 <= i
      BY <1>4, <3>2
    <3>4. i \in a + 1 .. n
      BY <3>2, <3>3
    <3> QED
      BY <3>1, <3>4
  <2>3. i > a + 1 /\ stream[i].db = stream[i - 1].db
    BY <2>1, <2>2
  <2>4. ASSUME i = f
        PROVE  stream[i].db = current_db
    <3>1. i - 1 = c /\ c # a
      BY <1>4, <1>8, <2>3, <2>4
    <3> QED
      BY <1>4, <2>3, <3>1
  <2> QED
    BY <2>3, <2>4
<1>12. stream \in Seq(Items) /\ Len(stream) <= MaxStream /\ Len(stream) \in Nat
  BY ProjFacts, Numbers
<1>13. \A i \in f .. (q + 1) :
          LastDb(stream, current_db, f, i) = IF i = f THEN current_db ELSE stream[i - 1].db
  BY <1>2, <1>11, <1>12, LastDbFollows
<1>14. /\ Parsed(b) = Handed(RawOf(f, q))
       /\ DbOf(b, q + 1) = LastDb(stream, current_db, f, q + 1)
  BY <1>1, ParsedIs
<1>15. DbOf(b, q + 1) = IF q = a THEN 0 ELSE stream[q].db
  <2>1. LastDb(stream, current_db, f, q + 1) = IF q + 1 = f THEN current_db ELSE stream[q].db
    <3>1. q + 1 \in f .. (q + 1) /\ (q + 1) - 1 = q
      BY <1>2
    <3> QED
      BY <1>13, <3>1
  <2>2. CASE q = c
    BY <1>4, <1>8, <1>14, <2>1, <2>2
  <2>3. CASE q # c
    BY <1>4, <1>8, <1>9, <1>14, <2>1, <2>3
  <2> QED
    BY <2>2, <2>3
<1>16. PICK x \in Seq(Raw) : x = RawOf(f, q) /\ Len(x) = q - c /\ \A n \in 1 .. (q - c) : x[n] = Nth(f, n)
  <2>1. q + 1 - f = q - c
    BY <1>8
  <2>2. /\ RawOf(f, q) \in Seq(Raw) /\ Len(RawOf(f, q)) = q + 1 - f
        /\ \A n \in 1 .. (q + 1 - f) : RawOf(f, q)[n] = Nth(f, n)
    BY <1>2, RawType
  <2> QED
    BY <2>1, <2>2
<1>17. PICK y \in Seq(Raw) :
          /\ y = Segment(stream, c, q) /\ Len(y) = q - c
          /\ \A n \in 1 .. (q - c) :
                y[n] = [op |-> stream[c + n].op, at |-> c + n, part |-> 0, db |-> stream[c + n].db]
  <2>1. /\ Segment(stream, c, q) \in Seq(Raw) /\ Len(Segment(stream, c, q)) = q - c
        /\ \A n \in 1 .. (q - c) : Segment(stream, c, q)[n] =
              [op |-> stream[c + n].op, at |-> c + n, part |-> 0, db |-> stream[c + n].db]
    <3>1. PICK st \in Seq(Items) : st = stream /\ Len(st) <= MaxStream /\ q <= Len(st)
      BY <1>2, <1>12
    <3>2. Segment(st, c, q) \in Seq(Raw) /\ Len(Segment(st, c, q)) = q - c
      BY <1>9, <3>1, SegmentFacts
    <3>3. \A n \in 1 .. (q - c) : Segment(st, c, q)[n] =
             [op |-> st[c + n].op, at |-> c + n, part |-> 0, db |-> st[c + n].db]
      BY DEF Segment
    <3> QED
      BY <3>1, <3>2, <3>3
  <2> QED
    BY <2>1
<1>18. ASSUME NEW n \in 1 .. (q - c)
       PROVE  x[n].op = y[n].op /\ (x[n].op # "select" => x[n] = y[n])
  <2>1. PICK i \in f..q : i = c + n /\ i = f + n - 1
    <3>1. c + n \in f..q /\ c + n = f + n - 1
      BY <1>8, <1>9
    <3> QED
      BY <3>1
  <2>2. x[n] = Command(i, LastDb(stream, current_db, f, i))
    BY <1>16, <2>1 DEF Nth
  <2>3. y[n] = [op |-> stream[i].op, at |-> i, part |-> 0, db |-> stream[i].db]
    BY <1>17, <2>1
  <2>4. stream[i].op # "select" => LastDb(stream, current_db, f, i) = stream[i].db
    <3>1. i \in f .. (q + 1)
      BY <2>1
    <3> QED
      BY <1>11, <1>13, <3>1
  <2> QED
    BY <2>2, <2>3, <2>4 DEF Command
<1>19. Handed(x) = Handed(y)
  BY <1>16, <1>17, <1>18, HandedSame
<1>20. Parsed(b) = Held(stream, c, q)
  BY <1>14, <1>16, <1>17, <1>19 DEF Held
<1> QED
  BY <1>1, <1>4, <1>9, <1>10, <1>15, <1>20

\* The entries handed on after k more units of the snapshot.
DoneAfter(k) == IF rdb_left = k THEN RdbEntries ELSE RdbEntries + 1 - (rdb_left - k)

\* A chunk gives the next entries of the snapshot.
LEMMA EntriesFacts ==
    ASSUME RInv, NEW k \in 0 .. RdbEntries + 1, k <= rdb_left
    PROVE  /\ Entries(k) \in Seq(StreamCommands)
           /\ DoneAfter(k) \in 0..RdbEntries
           /\ Loaded(base, DoneAfter(k)) = Loaded(base, Done) \o Entries(k)
           /\ rdb_left = 0 => Entries(k) = <<>>
<1>1. PICK r \in Nat, m \in Nat : /\ r = RdbEntries /\ m = rdb_left /\ m <= r + 1 /\ k <= m
                                  /\ base \in 0 .. 3 * MaxStream /\ k \in Nat
  BY Numbers, SMTT(20)
<1>2. CASE m = 0
  <2>1. k = 0 /\ 1 .. (r - (r + 1)) = {}
    BY <1>1, <1>2
  <2>2. Entries(k) = [n \in 1 .. (r - (r + 1)) |-> Entry(base, r + 1 + n)]
    BY <1>1, <1>2, <2>1 DEF Entries
  <2>3. Entries(k) = <<>>
    BY <2>1, <2>2
  <2>4. DoneAfter(k) = r /\ Done = r /\ r \in 0..r
    BY <1>1, <1>2, <2>1 DEF DoneAfter, Done
  <2>5. PICK l \in Seq(StreamCommands) : l = Loaded(base, r)
    BY <1>1, <2>4, LoadedFacts
  <2>6. l \o <<>> = l /\ <<>> \in Seq(StreamCommands)
    BY ConcatEmptySeq
  <2> QED
    BY <1>1, <2>3, <2>4, <2>5, <2>6
<1>3. CASE m # 0
  <2>1. PICK d \in Nat : d = r + 1 - m /\ d <= r
    <3>1. r + 1 - m \in Nat /\ r + 1 - m <= r
      BY <1>1, <1>3
    <3> QED
      BY <3>1
  <2>2. PICK v \in Nat : v = IF d + k > r THEN r ELSE d + k
    <3>1. (IF d + k > r THEN r ELSE d + k) \in Nat
      BY <1>1, <2>1
    <3> QED
      BY <3>1
  <2>3. PICK e \in Nat : e = v - d /\ d + e = v /\ v <= r
    <3>1. v - d \in Nat /\ d + (v - d) = v /\ v <= r
      BY <1>1, <2>1, <2>2
    <3> QED
      BY <3>1
  <2>4. Entries(k) = [n \in 1..e |-> Entry(base, d + n)]
    BY <1>1, <2>1, <2>2, <2>3 DEF Entries
  <2>5. Done = d
    BY <1>1, <1>3, <2>1 DEF Done
  <2>6. DoneAfter(k) = v
    BY <1>1, <2>1, <2>2 DEF DoneAfter
  <2>7. /\ [n \in 1..e |-> Entry(base, d + n)] \in Seq(StreamCommands)
        /\ Loaded(base, d + e) = Loaded(base, d) \o [n \in 1..e |-> Entry(base, d + n)]
    <3>1. d + e <= RdbEntries /\ base \in 0 .. 3 * MaxStream
      BY <1>1, <2>3
    <3> QED
      BY <3>1, LoadedMore, Zenon
  <2>8. Entries(k) \in Seq(StreamCommands) /\ Loaded(base, v) = Loaded(base, d) \o Entries(k)
    BY <2>3, <2>4, <2>7
  <2>9. v \in 0..RdbEntries /\ rdb_left # 0
    BY <1>1, <1>3, <2>3
  <2> QED
    BY <2>5, <2>6, <2>8, <2>9
<1> QED
  BY <1>2, <1>3

Shuffles(l, x, e, p) == (l \o x) \o (e \o p) = (l \o e) \o (x \o p)

\* Entries come before the first command, so it does not matter that a chunk
\* adds both at the end.
LEMMA Shuffle ==
    ASSUME NEW C, NEW l \in Seq(C), NEW x \in Seq(C), NEW e \in Seq(C), NEW p \in Seq(C),
           e = <<>> \/ x = <<>>
    PROVE  Shuffles(l, x, e, p)
<1>1. <<>> \o p = p /\ l \o <<>> = l
  BY ConcatEmptySeq
<1>2. CASE e = <<>>
  <2>1. Associates(l, x, p)
    BY Associative
  <2> QED
    BY <1>1, <1>2, <2>1 DEF Associates, Shuffles
<1>3. CASE x = <<>>
  <2>1. Associates(l, e, p)
    BY Associative
  <2> QED
    BY <1>1, <1>3, <2>1 DEF Associates, Shuffles
<1> QED
  BY <1>2, <1>3

\* What a chunk does to the projection before the callback's first effect.
LEMMA ChunkProj ==
    ASSUME RInv, NEW k \in 0 .. RdbEntries + 1, NEW b \in next - 1 .. MasterOffset,
           IsChunk(k, b), ProcessChunk(k, b)
    PROVE  /\ ProjInv'
           /\ batch' = Entries(k) \o Parsed(b)
           /\ Target' = Target
           /\ UNCHANGED <<storages, tx_buffer, in_transaction, handle>>
           /\ IF k = rdb_left /\ rdb_left > 0 THEN new_ts_storage' = Nil
              ELSE new_ts_storage' = new_ts_storage
<1>1. pc = "idle" /\ k <= rdb_left /\ rdb_left \in Nat /\ parser_state = IF rdb_left > 0 THEN "rdb" ELSE "streaming"
  BY Numbers DEF IsChunk, RInv, LinkOK
<1>2. PICK cmds \in Seq(Commands) : cmds = Entries(k) \o Parsed(b)
  <2>1. PICK e \in Seq(StreamCommands), p \in Seq(StreamCommands) : e = Entries(k) /\ p = Parsed(b)
    BY <1>1, EntriesFacts, ParsedType
  <2>2. e \o p \in Seq(StreamCommands)
    OBVIOUS
  <2> QED
    BY <2>1, <2>2, CommandsFacts
<1>3. CASE parser_state = "rdb" /\ k = rdb_left
  <2>1. HandleStreamingStart(cmds)
    BY <1>2, <1>3 DEF ProcessChunk
  <2>2. ProjInv'
    BY <2>1, SwapSteps DEF RInv
  <2>3. /\ new_ts_storage # Nil /\ ts_storage' = new_ts_storage /\ new_ts_storage' = Nil
        /\ batch' = cmds /\ UNCHANGED <<tx_buffer, in_transaction, storages, handle>>
    BY <2>1 DEF HandleStreamingStart
  <2>4. Target' = Target
    BY <2>3 DEF Target
  <2>5. rdb_left > 0
    BY <1>1, <1>3
  <2> QED
    BY <1>2, <1>3, <2>2, <2>3, <2>4, <2>5
<1>4. CASE ~(parser_state = "rdb" /\ k = rdb_left)
  <2>1. ~(k = rdb_left /\ rdb_left > 0)
    BY <1>1, <1>4
  <2>2. CASE HandleCommands(cmds)
    <3>1. ProjInv'
      BY <2>2, CommandSteps DEF RInv
    <3>2. /\ batch' = cmds
          /\ UNCHANGED <<ts_storage, new_ts_storage, tx_buffer, in_transaction, storages, handle>>
      BY <2>2 DEF HandleCommands
    <3>3. Target' = Target
      BY <3>2 DEF Target
    <3> QED
      BY <1>2, <2>1, <3>1, <3>2, <3>3
  <2>3. CASE cmds = <<>> /\ UNCHANGED projVars
    <3>1. ProjInv'
      BY <2>3, ProjSame DEF RInv
    <3>2. batch = <<>>
      BY <1>1 DEF RInv, ProjInv, BufferOnlyInTransaction
    <3>3. UNCHANGED <<ts_storage, new_ts_storage, tx_buffer, in_transaction, storages, handle, batch>>
      BY <2>3 DEF projVars
    <3>4. Target' = Target
      BY <3>3 DEF Target
    <3> QED
      BY <1>2, <2>1, <2>3, <3>1, <3>2, <3>3, <3>4
  <2> QED
    BY <1>2, <1>4, <2>2, <2>3 DEF ProcessChunk
<1> QED
  BY <1>3, <1>4

\* handle_replication_data.
LEMMA DataStep ==
    ASSUME RInv, NEW k \in 0 .. RdbEntries + 1, NEW b \in next - 1 .. MasterOffset,
           HandleReplicationData(k, b)
    PROVE  RInv'
<1>1. /\ IsChunk(k, b) /\ ProcessChunk(k, b) /\ CountsChunk(k, b)
      /\ rdb_left' = rdb_left - k
      /\ parser_state' = IF k = rdb_left THEN "streaming" ELSE parser_state
      /\ next' = b + 1
      /\ unparsed' = IF Complete(b) = {} THEN First(b) ELSE 3 * (b \div 3) + 1
      /\ current_db' = DbOf(b, (b \div 3) + 1)
      /\ UNCHANGED <<stream, selected_db, connected, base, replication_id,
                     saved_replication_id, saved_replication_offset, drops, dirty>>
  BY DEF HandleReplicationData
<1>2. /\ ProjInv' /\ batch' = Entries(k) \o Parsed(b) /\ Target' = Target
      /\ UNCHANGED <<storages, tx_buffer, in_transaction, handle>>
      /\ IF k = rdb_left /\ rdb_left > 0 THEN new_ts_storage' = Nil
         ELSE new_ts_storage' = new_ts_storage
  BY <1>1, ChunkProj
<1>3. PICK n \in Nat, m \in Nat, x \in Nat, o \in Nat, q \in Nat, p \in Nat :
         /\ n = Len(stream) /\ m = rdb_left /\ x = next /\ o = replication_offset
         /\ q = b \div 3 /\ p = First(b)
  <2>1. b \div 3 \in Nat /\ First(b) \in Nat
    BY <1>1, ChunkBytes
  <2>2. Len(stream) \in Nat /\ rdb_left \in Nat /\ next \in Nat /\ replication_offset \in Nat
    BY Numbers
  <2> QED
    BY <2>1, <2>2
<1>4. /\ b \in Nat /\ x - 1 <= b /\ b <= 3 * n /\ q <= n /\ 1 <= p /\ p <= b + 1
      /\ replication_id /\ connected /\ pc = "idle"
      /\ k \in Nat /\ k <= m /\ m <= RdbEntries + 1 /\ RdbEntries \in Nat
      /\ k < m => b = x - 1
      /\ k > 0 \/ (m = 0 /\ b >= x)
  <2>1. /\ b \in Nat /\ x - 1 <= b /\ b <= 3 * n /\ q <= n /\ 1 <= p /\ p <= b + 1
        /\ replication_id
    BY <1>1, <1>3, ChunkBytes
  <2>2. k \in Nat /\ m <= RdbEntries + 1 /\ RdbEntries \in Nat
    BY <1>3, Numbers
  <2> QED
    BY <1>1, <1>3, <2>1, <2>2 DEF IsChunk
<1>5. unparsed' \in Nat /\ 1 <= unparsed' /\ unparsed' <= b + 1
  <2>1. 3 * q + 1 \in Nat /\ 1 <= 3 * q + 1 /\ 3 * q + 1 <= b + 1
    BY <1>3, <1>4
  <2>2. CASE Complete(b) = {}
    BY <1>1, <1>3, <1>4, <2>2
  <2>3. CASE Complete(b) # {}
    BY <1>1, <1>3, <2>1, <2>3
  <2> QED
    BY <2>2, <2>3
<1>6. PICK w \in Nat : w = replication_offset' /\ o <= w /\ (o <= x => w <= b + 1)
  <2>1. CASE parser_state = "streaming"
    <3>1. replication_offset' = o + (b + 1 - x)
      BY <1>1, <1>3, <2>1 DEF CountsChunk
    <3>2. o + (b + 1 - x) \in Nat /\ o <= o + (b + 1 - x) /\ (o <= x => o + (b + 1 - x) <= b + 1)
      BY <1>4
    <3> QED
      BY <3>1, <3>2
  <2>2. CASE parser_state # "streaming"
    <3>1. replication_offset' = o
      BY <1>1, <1>3, <2>2 DEF CountsChunk
    <3>2. o <= o /\ (o <= x => o <= b + 1)
      BY <1>4
    <3> QED
      BY <3>1, <3>2
  <2> QED
    BY <2>1, <2>2
<1>7. OffsetTracksStream'
  <2>1. o <= x
    BY <1>3, <1>4 DEF RInv, OffsetTracksStream
  <2> QED
    BY <1>1, <1>6, <2>1 DEF OffsetTracksStream
<1>8. TypeOK'
  <2>1. ProjTypeOK'
    BY <1>2 DEF ProjInv
  <2>2. next' \in Nat /\ unparsed' \in Nat /\ replication_offset' \in Nat
    BY <1>1, <1>4, <1>5, <1>6
  <2>3. rdb_left' \in 0 .. RdbEntries + 1
    BY <1>1, <1>3, <1>4
  <2>4. current_db' \in Dbs
    BY <1>1, ParsedType
  <2>5. parser_state' \in {"none", "rdb", "streaming"}
    BY <1>1 DEF RInv, TypeOK
  <2> QED
    BY <1>1, <2>1, <2>2, <2>3, <2>4, <2>5 DEF RInv, TypeOK
<1>9. StreamOK'
  <2>1. Before' = Before
    BY <1>1 DEF Before
  <2> QED
    BY <1>1, <2>1 DEF RInv, StreamOK
<1>10. LinkOK'
  <2>1. MasterOffset' = 3 * n /\ MasterOffset = 3 * n
    BY <1>1, <1>3 DEF MasterOffset
  <2>2. /\ base % 3 = 0 /\ base <= 3 * n
        /\ parser_state = IF m > 0 THEN "rdb" ELSE "streaming"
        /\ m > 0 => x = base + 1 /\ new_ts_storage # Nil /\ unparsed = base + 1
        /\ new_ts_storage = Nil => m = 0
        /\ saved_replication_id => replication_id
    BY <1>3, <1>4, <2>1 DEF RInv, LinkOK
  <2>3. rdb_left' > 0 <=> k < m
    BY <1>1, <1>3, <1>4
  <2>4. parser_state' = IF rdb_left' > 0 THEN "rdb" ELSE "streaming"
    <3>1. CASE k = m
      BY <1>1, <1>3, <1>4, <2>3, <3>1
    <3>2. CASE k # m
      <4>1. m > 0 /\ k < m
        BY <1>4, <3>2
      <4> QED
        BY <1>1, <1>3, <2>2, <2>3, <3>2, <4>1
    <3> QED
      BY <3>1, <3>2
  <2>5. ASSUME rdb_left' > 0
        PROVE  next' = base + 1 /\ new_ts_storage' # Nil /\ unparsed' = base + 1
    <3>1. m > 0 /\ k # m /\ b = x - 1
      BY <1>4, <2>3, <2>5
    <3>2. new_ts_storage' = new_ts_storage
      BY <1>2, <1>3, <3>1
    <3>3. b = base /\ base \in Nat
      <4>1. base \in Nat
        BY Numbers
      <4>2. x = base + 1
        BY <2>2, <3>1
      <4> QED
        BY <3>1, <4>1, <4>2
    <3>4. First(b) = base + 1
      BY <2>2, <3>1, <3>3 DEF First
    <3>5. FirstCommand(b) = q + 1
      <4>1. FirstCommand(b) = ((base + 1) + 2) \div 3
        BY <3>4 DEF FirstCommand
      <4> QED
        BY <1>3, <2>2, <3>3, <4>1
    <3>6. Complete(b) = {}
      BY <1>3, <3>5 DEF Complete
    <3> QED
      BY <1>1, <2>2, <3>1, <3>2, <3>3, <3>4, <3>6
  <2>6. new_ts_storage' = Nil => rdb_left' = 0
    <3>1. CASE k = m
      BY <1>1, <1>3, <3>1
    <3>2. CASE k # m
      BY <1>2, <1>3, <1>4, <2>2, <3>2
    <3> QED
      BY <3>1, <3>2
  <2>7. next' <= 3 * n + 1 /\ unparsed' <= 3 * n + 1 /\ unparsed' <= next'
    BY <1>1, <1>4, <1>5
  <2> QED
    BY <1>1, <1>4, <1>5, <2>1, <2>2, <2>4, <2>5, <2>6, <2>7 DEF LinkOK
<1>11. Unsynced' /\ BufferOK(tx_buffer, in_transaction)'
  BY <1>1, <1>2, <1>4 DEF RInv, Unsynced, BufferOK
<1>12. TargetClosed' /\ HandleExact'
  <2>1. Visible' = Visible
    BY <1>2 DEF Visible
  <2> QED
    BY <1>1, <1>2, <2>1 DEF RInv, TargetClosed, HandleExact
<1>13. Pipeline'
  <2> SUFFICES ASSUME Target \notin dirty
               PROVE  Consistent(stream, (storages[Target] \o tx_buffer) \o (Entries(k) \o Parsed(b)),
                                 base, Done', unparsed', current_db', w)
    BY <1>1, <1>2, <1>6 DEF Pipeline
  <2>1. PICK a \in Nat, c \in Nat : a = Before /\ c = Consumed /\ a <= c /\ c <= q
    BY <1>1, <1>3, Numbers, CleanParse
  <2>2. /\ unparsed' = 3 * q + 1 /\ Parsed(b) = Held(stream, c, q)
        /\ current_db' = IF q = a THEN 0 ELSE stream[q].db
    BY <1>1, <1>3, <2>1, CleanParse
  <2>3. unparsed' % 3 = 1 /\ unparsed' \div 3 = q /\ base \div 3 = a
    <3>1. (3 * q + 1) % 3 = 1 /\ (3 * q + 1) \div 3 = q
      OBVIOUS
    <3>2. base \div 3 = a
      BY <2>1 DEF Before
    <3> QED
      BY <2>2, <3>1, <3>2
  <2>4. Done' = DoneAfter(k)
    <3>1. rdb_left' = 0 <=> rdb_left = k
      BY <1>1, <1>3, <1>4
    <3> QED
      BY <1>1, <3>1 DEF Done, DoneAfter
  <2>5. PICK s \in Seq(Commands), t \in Seq(Commands) : s = storages[Target] /\ t = tx_buffer
    BY ProjFacts
  <2>6. PICK st \in Seq(Commands) : st = s \o t
    <3>1. s \o t \in Seq(Commands)
      OBVIOUS
    <3> QED
      BY <3>1
  <2>7. stream \in Seq(Items) /\ Len(stream) <= MaxStream /\ q <= Len(stream) /\ c <= Len(stream) /\ a <= q
    BY <1>3, <1>4, <2>1, Numbers, ProjFacts
  <2>8. PICK h \in Seq(Commands) : h = Held(stream, a, c)
    BY <2>1, <2>7, HeldFacts, CommandsFacts
  <2>9. PICK r \in Seq(Commands) : r = Held(stream, c, q)
    BY <2>1, <2>7, HeldFacts, CommandsFacts
  <2>10. PICK l \in Seq(Commands) : l = Loaded(base, Done)
    <3>1. PICK d \in 0..RdbEntries : d = Done /\ base \in 0 .. 3 * MaxStream
      BY Numbers
    <3> QED
      BY <3>1, LoadedFacts, CommandsFacts
  <2>11. k <= rdb_left
    BY <1>3, <1>4
  <2>12. PICK e \in Seq(Commands) : e = Entries(k) /\ Loaded(base, DoneAfter(k)) = l \o e
                                    /\ (rdb_left = 0 => e = <<>>)
    BY <2>10, <2>11, EntriesFacts, CommandsFacts
  <2>13. st = l \o h
    <3>1. batch = <<>> /\ st \o <<>> = st
      BY <1>4, ConcatEmptySeq DEF RInv, ProjInv, BufferOnlyInTransaction
    <3>2. Consistent(stream, (s \o t) \o batch, base, Done, unparsed, current_db, replication_offset)
      BY <1>4, <2>5 DEF RInv, Pipeline
    <3>3. (s \o t) \o batch = Loaded(base, Done) \o Held(stream, a, c)
      BY <2>1, <3>2 DEF Consistent, Before, Consumed
    <3> QED
      BY <2>6, <2>8, <2>10, <3>1, <3>3
  <2>14. e = <<>> \/ h = <<>>
    <3>1. CASE rdb_left = 0
      BY <2>12, <3>1
    <3>2. CASE rdb_left # 0
      <4>1. rdb_left > 0
        BY <1>3, <3>2
      <4>2. unparsed = base + 1
        BY <4>1 DEF RInv, LinkOK
      <4>3. base = 3 * a
        BY <2>1, Numbers
      <4>4. c = a
        BY <2>1, <4>2, <4>3 DEF Consumed
      <4> QED
        BY <2>7, <2>8, <4>4, HeldFacts
    <3> QED
      BY <3>1, <3>2
  <2>15. (l \o h) \o (e \o r) = (l \o e) \o (h \o r)
    <3>1. Shuffles(l, h, e, r)
      BY <2>14, Shuffle
    <3> QED
      BY <3>1 DEF Shuffles
  <2>16. Held(stream, a, q) = h \o r
    <3>1. Splits(stream, a, c, q)
      BY <2>1, <2>7, HeldConcat
    <3> QED
      BY <2>8, <2>9, <3>1 DEF Splits
  <2>17. (storages[Target] \o tx_buffer) \o (Entries(k) \o Parsed(b))
            = Loaded(base, Done') \o Held(stream, a, q)
    BY <2>2, <2>4, <2>5, <2>6, <2>9, <2>12, <2>13, <2>15, <2>16
  <2>18. unparsed' % 3 \in {0, 1} /\ unparsed' % 3 # 0
    BY <2>3
  <2>19. current_db' = IF unparsed' \div 3 = base \div 3 THEN 0 ELSE stream[unparsed' \div 3].db
    BY <2>2, <2>3
  <2>20. base \div 3 <= unparsed' \div 3
    BY <2>3, <2>7
  <2> QED
    BY <2>3, <2>17, <2>18, <2>19, <2>20 DEF Consistent
<1> QED
  BY <1>2, <1>7, <1>8, <1>9, <1>10, <1>11, <1>12, <1>13 DEF RInv

----------------------------------------------------------------------------
(* The theorems *)

\* Nothing happens: the invariant stays.
LEMMA StutterStep ==
    ASSUME RInv, UNCHANGED vars
    PROVE  RInv'
<1>1. /\ UNCHANGED projVars
      /\ UNCHANGED <<stream, selected_db, linkVars, idVars, drops, dirty>>
  BY DEF vars
<1>2. ProjInv' /\ ProjTypeOK'
  BY <1>1, ProjSame DEF RInv, ProjInv
<1>3. /\ Target' = Target /\ Visible' = Visible /\ Done' = Done /\ Before' = Before
      /\ MasterOffset' = MasterOffset
  BY <1>1 DEF Target, Visible, Done, Before, MasterOffset, projVars, linkVars
<1>4. TypeOK'
  BY <1>1, <1>2 DEF RInv, TypeOK, linkVars, idVars
<1>5. StreamOK' /\ OffsetTracksStream'
  BY <1>1, <1>3 DEF RInv, StreamOK, OffsetTracksStream, linkVars, idVars
<1>6. LinkOK'
  BY <1>1, <1>3 DEF RInv, LinkOK, linkVars, idVars, projVars
<1>7. Unsynced' /\ BufferOK(tx_buffer, in_transaction)'
  BY <1>1 DEF RInv, Unsynced, BufferOK, idVars, projVars
<1>8. Pipeline'
  BY <1>1, <1>3 DEF RInv, Pipeline, linkVars, idVars, projVars
<1>9. TargetClosed' /\ HandleExact'
  BY <1>1, <1>3 DEF RInv, TargetClosed, HandleExact, projVars
<1> QED
  BY <1>2, <1>4, <1>5, <1>6, <1>7, <1>8, <1>9 DEF RInv

\* The invariant of the replication path: master, link, parser and projection,
\* taken together, are in step (Replica.handle_replication_data, the PSYNC
\* replies, disconnects and the callbacks of Vdr.TSProj).
THEOREM ReplicationInductive == Spec => []RInv
<1>1. Init => RInv
  BY InitRInv
<1>2. RInv /\ [Next]_vars => RInv'
  <2> SUFFICES ASSUME RInv, [Next]_vars PROVE RInv'
    OBVIOUS
  <2>1. ASSUME NEW db \in Dbs, MasterWrites(db) \/ MasterTransaction(db)
        PROVE  RInv'
    BY <2>1, MasterStep
  <2>2. CASE Fullresync
    BY <2>2, FullresyncStep
  <2>3. CASE Continue
    BY <2>3, ContinueStep
  <2>4. CASE Receive
    <3>1. PICK k \in 0 .. RdbEntries + 1, b \in next - 1 .. MasterOffset :
             HandleReplicationData(k, b) \/ ParseFailed(k, b)
      BY <2>4 DEF Receive
    <3>2. CASE HandleReplicationData(k, b)
      BY <3>2, DataStep
    <3>3. CASE ParseFailed(k, b)
      <4>1. connected /\ HandleDisconnect /\ drops' = drops
        BY <3>3 DEF ParseFailed, IsChunk
      <4>2. drops' \in Nat
        BY <4>1 DEF RInv, TypeOK
      <4> QED
        BY <4>1, <4>2, DisconnectStep
    <3> QED
      BY <3>1, <3>2, <3>3
  <2>5. CASE ConnectionLost
    <3>1. connected /\ HandleDisconnect /\ drops' = drops + 1
      BY <2>5 DEF ConnectionLost
    <3>2. drops' \in Nat
      BY <3>1 DEF RInv, TypeOK
    <3> QED
      BY <3>1, <3>2, DisconnectStep
  <2>6. CASE Callback
    BY <2>6, CallbackSteps
  <2>7. CASE UNCHANGED vars
    BY <2>7, StutterStep
  <2> QED
    BY <2>1, <2>2, <2>3, <2>4, <2>5, <2>6, <2>7 DEF Next
<1> QED
  BY <1>1, <1>2, PTL DEF Spec

\* Type correctness of the whole path.
THEOREM ReplicationTypeCorrect == Spec => []TypeOK
<1>1. RInv => TypeOK
  BY DEF RInv
<1> QED
  BY <1>1, ReplicationInductive, PTL

\* The offset that the replica acknowledges, saves at a disconnect and asks to
\* resume from never runs more than one byte ahead of what it received.
THEOREM OffsetTracksStreamAlways == Spec => []OffsetTracksStream
<1>1. RInv => OffsetTracksStream
  BY DEF RInv
<1> QED
  BY <1>1, ReplicationInductive, PTL

\* A history as the property states it.
LEMMA HistoryIs ==
    ASSUME NEW i \in Nat, NEW q \in Nat
    PROVE  History(3 * i, q) = Loaded(3 * i, RdbEntries) \o Held(stream, i, q)
<1>1. (3 * i) \div 3 = i
  OBVIOUS
<1>2. PICK j \in Nat : j = (3 * i) \div 3 /\ j = i
  BY <1>1
<1>3. [n \in 1 .. (q - j) |-> Command(j + n, stream[j + n].db)] = Segment(stream, j, q)
  BY DEF Command, Segment
<1> QED
  BY <1>2, <1>3 DEF History, Loaded, Held

\* Readers of a storage that no CONTINUE resumed in the wrong place see the
\* master's data: one snapshot and then commands of the stream, each once, in
\* order and in its database, and between chunks the whole snapshot.
THEOREM VisibleExactAlways == Spec => []VisibleExact
<1>1. RInv => VisibleExact
  <2> SUFFICES ASSUME RInv, handle.ready, handle.storage \notin dirty
               PROVE  \E o \in Bases : /\ IsPrefixOf(Visible, History(o, Len(stream)))
                                       /\ pc = "idle" => Len(Visible) >= RdbEntries
    BY DEF VisibleExact
  <2>1. ASSUME NEW i \in 0..Len(stream),
               IsPrefixOf(Visible, Loaded(3 * i, RdbEntries) \o Held(stream, i, Len(stream))),
               pc = "idle" => Len(Visible) >= RdbEntries
        PROVE  \E o \in Bases : /\ IsPrefixOf(Visible, History(o, Len(stream)))
                                /\ pc = "idle" => Len(Visible) >= RdbEntries
    <3>1. i \in Nat /\ Len(stream) \in Nat
      BY Numbers
    <3>2. IsPrefixOf(Visible, History(3 * i, Len(stream)))
      BY <2>1, <3>1, HistoryIs
    <3>3. 3 * i \in Bases
      BY DEF Bases
    <3> QED
      BY <2>1, <3>2, <3>3
  <2>2. CASE handle.storage # Target
    <3>1. Exact(Visible, stream)
      BY <2>2 DEF RInv, HandleExact
    <3>2. PICK i \in 0..Len(stream) :
             /\ IsPrefixOf(Visible, Loaded(3 * i, RdbEntries) \o Held(stream, i, Len(stream)))
             /\ Len(Visible) >= RdbEntries
      BY <3>1 DEF Exact
    <3> QED
      BY <2>1, <3>2
  <2>3. CASE handle.storage = Target
    <3>1. replication_id
      BY DEF RInv, Unsynced
    <3>2. new_ts_storage = Nil
      BY <2>3 DEF RInv, ProjInv, LoadsApart, Target
    <3>3. pc = "idle" => batch = <<>> /\ (tx_buffer # <<>> => in_transaction)
      BY DEF RInv, ProjInv, BufferOnlyInTransaction
    <3>4. /\ IsPrefixOf(Visible, Loaded(3 * Before, RdbEntries) \o Held(stream, Before, Len(stream)))
          /\ pc = "idle" => Len(Visible) >= RdbEntries
      BY <2>3, <3>1, <3>2, <3>3, TargetPrefix DEF Visible
    <3>5. Before \in 0..Len(stream)
      BY Numbers
    <3> QED
      BY <2>1, <3>4, <3>5
  <2> QED
    BY <2>2, <2>3
<1> QED
  BY <1>1, ReplicationInductive, PTL

\* Readers of such a storage never see a part of a transaction, at any moment.
THEOREM TxAtomicAlways == Spec => []TxAtomic
<1>1. RInv => TxAtomic
  <2> SUFFICES ASSUME RInv, handle.storage \notin dirty
               PROVE  TxClosed(Visible)
    BY DEF TxAtomic, TxClosed
  <2>1. CASE handle.storage # Target
    BY <2>1 DEF RInv, HandleExact
  <2>2. CASE handle.storage = Target
    BY <2>2 DEF RInv, TargetClosed, Visible
  <2> QED
    BY <2>1, <2>2
<1> QED
  BY <1>1, ReplicationInductive, PTL
=============================================================================
