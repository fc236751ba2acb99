--------------------------- MODULE StorageProofs ---------------------------
(***************************************************************************)
(* Proofs about the storage and its reads, for every set of keys,          *)
(* databases and commands and every size.                                  *)
(*                                                                         *)
(* The inductive invariant is MapOK: every value has one type, is of the   *)
(* right shape, finite and not empty, and the two halves of a sorted set   *)
(* agree.  Most commands are built from putting and dropping keys, so that *)
(* part is about what may be put; `Outcome` is what every command makes of *)
(* one database.  Everything else follows from MapOK state by state (or,   *)
(* for the scans, from MapOK before and after a step): what removals and   *)
(* moves leave, that reads agree with each other, with the STORE commands  *)
(* and with scripts, that scans survive commands.  Those proofs rest on    *)
(* the order: Ascending and Ordered are the only listings of a finite set, *)
(* and an element stands at its rank (the first three sections).           *)
(***************************************************************************)
EXTENDS Reads, MailboxLemmas, SequenceTheorems, FiniteSetTheorems, FunctionTheorems

-----------------------------------------------------------------------------
(* Finite orders. *)

\* A finite set with a strict total order, given by what lies below each element.
Chain(S, below) ==
    /\ IsFiniteSet(S) /\ below \in [S -> SUBSET S]
    /\ \A x \in S : x \notin below[x]
    /\ \A x \in S : \A y \in below[x] : below[y] \subseteq below[x]
    /\ \A x, y \in S : x = y \/ x \in below[y] \/ y \in below[x]

\* The elements in that order.
Listing(S, below) ==
    [i \in 1 .. Cardinality(S) |-> CHOOSE x \in S : Cardinality(below[x]) = i - 1]

\* In a chain the ranks are the numbers from 0 to the size, each of one element.
LEMMA ChainRanks ==
    ASSUME NEW S, NEW below, Chain(S, below)
    PROVE  /\ Cardinality(S) \in Nat
           /\ \A x \in S : Cardinality(below[x]) \in 0 .. Cardinality(S) - 1
           /\ \A x, y \in S : y \in below[x] <=> Cardinality(below[y]) < Cardinality(below[x])
           /\ \A i \in 0 .. Cardinality(S) - 1 : \E x \in S : Cardinality(below[x]) = i
<1>1. PICK n \in Nat : n = Cardinality(S)
  BY FS_CardinalityType DEF Chain
<1>2. \A x \in S : /\ below[x] \in SUBSET S /\ IsFiniteSet(below[x])
                   /\ Cardinality(below[x]) \in Nat
  BY FS_Subset, FS_CardinalityType DEF Chain
<1>3. ASSUME NEW x \in S PROVE Cardinality(below[x]) \in 0 .. n - 1
  <2>1. below[x] \in SUBSET S /\ below[x] # S
    BY DEF Chain
  <2>2. Cardinality(below[x]) <= n /\ (n = Cardinality(below[x]) => S = below[x])
    BY <1>1, <2>1, FS_Subset DEF Chain
  <2> QED
    BY <1>2, <2>1, <2>2
<1>4. ASSUME NEW x \in S, NEW y \in below[x]
      PROVE  y \in S /\ Cardinality(below[y]) < Cardinality(below[x])
  <2>1. y \in S /\ below[y] \subseteq below[x] /\ y \notin below[y]
    BY DEF Chain
  <2>2. below[y] \in SUBSET below[x] /\ below[y] # below[x]
    BY <2>1
  <2>3. /\ Cardinality(below[y]) <= Cardinality(below[x])
        /\ Cardinality(below[x]) = Cardinality(below[y]) => below[x] = below[y]
    BY <1>2, <2>2, FS_Subset
  <2> QED
    BY <1>2, <2>1, <2>2, <2>3
<1>5. ASSUME NEW x \in S, NEW y \in S, Cardinality(below[y]) < Cardinality(below[x])
      PROVE  y \in below[x]
  <2>1. CASE x = y
    BY <1>2, <1>5, <2>1
  <2>2. CASE x \in below[y]
    BY <1>2, <1>4, <1>5, <2>2
  <2> QED
    BY <2>1, <2>2 DEF Chain
<1>6. PICK r : r = [x \in S |-> Cardinality(below[x])]
  OBVIOUS
<1>7. r \in Injection(S, 0 .. n - 1)
  <2>1. r \in [S -> 0 .. n - 1]
    BY <1>3, <1>6
  <2>2. ASSUME NEW x \in S, NEW y \in S, r[x] = r[y] PROVE x = y
    <3>1. Cardinality(below[x]) = Cardinality(below[y])
      BY <1>6, <2>2
    <3> QED
      BY <1>2, <1>4, <3>1 DEF Chain
  <2> QED
    BY <2>1, <2>2 DEF Injection, IsInjective
<1>8. IsFiniteSet(0 .. n - 1) /\ Cardinality(0 .. n - 1) = n
  BY FS_Interval
<1>9. r \in Surjection(S, 0 .. n - 1)
  BY <1>1, <1>7, <1>8, FS_Injection
<1>10. \A i \in 0 .. n - 1 : \E x \in S : Cardinality(below[x]) = i
  BY <1>6, <1>9 DEF Surjection
<1> QED
  BY <1>1, <1>3, <1>4, <1>5, <1>10

\* A listing is in order, and complete.
InOrder(l, S, below) ==
    /\ l \in Seq(S)
    /\ \A i, j \in DOMAIN l : i < j => l[i] \in below[l[j]]
    /\ \A x \in S : \E i \in DOMAIN l : l[i] = x

\* The listing is in order and complete, and an element stands at its rank.
LEMMA ListingFacts ==
    ASSUME NEW S, NEW below, Chain(S, below)
    PROVE  /\ InOrder(Listing(S, below), S, below)
           /\ Len(Listing(S, below)) = Cardinality(S)
           /\ \A i \in 1 .. Cardinality(S) : Cardinality(below[Listing(S, below)[i]]) = i - 1
<1>1. PICK n \in Nat : n = Cardinality(S)
  BY ChainRanks
<1>2. PICK l : l = Listing(S, below)
  OBVIOUS
<1>3. ASSUME NEW i \in 1 .. n PROVE l[i] \in S /\ Cardinality(below[l[i]]) = i - 1
  <2>1. PICK x \in S : Cardinality(below[x]) = i - 1
    <3>1. i - 1 \in 0 .. n - 1
      BY <1>1
    <3> QED
      BY <1>1, <3>1, ChainRanks
  <2>2. l[i] = CHOOSE y \in S : Cardinality(below[y]) = i - 1
    BY <1>1, <1>2 DEF Listing
  <2> QED
    BY <2>1, <2>2
<1>4. l = [i \in 1 .. n |-> l[i]]
  BY <1>1, <1>2 DEF Listing
<1>5. l \in Seq(S) /\ Len(l) = n /\ DOMAIN l = 1 .. n
  <2>1. l \in [1 .. n -> S]
    BY <1>3, <1>4
  <2> QED
    BY <2>1
<1>6. ASSUME NEW i \in 1 .. n, NEW j \in 1 .. n, i < j PROVE l[i] \in below[l[j]]
  <2>1. Cardinality(below[l[i]]) < Cardinality(below[l[j]])
    BY <1>3, <1>6
  <2> QED
    BY <1>3, <2>1, ChainRanks
<1>7. ASSUME NEW x \in S PROVE \E i \in 1 .. n : l[i] = x
  <2>1. PICK k \in 0 .. n - 1 : k = Cardinality(below[x])
    BY <1>1, ChainRanks
  <2>2. k + 1 \in 1 .. n
    OBVIOUS
  <2>3. l[k + 1] \in S /\ Cardinality(below[l[k + 1]]) = k
    BY <1>3, <2>2
  <2>4. l[k + 1] = x
    <3>1. ~(l[k + 1] \in below[x]) /\ ~(x \in below[l[k + 1]])
      BY <2>1, <2>3, ChainRanks
    <3> QED
      BY <2>3, <3>1 DEF Chain
  <2> QED
    BY <2>2, <2>4
<1> QED
  BY <1>1, <1>2, <1>3, <1>5, <1>6, <1>7 DEF InOrder

\* There is one listing only.
LEMMA OneListing ==
    ASSUME NEW S, NEW below, Chain(S, below), NEW l, InOrder(l, S, below)
    PROVE  l = Listing(S, below)
<1>1. PICK n \in Nat : n = Len(l) /\ DOMAIN l = 1 .. n /\ l \in Seq(S)
  BY DEF InOrder
<1>2. ASSUME NEW i \in 1 .. n
      PROVE  Cardinality(below[l[i]]) = i - 1
  <2>1. PICK B : B = below[l[i]] /\ B \subseteq S
    BY <1>1 DEF Chain
  <2>2. PICK f : f = [k \in 1 .. i - 1 |-> l[k]]
    OBVIOUS
  <2>3. \A k \in 1 .. i - 1 : k \in 1 .. n /\ k < i
    OBVIOUS
  <2>4. \A k \in 1 .. i - 1 : f[k] \in B
    BY <1>1, <2>1, <2>2, <2>3 DEF InOrder
  <2>5. ASSUME NEW x \in B PROVE \E k \in 1 .. i - 1 : f[k] = x
    <3>1. PICK k \in 1 .. n : l[k] = x
      BY <1>1, <2>1 DEF InOrder
    <3>2. k # i
      BY <1>1, <2>1, <3>1 DEF Chain
    <3>3. ~(k > i)
      <4>1. SUFFICES ASSUME i < k PROVE FALSE
        OBVIOUS
      <4>2. l[i] \in below[l[k]] /\ l[k] \in below[l[i]] /\ l[i] \in S /\ l[k] \in S
        BY <1>1, <2>1, <3>1, <4>1 DEF InOrder
      <4> QED
        BY <4>2 DEF Chain
    <3> QED
      BY <2>2, <3>1, <3>2, <3>3
  <2>6. ASSUME NEW j \in 1 .. i - 1, NEW k \in 1 .. i - 1, f[j] = f[k] PROVE j = k
    <3>1. ASSUME NEW a \in 1 .. n, NEW b \in 1 .. n, a < b PROVE l[a] # l[b]
      <4>1. l[a] \in below[l[b]] /\ l[b] \in S
        BY <1>1, <3>1 DEF InOrder
      <4> QED
        BY <4>1 DEF Chain
    <3>2. l[j] = l[k]
      BY <2>2, <2>6
    <3> QED
      BY <2>3, <3>1, <3>2
  <2>7. f \in Bijection(1 .. i - 1, B)
    <3>1. f \in [1 .. i - 1 -> B]
      BY <2>2, <2>4
    <3>2. f \in Injection(1 .. i - 1, B)
      BY <2>6, <3>1 DEF Injection, IsInjective
    <3>3. f \in Surjection(1 .. i - 1, B)
      BY <2>5, <3>1 DEF Surjection
    <3> QED
      BY <3>2, <3>3 DEF Bijection
  <2>8. Cardinality(B) = i - 1
    <3>1. i - 1 \in Nat
      OBVIOUS
    <3>2. ExistsBijection(1 .. i - 1, B)
      BY <2>7 DEF ExistsBijection
    <3> QED
      BY <3>1, <3>2, FS_CountingElements
  <2> QED
    BY <2>1, <2>8
<1>3. PICK m \in Nat : m = Cardinality(S)
  BY ChainRanks
<1>4. PICK k : /\ k = Listing(S, below) /\ InOrder(k, S, below)
               /\ Len(k) = m /\ DOMAIN k = 1 .. m /\ k \in Seq(S)
               /\ \A i \in 1 .. m : Cardinality(below[k[i]]) = i - 1
  <2>1. PICK k : k = Listing(S, below)
    OBVIOUS
  <2>2. InOrder(k, S, below) /\ Len(k) = m /\ \A i \in 1 .. m : Cardinality(below[k[i]]) = i - 1
    BY <1>3, <2>1, ListingFacts
  <2>3. k \in Seq(S) /\ DOMAIN k = 1 .. m
    BY <2>2 DEF InOrder
  <2> QED
    BY <2>1, <2>2, <2>3
<1>5. ASSUME NEW x \in S, NEW y \in S, Cardinality(below[x]) = Cardinality(below[y]) PROVE x = y
  <2>1. Cardinality(below[x]) \in Nat /\ Cardinality(below[y]) \in Nat
    BY <1>3, ChainRanks
  <2>2. ~(x \in below[y]) /\ ~(y \in below[x])
    BY <1>5, <2>1, ChainRanks
  <2> QED
    BY <2>2 DEF Chain
<1>6. n = m
  <2>1. ~(n < m)
    <3>1. SUFFICES ASSUME n < m PROVE FALSE
      OBVIOUS
    <3>2. n + 1 \in 1 .. m /\ k[n + 1] \in S
      BY <1>4, <3>1
    <3>3. PICK i \in 1 .. n : l[i] = k[n + 1]
      BY <1>1, <3>2 DEF InOrder
    <3>4. i - 1 = n + 1 - 1
      BY <1>2, <1>4, <3>2, <3>3
    <3> QED
      BY <3>4
  <2>2. ~(m < n)
    <3>1. SUFFICES ASSUME m < n PROVE FALSE
      OBVIOUS
    <3>2. m + 1 \in 1 .. n /\ l[m + 1] \in S
      BY <1>1, <3>1
    <3>3. Cardinality(below[l[m + 1]]) = m + 1 - 1
      BY <1>2, <3>2
    <3> QED
      BY <1>3, <3>2, <3>3, ChainRanks
  <2> QED
    BY <2>1, <2>2
<1>7. ASSUME NEW i \in 1 .. n PROVE l[i] = k[i]
  <2>1. l[i] \in S /\ k[i] \in S
    BY <1>1, <1>4, <1>6
  <2> QED
    BY <1>2, <1>4, <1>5, <1>6, <2>1
<1> QED
  BY <1>1, <1>4, <1>6, <1>7, SeqEqual

\* A function on the numbers up to n is a sequence.
LEMMA FunctionSeq ==
    ASSUME NEW S, NEW n \in Nat, NEW l \in [1 .. n -> S]
    PROVE  l \in Seq(S) /\ Len(l) = n /\ DOMAIN l = 1 .. n
  OBVIOUS

\* A sequence whose i-th element has the rank i - 1 is the listing.
LEMMA RanksList ==
    ASSUME NEW S, NEW below, Chain(S, below), NEW l, l = [i \in 1 .. Cardinality(S) |-> l[i]],
           \A i \in 1 .. Cardinality(S) : l[i] \in S /\ Cardinality(below[l[i]]) = i - 1
    PROVE  l = Listing(S, below)
<1>1. PICK n \in Nat : n = Cardinality(S)
  BY ChainRanks
<1>2. PICK k : k = Listing(S, below)
  OBVIOUS
<1>3. InOrder(k, S, below) /\ Len(k) = n /\ \A i \in 1 .. n : Cardinality(below[k[i]]) = i - 1
  BY <1>1, <1>2, ListingFacts
<1>4. k \in Seq(S) /\ DOMAIN k = 1 .. n
  BY <1>3 DEF InOrder
<1>5. ASSUME NEW i \in 1 .. n PROVE l[i] = k[i]
  <2>1. l[i] \in S /\ k[i] \in S /\ Cardinality(below[l[i]]) = i - 1 /\ Cardinality(below[k[i]]) = i - 1
    BY <1>1, <1>3, <1>4
  <2>2. ~(l[i] \in below[k[i]]) /\ ~(k[i] \in below[l[i]])
    BY <2>1, ChainRanks
  <2> QED
    BY <2>1, <2>2 DEF Chain
<1>6. l \in Seq(S) /\ Len(l) = n
  <2>1. l \in [1 .. n -> S]
    BY <1>1
  <2> QED
    BY <2>1, FunctionSeq
<1> QED
  BY <1>2, <1>3, <1>4, <1>5, <1>6, SeqEqual

-----------------------------------------------------------------------------
(* Numbers in ascending order. *)

\* What lies below each number.
SmallerIn(S) == [x \in S |-> {y \in S : y < x}]

\* The numbers of S, each once, in ascending order.
Sorts(l, S) ==
    /\ l \in Seq(S)
    /\ \A i, j \in DOMAIN l : i < j => l[i] < l[j]
    /\ \A x \in S : \E i \in DOMAIN l : l[i] = x

\* Ascending is the listing of the chain of numbers.
LEMMA NumbersListing ==
    ASSUME NEW S, Chain(S, SmallerIn(S))
    PROVE  Ascending(S) = Listing(S, SmallerIn(S))
<1>1. PICK below : below = SmallerIn(S)
  OBVIOUS
<1>2. Chain(S, below)
  BY <1>1
<1>3. Ascending(S) = Listing(S, below)
  <2>1. PICK n \in Nat : n = Cardinality(S)
    BY <1>2, ChainRanks
  <2>2. PICK a : a = Ascending(S)
    OBVIOUS
  <2>3. a = [i \in 1 .. n |-> a[i]]
    BY <2>1, <2>2 DEF Ascending
  <2>4. ASSUME NEW i \in 1 .. n PROVE a[i] \in S /\ Cardinality(below[a[i]]) = i - 1
    <3>1. a[i] = CHOOSE x \in S : Below(S, x) = i - 1
      BY <2>1, <2>2 DEF Ascending
    <3>2. i - 1 \in 0 .. n - 1
      OBVIOUS
    <3>3. PICK x \in S : Cardinality(below[x]) = i - 1
      <4>1. \A j \in 0 .. Cardinality(S) - 1 : \E x \in S : Cardinality(below[x]) = j
        BY <1>2, ChainRanks
      <4> QED
        BY <2>1, <3>2, <4>1
    <3>4. Below(S, x) = i - 1
      BY <1>1, <3>3 DEF SmallerIn, Below
    <3>5. a[i] \in S /\ Below(S, a[i]) = i - 1
      BY <3>1, <3>4
    <3> QED
      BY <1>1, <3>5 DEF SmallerIn, Below
  <2> QED
    BY <1>2, <2>1, <2>2, <2>3, <2>4, RanksList
<1> QED
  BY <1>1, <1>3

\* A finite set of numbers is a chain.
LEMMA NumbersChain ==
    ASSUME NEW S, S \subseteq Int, IsFiniteSet(S)
    PROVE  /\ Chain(S, SmallerIn(S))
           /\ \A l : Sorts(l, S) <=> InOrder(l, S, SmallerIn(S))
           /\ Ascending(S) = Listing(S, SmallerIn(S))
<1>1. PICK below : below = SmallerIn(S)
  OBVIOUS
<1>2. /\ below \in [S -> SUBSET S]
      /\ \A x \in S : below[x] = {y \in S : y < x}
      /\ \A x, y \in S : y \in below[x] <=> y < x
  BY <1>1 DEF SmallerIn
<1>3. /\ \A x \in S : x \notin below[x]
      /\ \A x \in S : \A y \in below[x] : below[y] \subseteq below[x]
      /\ \A x, y \in S : x = y \/ x \in below[y] \/ y \in below[x]
  <2>1. \A x, y, z \in S : ~(x < x) /\ (x < y /\ y < z => x < z) /\ (x = y \/ x < y \/ y < x)
    OBVIOUS
  <2> QED
    BY <1>2, <2>1
<1>4. Chain(S, below)
  BY <1>2, <1>3 DEF Chain
<1>5. ASSUME NEW l PROVE Sorts(l, S) <=> InOrder(l, S, below)
  <2>1. ASSUME l \in Seq(S), NEW i \in DOMAIN l, NEW j \in DOMAIN l
        PROVE  l[i] < l[j] <=> l[i] \in below[l[j]]
    <3>1. l[i] \in S /\ l[j] \in S
      BY <2>1
    <3> QED
      BY <1>2, <3>1
  <2> QED
    BY <2>1 DEF Sorts, InOrder
<1>6. Ascending(S) = Listing(S, below)
  BY <1>1, <1>4, NumbersListing
<1> QED
  BY <1>1, <1>4, <1>5, <1>6

\* Ascending lists a finite set of numbers, and nothing else does.
LEMMA AscendingSorts ==
    ASSUME NEW S, S \subseteq Int, IsFiniteSet(S)
    PROVE  /\ Cardinality(S) \in Nat
           /\ Ascending(S) \in Seq(S) /\ Len(Ascending(S)) = Cardinality(S)
           /\ DOMAIN Ascending(S) = 1 .. Cardinality(S)
           /\ Sorts(Ascending(S), S)
           /\ \A l : Sorts(l, S) => l = Ascending(S)
<1>1. PICK below : below = SmallerIn(S)
  OBVIOUS
<1>2. Chain(S, below) /\ Ascending(S) = Listing(S, below)
  BY <1>1, NumbersChain
<1>3. \A l : Sorts(l, S) <=> InOrder(l, S, below)
  BY <1>1, NumbersChain
<1>4. Sorts(Ascending(S), S) /\ Len(Ascending(S)) = Cardinality(S)
  BY <1>2, <1>3, ListingFacts
<1>5. \A l : Sorts(l, S) => l = Ascending(S)
  BY <1>2, <1>3, OneListing
<1>6. Ascending(S) \in Seq(S)
  BY <1>4 DEF Sorts
<1> QED
  BY <1>4, <1>5, <1>6, FS_CardinalityType

-----------------------------------------------------------------------------
(* Pairs in the order of the index. *)

\* What lies before each pair.
BeforeIn(P) == [p \in P |-> {q \in P : IndexLess(q, p)}]

\* The pairs of P, each once, in the order of the index.
SortsPairs(l, P) ==
    /\ l \in Seq(P)
    /\ \A i, j \in DOMAIN l : i < j => IndexLess(l[i], l[j])
    /\ \A p \in P : \E i \in DOMAIN l : l[i] = p

\* A set of pairs of a score and a member.
PairSet(P) == IsFiniteSet(P) /\ \A p \in P : p = <<p[1], p[2]>> /\ p[1] \in Int /\ p[2] \in Int

\* A finite set of pairs is a chain, and Ordered is its listing.
LEMMA PairsChain ==
    ASSUME NEW P, PairSet(P)
    PROVE  /\ Chain(P, BeforeIn(P))
           /\ \A l : SortsPairs(l, P) <=> InOrder(l, P, BeforeIn(P))
           /\ \A p \in P : BeforeIn(P)[p] = {q \in P : IndexLess(q, p)}
           /\ \A p \in P : Cardinality(BeforeIn(P)[p]) = Rank(P, p)
           /\ Ordered(P) = Listing(P, BeforeIn(P))
<1>1. PICK below : below = BeforeIn(P)
  OBVIOUS
<1>2. /\ below \in [P -> SUBSET P]
      /\ \A p \in P : below[p] = {q \in P : IndexLess(q, p)}
      /\ \A p, q \in P : q \in below[p] <=> IndexLess(q, p)
  BY <1>1 DEF BeforeIn
<1>3. \A p \in P : p = <<p[1], p[2]>> /\ p[1] \in Int /\ p[2] \in Int
  BY DEF PairSet
<1>4. \A p \in P : ~IndexLess(p, p)
  BY <1>3 DEF IndexLess
<1>5. \A p, q, r \in P : IndexLess(r, q) /\ IndexLess(q, p) => IndexLess(r, p)
  BY <1>3 DEF IndexLess
<1>6. \A p, q \in P : p = q \/ IndexLess(p, q) \/ IndexLess(q, p)
  BY <1>3 DEF IndexLess
<1>7. Chain(P, below)
  <2>1. \A p \in P : p \notin below[p]
    BY <1>2, <1>4
  <2>2. ASSUME NEW p \in P, NEW q \in below[p], NEW r \in below[q] PROVE r \in below[p]
    <3>1. q \in P /\ r \in P
      BY <1>2
    <3> QED
      BY <1>2, <1>5, <3>1
  <2>3. \A p, q \in P : p = q \/ p \in below[q] \/ q \in below[p]
    BY <1>2, <1>6
  <2> QED
    BY <1>2, <2>1, <2>2, <2>3 DEF Chain, PairSet
<1>8. ASSUME NEW l PROVE SortsPairs(l, P) <=> InOrder(l, P, below)
  <2>1. ASSUME l \in Seq(P), NEW i \in DOMAIN l, NEW j \in DOMAIN l
        PROVE  IndexLess(l[i], l[j]) <=> l[i] \in below[l[j]]
    <3>1. l[i] \in P /\ l[j] \in P
      BY <2>1
    <3> QED
      BY <1>2, <3>1
  <2> QED
    BY <2>1 DEF SortsPairs, InOrder
<1>9. \A p \in P : Cardinality(below[p]) = Rank(P, p)
  BY <1>2 DEF Rank
<1>10. Ordered(P) = Listing(P, below)
  <2>1. PICK n \in Nat : n = Cardinality(P)
    BY <1>7, ChainRanks
  <2>2. PICK a : a = Ordered(P)
    OBVIOUS
  <2>3. a = [i \in 1 .. n |-> a[i]]
    BY <2>1, <2>2 DEF Ordered
  <2>4. ASSUME NEW i \in 1 .. n PROVE a[i] \in P /\ Cardinality(below[a[i]]) = i - 1
    <3>1. a[i] = CHOOSE p \in P : Rank(P, p) = i - 1
      BY <2>1, <2>2 DEF Ordered
    <3>2. i - 1 \in 0 .. n - 1
      OBVIOUS
    <3>3. PICK p \in P : Cardinality(below[p]) = i - 1
      BY <1>7, <2>1, <3>2, ChainRanks
    <3>4. Rank(P, p) = i - 1
      BY <1>9, <3>3
    <3>5. a[i] \in P /\ Rank(P, a[i]) = i - 1
      BY <3>1, <3>4
    <3> QED
      BY <1>9, <3>5
  <2> QED
    BY <1>7, <2>1, <2>2, <2>3, <2>4, RanksList
<1> QED
  BY <1>1, <1>2, <1>7, <1>8, <1>9, <1>10

\* Ordered lists a finite set of pairs, and nothing else does; a pair stands at
\* its rank.
LEMMA OrderedSorts ==
    ASSUME NEW P, PairSet(P)
    PROVE  /\ Cardinality(P) \in Nat
           /\ Ordered(P) \in Seq(P) /\ Len(Ordered(P)) = Cardinality(P)
           /\ DOMAIN Ordered(P) = 1 .. Cardinality(P)
           /\ SortsPairs(Ordered(P), P)
           /\ \A l : SortsPairs(l, P) => l = Ordered(P)
           /\ \A i \in 1 .. Cardinality(P) : Ordered(P)[i] \in P /\ Rank(P, Ordered(P)[i]) = i - 1
           /\ \A p \in P : /\ Rank(P, p) \in 0 .. Cardinality(P) - 1
                           /\ Ordered(P)[Rank(P, p) + 1] = p
<1>1. PICK below : below = BeforeIn(P)
  OBVIOUS
<1>2. Chain(P, below) /\ Ordered(P) = Listing(P, below)
  BY <1>1, PairsChain
<1>3. \A l : SortsPairs(l, P) <=> InOrder(l, P, below)
  BY <1>1, PairsChain
<1>4. \A p \in P : Cardinality(below[p]) = Rank(P, p)
  BY <1>1, PairsChain
<1>5. Cardinality(P) \in Nat
  BY <1>2, ChainRanks
<1> DEFINE n == Cardinality(P)
           a == Ordered(P)
<1> HIDE DEF n, a
<1>6. /\ SortsPairs(a, P) /\ Len(a) = n
      /\ \A i \in 1 .. n : Cardinality(below[a[i]]) = i - 1
  BY <1>2, <1>3, <1>5, ListingFacts DEF n, a
<1>7. \A l : SortsPairs(l, P) => l = a
  BY <1>2, <1>3, <1>5, OneListing DEF a
<1>8. a \in Seq(P) /\ DOMAIN a = 1 .. n
  BY <1>5, <1>6 DEF SortsPairs, n
<1>9. \A i \in 1 .. n : a[i] \in P /\ Rank(P, a[i]) = i - 1
  BY <1>4, <1>6, <1>8
<1>10. ASSUME NEW p \in P PROVE Rank(P, p) \in 0 .. n - 1 /\ a[Rank(P, p) + 1] = p
  <2>1. PICK i \in 1 .. n : a[i] = p
    BY <1>6, <1>8 DEF SortsPairs
  <2>2. Rank(P, p) = i - 1
    BY <1>9, <2>1
  <2>3. n \in Nat /\ i - 1 + 1 = i
    BY <1>5 DEF n
  <2> QED
    BY <2>1, <2>2, <2>3
<1> QED
  BY <1>5, <1>6, <1>7, <1>8, <1>9, <1>10 DEF n, a

-----------------------------------------------------------------------------
(* What the storage holds. *)

\* The types of a value.
Kinds == {"str", "list", "set", "hash", "zset"}

\* Finitely many byte strings.
Members(s) == IsFiniteSet(s) /\ s \subseteq Bytes

\* A map from finitely many byte strings.
Fields(h) == h = [x \in DOMAIN h |-> h[x]] /\ Members(DOMAIN h)

\* ... to scores.
Scores(f) == Fields(f) /\ \A m \in DOMAIN f : f[m] \in Int

\* The two halves of a sorted set hold the same facts.
Agree(z) ==
    /\ z = [index |-> z.index, entries |-> z.entries]
    /\ Scores(z.entries)
    /\ z.index = {<<z.entries[m], m>> : m \in DOMAIN z.entries}

\* A value of one type and of the right shape, with an element unless it is a
\* string.
GoodValue(v) ==
    /\ \E kind \in Kinds : DOMAIN v = {kind}
    /\ "list" \in DOMAIN v => v["list"] \in Seq(Bytes) /\ v["list"] # <<>>
    /\ "set" \in DOMAIN v => Members(v["set"]) /\ v["set"] # {}
    /\ "hash" \in DOMAIN v => Fields(v["hash"]) /\ v["hash"] # <<>>
    /\ "zset" \in DOMAIN v => Agree(v["zset"]) /\ v["zset"] # EmptyZSet

\* A database of finitely many such values.
GoodDb(d) == IsFiniteSet(DOMAIN d) /\ \A k \in DOMAIN d : GoodValue(d[k])

\* The two databases differ at these keys at most.
Touches(d, e, K) ==
    /\ DOMAIN e \subseteq DOMAIN d \cup K
    /\ DOMAIN d \subseteq DOMAIN e \cup K
    /\ \A k \in DOMAIN d \cap DOMAIN e : k \notin K => e[k] = d[k]

\* What a command makes of a database.
Outcome(d, e, K) == GoodDb(e) /\ Touches(d, e, K)

-----------------------------------------------------------------------------
(* Keys that are put and dropped. *)

\* A command that does nothing.
LEMMA SameOutcome == \A d, K : GoodDb(d) => Outcome(d, d, K)
  BY DEF Outcome, Touches

\* A key that is given a good value.
LEMMA PutOutcome ==
    ASSUME NEW d, NEW k, NEW v, GoodDb(d), GoodValue(v)
    PROVE  Outcome(d, PutKey(d, k, v), {k})
<1>1. IsFiniteSet(DOMAIN d \cup {k})
  BY FS_AddElement DEF GoodDb
<1>2. DOMAIN PutKey(d, k, v) = DOMAIN d \cup {k}
  BY DEF PutKey
<1> QED
  BY <1>1, <1>2 DEF Outcome, Touches, PutKey, GoodDb

\* Putting a key changes no other one, whatever the value is.
LEMMA PutTouches ==
    ASSUME NEW d, NEW k, NEW v
    PROVE  Touches(d, PutKey(d, k, v), {k})
  BY DEF Touches, PutKey

\* Keys that are dropped.
LEMMA DropOutcome ==
    ASSUME NEW d, NEW K, GoodDb(d)
    PROVE  Outcome(d, DropKeys(d, K), K)
<1>1. IsFiniteSet(DOMAIN d \ K)
  BY FS_Difference DEF GoodDb
<1>2. DOMAIN DropKeys(d, K) = DOMAIN d \ K
  BY DEF DropKeys, Restrict
<1> QED
  BY <1>1, <1>2 DEF Outcome, Touches, DropKeys, GoodDb, Restrict

\* Two commands one after the other.
LEMMA ThenOutcome ==
    ASSUME NEW d, NEW e, NEW f, NEW K, NEW L, Outcome(d, e, K), Outcome(e, f, L)
    PROVE  Outcome(d, f, K \cup L)
  BY DEF Outcome, Touches

\* A string is good whatever it holds.
LEMMA StrGood == \A s : GoodValue(Value("str", s))
  BY DEF GoodValue, Value, Kinds

\* A list with an element is good.
LEMMA ListGood == \A l : l \in Seq(Bytes) /\ l # <<>> => GoodValue(Value("list", l))
  BY DEF GoodValue, Value, Kinds

\* A set with a member is good.
LEMMA SetGood == \A s : Members(s) /\ s # {} => GoodValue(Value("set", s))
  BY DEF GoodValue, Value, Kinds

\* A hash with a field is good.
LEMMA HashGood == \A h : Fields(h) /\ h # <<>> => GoodValue(Value("hash", h))
  BY DEF GoodValue, Value, Kinds

\* A sorted set whose halves agree and which has a member is good.
LEMMA ZSetGood == \A z : Agree(z) /\ z # EmptyZSet => GoodValue(Value("zset", z))
  BY DEF GoodValue, Value, Kinds

\* What a command finds under a key of its type.
LEMMA HeldGood ==
    ASSUME NEW d, NEW key, GoodDb(d)
    PROVE  /\ Holds(d, key, "list") => d[key]["list"] \in Seq(Bytes) /\ d[key]["list"] # <<>>
           /\ Holds(d, key, "set") => Members(d[key]["set"]) /\ d[key]["set"] # {}
           /\ Holds(d, key, "hash") => Fields(d[key]["hash"]) /\ d[key]["hash"] # <<>>
           /\ Holds(d, key, "zset") => Agree(d[key]["zset"]) /\ d[key]["zset"] # EmptyZSet
  BY DEF GoodDb, GoodValue, Holds

\* What a command starts from when the key may be missing.
LEMMA ContentGood ==
    ASSUME NEW d, NEW key, GoodDb(d)
    PROVE  /\ ContentOf(d, key, "list") \in Seq(Bytes)
           /\ Members(ContentOf(d, key, "set"))
           /\ Fields(ContentOf(d, key, "hash"))
           /\ Agree(ContentOf(d, key, "zset"))
<1>1. Empty["list"] = <<>> /\ Empty["set"] = {} /\ Empty["hash"] = <<>> /\ Empty["zset"] = EmptyZSet
  BY DEF Empty
<1>2. <<>> \in Seq(Bytes)
  OBVIOUS
<1>3. Members({}) /\ Fields(<<>>) /\ Scores(<<>>)
  BY FS_EmptySet DEF Members, Fields, Scores
<1>4. Agree(EmptyZSet)
  BY <1>3 DEF Agree, EmptyZSet
<1> QED
  BY <1>1, <1>2, <1>3, <1>4, HeldGood DEF ContentOf

\* A part of a set, of a map.
LEMMA PartGood ==
    /\ \A s, t : Members(s) /\ t \subseteq s => Members(t)
    /\ \A f, S : Fields(f) => Fields(Restrict(f, DOMAIN f \ S))
    /\ \A f, S : Scores(f) => Scores(Restrict(f, DOMAIN f \ S))
<1>1. ASSUME NEW s, NEW t, Members(s), t \subseteq s PROVE Members(t)
  BY <1>1, FS_Subset DEF Members
<1>2. ASSUME NEW f, NEW S, Fields(f)
      PROVE  /\ Fields(Restrict(f, DOMAIN f \ S))
             /\ Scores(f) => Scores(Restrict(f, DOMAIN f \ S))
  <2>1. PICK g : g = Restrict(f, DOMAIN f \ S)
    OBVIOUS
  <2>2. DOMAIN g = DOMAIN f \ S /\ g = [x \in DOMAIN g |-> g[x]] /\ \A x \in DOMAIN g : g[x] = f[x]
    BY <2>1 DEF Restrict
  <2>3. Members(DOMAIN g)
    BY <1>1, <1>2, <2>2 DEF Fields
  <2> QED
    BY <2>1, <2>2, <2>3 DEF Fields, Scores
<1> QED
  BY <1>1, <1>2 DEF Scores

\* One more member, two sets together.
LEMMA MoreGood ==
    /\ \A s : \A x \in Bytes : Members(s) => Members(s \cup {x})
    /\ \A s, t : Members(s) /\ Members(t) => Members(s \cup t)
  BY FS_AddElement, FS_Union DEF Members

\* One more entry in a map.
LEMMA EntryGood ==
    ASSUME NEW f, NEW x \in Bytes, NEW v, Fields(f)
    PROVE  /\ Fields(SetEntry(f, x, v))
           /\ Scores(f) /\ v \in Int => Scores(SetEntry(f, x, v))
<1>1. PICK g : g = SetEntry(f, x, v)
  OBVIOUS
<1>2. /\ DOMAIN g = DOMAIN f \cup {x} /\ g = [y \in DOMAIN g |-> g[y]]
      /\ \A y \in DOMAIN g : g[y] = IF y = x THEN v ELSE f[y]
  BY <1>1 DEF SetEntry
<1>3. Members(DOMAIN g)
  BY <1>2, MoreGood DEF Fields
<1> QED
  BY <1>1, <1>2, <1>3 DEF Fields, Scores

\* What a sequence of byte strings, or a map on its positions, names.
LEMMA RangeFinite ==
    ASSUME NEW f, IsFiniteSet(DOMAIN f)
    PROVE  IsFiniteSet(Range(f))
<1>1. PICK g : g = [x \in DOMAIN f |-> f[x]]
  OBVIOUS
<1>2. g \in Surjection(DOMAIN f, Range(f))
  BY <1>1 DEF Surjection, Range
<1> QED
  BY <1>2, FS_Surjection

\* A sequence has finitely many elements.
LEMMA SeqRange ==
    ASSUME NEW S, NEW l \in Seq(S)
    PROVE  IsFiniteSet(DOMAIN l) /\ IsFiniteSet(Range(l)) /\ Range(l) \subseteq S
<1>1. PICK n \in Nat : n = Len(l) /\ DOMAIN l = 1 .. n
  OBVIOUS
<1>2. IsFiniteSet(DOMAIN l)
  BY <1>1, FS_Interval
<1>3. \A i \in DOMAIN l : l[i] \in S
  OBVIOUS
<1> QED
  BY <1>2, <1>3, RangeFinite DEF Range

-----------------------------------------------------------------------------
(* Lists. *)

\* The smaller and the larger one of two numbers.
LEMMA Extremes ==
    ASSUME NEW i \in Int, NEW j \in Int
    PROVE  /\ Min({i, j}) = IF i <= j THEN i ELSE j
           /\ Max({i, j}) = IF i <= j THEN j ELSE i
<1>1. PICK low \in {i, j} : \A y \in {i, j} : low <= y
  BY SMT
<1>2. PICK high \in {i, j} : \A y \in {i, j} : high >= y
  BY SMT
<1>3. /\ Min({i, j}) \in {i, j} /\ \A y \in {i, j} : Min({i, j}) <= y
  BY <1>1 DEF Min
<1>4. /\ Max({i, j}) \in {i, j} /\ \A y \in {i, j} : Max({i, j}) >= y
  BY <1>2 DEF Max
<1> QED
  BY <1>3, <1>4

\* A reversed list is a list of the same length.
LEMMA ReverseList ==
    ASSUME NEW l \in Seq(Bytes)
    PROVE  Reverse(l) \in Seq(Bytes) /\ Len(Reverse(l)) = Len(l)
  BY DEF Reverse

\* Pushing something leaves a list with an element.
LEMMA PushList ==
    ASSUME NEW l \in Seq(Bytes), NEW values \in Seq(Bytes), values # <<>>
    PROVE  /\ PushFront(l, values) \in Seq(Bytes) /\ PushFront(l, values) # <<>>
           /\ PushBack(l, values) \in Seq(Bytes) /\ PushBack(l, values) # <<>>
<1>1. Len(values) \in Nat /\ Len(values) > 0
  OBVIOUS
<1>2. PICK r \in Seq(Bytes) : r = Reverse(values) /\ Len(r) = Len(values)
  BY ReverseList
<1>3. r \o l \in Seq(Bytes) /\ Len(r \o l) = Len(r) + Len(l)
  OBVIOUS
<1>4. l \o values \in Seq(Bytes) /\ Len(l \o values) = Len(l) + Len(values)
  OBVIOUS
<1>5. r \o l # <<>> /\ l \o values # <<>>
  BY <1>1, <1>2, <1>3, <1>4
<1> QED
  BY <1>2, <1>3, <1>4, <1>5 DEF PushFront, PushBack

\* A part of a list is a list.
LEMMA PartList ==
    ASSUME NEW l \in Seq(Bytes), NEW i \in Int, NEW j \in Int, 1 <= i, j <= Len(l)
    PROVE  SubSeq(l, i, j) \in Seq(Bytes)
<1>1. \A k \in i..j : k \in 1..Len(l)
  OBVIOUS
<1>2. \A k \in i..j : l[k] \in Bytes
  BY <1>1
<1> QED
  BY <1>2, SubSeqProperties

\* What is left after elements were taken from one end is a list.
LEMMA PopList ==
    ASSUME NEW l \in Seq(Bytes), NEW count \in Nat
    PROVE  SkipFront(l, count) \in Seq(Bytes) /\ DropBack(l, count) \in Seq(Bytes)
<1>1. PICK n \in Nat : n = Len(l)
  OBVIOUS
<1>2. PICK i \in Nat : i = Min({count, Len(l)}) /\ i <= n
  BY <1>1, Extremes
<1>3. PICK a \in Int, b \in Int : a = 1 + i /\ b = n - i
  OBVIOUS
<1>4. SubSeq(l, a, n) \in Seq(Bytes)
  <2>1. 1 <= a /\ n <= Len(l)
    BY <1>1, <1>3
  <2> QED
    BY <2>1, PartList
<1>5. SubSeq(l, 1, b) \in Seq(Bytes)
  <2>1. b <= Len(l)
    BY <1>1, <1>3
  <2> QED
    BY <2>1, PartList
<1> QED
  BY <1>1, <1>2, <1>3, <1>4, <1>5 DEF SkipFront, DropBack

\* A clamped index of a list with elements is one of its positions.
LEMMA ClampRange ==
    ASSUME NEW n \in Nat, n > 0, NEW i \in Int
    PROVE  Clamp(n, i) \in 0 .. n - 1
<1>1. CASE i < 0
  <2>1. PICK m \in Int : m = n + i
    OBVIOUS
  <2>2. Max({m, 0}) = IF m <= 0 THEN 0 ELSE m
    BY Extremes
  <2>3. Clamp(n, i) = Max({m, 0})
    BY <1>1, <2>1 DEF Clamp
  <2> QED
    BY <1>1, <2>1, <2>2, <2>3
<1>2. CASE i >= 0
  <2>1. PICK m \in Int : m = Min({i, n - 1}) /\ m = IF i <= n - 1 THEN i ELSE n - 1
    BY Extremes
  <2>2. Clamp(n, i) = Max({m, 0})
    BY <1>2, <2>1 DEF Clamp
  <2>3. Max({m, 0}) = IF m <= 0 THEN 0 ELSE m
    BY Extremes
  <2>4. 0 <= m /\ m <= n - 1
    BY <1>2, <2>1
  <2> QED
    BY <2>2, <2>3, <2>4
<1> QED
  BY <1>1, <1>2

\* A trimmed list is a list.
LEMMA TrimList ==
    ASSUME NEW l \in Seq(Bytes), NEW start \in Int, NEW stop \in Int
    PROVE  Trim(l, start, stop) \in Seq(Bytes)
<1>1. PICK n \in Nat : n = Len(l)
  OBVIOUS
<1>2. CASE n > 0
  <2>1. PICK i \in 0 .. n - 1, j \in 0 .. n - 1 : i = Clamp(n, start) /\ j = Clamp(n, stop)
    BY <1>2, ClampRange
  <2>2. SubSeq(l, i + 1, j + 1) \in Seq(Bytes)
    BY <1>1, <2>1, PartList
  <2> QED
    BY <1>1, <2>1, <2>2 DEF Trim
<1>3. CASE n = 0
  <2>1. l = <<>> /\ <<>> \in Seq(Bytes)
    BY <1>1, <1>3, EmptySeq
  <2> QED
    BY <2>1 DEF Trim
<1> QED
  BY <1>2, <1>3

\* The states of a scan, one after each element.
ScanRule(f, l, limit, value, i) ==
    f[i] = IF i = 0 THEN [kept |-> <<>>, removed |-> 0] ELSE Visit(f[i - 1], l[i], limit, value)

\* All of them.
Scans(f, l, limit, value, n) ==
    /\ f = [i \in 0..n |-> f[i]]
    /\ \A i \in 0..n : ScanRule(f, l, limit, value, i)

\* A scan has a state after each element.
LEMMA ScanExists ==
    ASSUME NEW l, NEW limit, NEW value, NEW n \in Nat
    PROVE  \E f : Scans(f, l, limit, value, n)
<1> SUFFICES ASSUME ~ \E f : Scans(f, l, limit, value, n) PROVE FALSE
  OBVIOUS
<1>1. PICK T \in SUBSET Nat : \A i \in Nat : i \in T <=> ~ \E f : Scans(f, l, limit, value, i)
  <2>1. {i \in Nat : ~ \E f : Scans(f, l, limit, value, i)} \in SUBSET Nat
    OBVIOUS
  <2> QED
    BY <2>1, Zenon
<1>2. PICK m \in T : \A i \in T : m <= i
  BY <1>1, LeastNumber
<1>3. m # 0
  <2>1. PICK f : f = [i \in 0..0 |-> [kept |-> <<>>, removed |-> 0]]
    OBVIOUS
  <2>2. Scans(f, l, limit, value, 0)
    BY <2>1 DEF Scans, ScanRule
  <2> QED
    BY <1>1, <2>2
<1>4. m \in Nat /\ m - 1 \in Nat /\ m - 1 \notin T
  BY <1>2, <1>3
<1>5. PICK g : Scans(g, l, limit, value, m - 1)
  BY <1>1, <1>4
<1>6. PICK f : f = [i \in 0..m |-> IF i < m THEN g[i] ELSE Visit(g[m - 1], l[m], limit, value)]
  OBVIOUS
<1>7. ASSUME NEW i \in 0..m
      PROVE  ScanRule(f, l, limit, value, i)
  <2>1. CASE i = m
    BY <1>3, <1>4, <1>6, <2>1 DEF ScanRule
  <2>2. CASE i < m
    <3>1. ScanRule(g, l, limit, value, i) /\ f[i] = g[i] /\ (i # 0 => f[i - 1] = g[i - 1])
      BY <1>4, <1>5, <1>6, <2>2 DEF Scans
    <3> QED
      BY <3>1 DEF ScanRule
  <2> QED
    BY <1>4, <2>1, <2>2
<1>8. Scans(f, l, limit, value, m)
  BY <1>6, <1>7 DEF Scans
<1> QED
  BY <1>1, <1>2, <1>4, <1>8

\* ScanOut reads the last state of the scan.
LEMMA ScanOutScans ==
    ASSUME NEW l, NEW limit, NEW value, Len(l) \in Nat
    PROVE  \E f : Scans(f, l, limit, value, Len(l)) /\ ScanOut(l, limit, value) = f[Len(l)].kept
<1>1. PICK n \in Nat : n = Len(l)
  OBVIOUS
<1>2. PICK f : Scans(f, l, limit, value, n)
  BY ScanExists
<1>3. f = [i \in 0..n |-> IF i = 0 THEN [kept |-> <<>>, removed |-> 0]
                          ELSE Visit(f[i - 1], l[i], limit, value)]
  BY <1>2 DEF Scans, ScanRule
<1>4. PICK h : h = CHOOSE g : g = [i \in 0..n |-> IF i = 0 THEN [kept |-> <<>>, removed |-> 0]
                                              ELSE Visit(g[i - 1], l[i], limit, value)]
  OBVIOUS
<1>5. h = [i \in 0..n |-> IF i = 0 THEN [kept |-> <<>>, removed |-> 0]
                          ELSE Visit(h[i - 1], l[i], limit, value)]
  BY <1>3, <1>4
<1>6. Scans(h, l, limit, value, n)
  BY <1>5 DEF Scans, ScanRule
<1>7. ScanOut(l, limit, value) = h[n].kept
  BY <1>1, <1>4 DEF ScanOut
<1> QED
  BY <1>1, <1>6, <1>7

\* A list from which elements were left out is a list.
LEMMA ScanOutList ==
    ASSUME NEW l \in Seq(Bytes), NEW limit, NEW value
    PROVE  ScanOut(l, limit, value) \in Seq(Bytes)
<1>1. PICK n \in Nat : n = Len(l)
  OBVIOUS
<1>2. PICK f : Scans(f, l, limit, value, n) /\ ScanOut(l, limit, value) = f[n].kept
  BY <1>1, ScanOutScans
<1> SUFFICES ASSUME f[n].kept \notin Seq(Bytes) PROVE FALSE
  BY <1>2
<1>3. PICK T \in SUBSET Nat : \A i \in Nat : i \in T <=> i \in 0..n /\ f[i].kept \notin Seq(Bytes)
  <2>1. {i \in Nat : i \in 0..n /\ f[i].kept \notin Seq(Bytes)} \in SUBSET Nat
    OBVIOUS
  <2> QED
    BY <2>1, Zenon
<1>4. T # {}
  BY <1>3
<1>5. PICK m \in T : \A i \in T : m <= i
  BY <1>4, LeastNumber
<1>6. m \in 0..n /\ f[m].kept \notin Seq(Bytes) /\ ScanRule(f, l, limit, value, m)
  BY <1>2, <1>3, <1>5 DEF Scans
<1>7. CASE m = 0
  <2>1. f[m].kept = <<>> /\ <<>> \in Seq(Bytes)
    BY <1>6, <1>7 DEF ScanRule
  <2> QED
    BY <1>6, <2>1
<1>8. CASE m # 0
  <2>1. m - 1 \in 0..n /\ m - 1 \in Nat /\ m \in 1..n /\ m - 1 \notin T
    BY <1>5, <1>6, <1>8
  <2>2. PICK k \in Seq(Bytes) : k = f[m - 1].kept
    BY <1>3, <2>1
  <2>3. f[m].kept \in {k, Append(k, l[m])}
    BY <1>6, <1>8, <2>2 DEF ScanRule, Visit
  <2>4. l[m] \in Bytes /\ Append(k, l[m]) \in Seq(Bytes)
    BY <1>1, <2>1
  <2> QED
    BY <1>6, <2>3, <2>4
<1> QED
  BY <1>7, <1>8

\* LREM leaves a list.
LEMMA RemList ==
    ASSUME NEW l \in Seq(Bytes), NEW count, NEW value
    PROVE  Rem(l, count, value) \in Seq(Bytes)
  BY ScanOutList, ReverseList DEF Rem

\* LINSERT leaves a list.
LEMMA InsertList ==
    ASSUME NEW l \in Seq(Bytes), NEW before, NEW pivot, NEW value \in Bytes
    PROVE  Insert(l, before, pivot, value) \in Seq(Bytes)
<1>1. PICK n \in Nat : n = Len(l)
  OBVIOUS
<1>2. PICK T \in SUBSET Nat : T = {i \in DOMAIN l : l[i] = pivot} /\ \A i \in T : 1 <= i /\ i <= n
  <2>1. DOMAIN l = 1..n
    BY <1>1
  <2>2. \A i \in {j \in DOMAIN l : l[j] = pivot} : i \in Nat /\ 1 <= i /\ i <= n
    BY <2>1
  <2> QED
    BY <2>2
<1>3. CASE T = {}
  BY <1>2, <1>3 DEF Insert
<1>4. CASE T # {}
  <2>1. PICK m \in Nat : m = Min(T) /\ 1 <= m /\ m <= n
    BY <1>2, <1>4, LeastNumber
  <2>2. PICK i \in Int : i = m + (IF before THEN 0 ELSE 1)
    OBVIOUS
  <2>3. 1 <= i /\ i - 1 \in Int /\ i - 1 <= n
    BY <2>1, <2>2
  <2>4. SubSeq(l, 1, i - 1) \in Seq(Bytes) /\ SubSeq(l, i, Len(l)) \in Seq(Bytes)
    BY <1>1, <2>3, PartList
  <2>5. <<value>> \in Seq(Bytes)
    OBVIOUS
  <2>6. (SubSeq(l, 1, i - 1) \o <<value>>) \o SubSeq(l, i, Len(l)) \in Seq(Bytes)
    BY <2>4, <2>5
  <2>7. Insert(l, before, pivot, value) = InsertAt(l, i, value)
    BY <1>2, <1>4, <2>1, <2>2 DEF Insert
  <2> QED
    BY <2>6, <2>7 DEF InsertAt
<1> QED
  BY <1>3, <1>4

\* LSET leaves a list.
LEMMA UpdateList ==
    ASSUME NEW l \in Seq(Bytes), NEW index \in Int, NEW value \in Bytes
    PROVE  Update(l, index, value) \in Seq(Bytes)
<1>1. PICK pos \in Int : pos = IF index < 0 THEN Len(l) + index ELSE index
  OBVIOUS
<1>2. pos \in 0 .. Len(l) - 1 => [l EXCEPT ![pos + 1] = value] \in Seq(Bytes)
  OBVIOUS
<1> QED
  BY <1>1, <1>2 DEF Update

-----------------------------------------------------------------------------
(* What the removals remove. *)

\* An interval in ascending order.
LEMMA AscendingInterval ==
    ASSUME NEW a \in Int, NEW b \in Int
    PROVE  Ascending(a .. b) = [i \in 1 .. b - a + 1 |-> a + i - 1]
<1>1. PICK n \in Nat : n = IF a > b THEN 0 ELSE b - a + 1
  <2>1. (IF a > b THEN 0 ELSE b - a + 1) \in Nat
    OBVIOUS
  <2> QED
    BY <2>1
<1>2. 1 .. n = 1 .. b - a + 1
  BY <1>1
<1>3. PICK l : l = [i \in 1 .. n |-> a + i - 1]
  OBVIOUS
<1>4. l \in [1 .. n -> a .. b]
  BY <1>1, <1>3
<1>5. l \in Seq(a .. b) /\ DOMAIN l = 1 .. n
  BY <1>4, FunctionSeq
<1>6. \A i, j \in 1 .. n : i < j => l[i] < l[j]
  BY <1>3
<1>7. ASSUME NEW x \in a .. b PROVE \E i \in 1 .. n : l[i] = x
  <2>1. x - a + 1 \in 1 .. n /\ a + (x - a + 1) - 1 = x
    BY <1>1
  <2> QED
    BY <1>3, <2>1
<1>8. Sorts(l, a .. b)
  BY <1>5, <1>6, <1>7 DEF Sorts
<1>9. a .. b \subseteq Int /\ IsFiniteSet(a .. b)
  BY FS_Interval
<1> QED
  BY <1>2, <1>3, <1>8, <1>9, AscendingSorts

\* What a selection is.
LEMMA SelectionFacts ==
    ASSUME NEW S, NEW l \in Seq(S), NEW K, K \subseteq DOMAIN l
    PROVE  /\ IsFiniteSet(K) /\ K \subseteq Int
           /\ Selection(l, K) \in Seq(S)
           /\ Len(Selection(l, K)) = Cardinality(K)
           /\ DOMAIN Selection(l, K) = 1 .. Cardinality(K)
           /\ \A i \in 1 .. Cardinality(K) : Selection(l, K)[i] = l[Ascending(K)[i]]
           /\ Range(Selection(l, K)) = {l[i] : i \in K}
<1>1. DOMAIN l = 1 .. Len(l) /\ Len(l) \in Nat
  OBVIOUS
<1>2. IsFiniteSet(K) /\ K \subseteq Int
  <2>1. IsFiniteSet(1 .. Len(l))
    BY <1>1, FS_Interval
  <2> QED
    BY <1>1, <2>1, FS_Subset
<1>3. PICK n \in Nat : n = Cardinality(K)
  BY <1>2, FS_CardinalityType
<1>4. PICK a \in Seq(K) : a = Ascending(K) /\ DOMAIN a = 1 .. n /\ Sorts(a, K)
  BY <1>2, <1>3, AscendingSorts
<1>5. PICK s : s = Selection(l, K) /\ s = [i \in 1 .. n |-> l[a[i]]]
  BY <1>4 DEF Selection
<1>6. \A i \in 1 .. n : a[i] \in K
  BY <1>4
<1>7. s \in [1 .. n -> S]
  BY <1>1, <1>5, <1>6
<1>8. s \in Seq(S) /\ Len(s) = n /\ DOMAIN s = 1 .. n
  BY <1>7, FunctionSeq
<1>9. Range(s) = {l[i] : i \in K}
  <2>1. \A i \in 1 .. n : s[i] = l[a[i]]
    BY <1>5
  <2>2. \A k \in K : \E i \in 1 .. n : a[i] = k
    BY <1>4 DEF Sorts
  <2>3. ASSUME NEW i \in 1 .. n PROVE s[i] \in {l[k] : k \in K}
    BY <1>6, <2>1
  <2>4. ASSUME NEW k \in K PROVE \E i \in 1 .. n : s[i] = l[k]
    BY <2>1, <2>2
  <2> QED
    BY <1>8, <2>3, <2>4 DEF Range
<1> QED
  BY <1>2, <1>3, <1>4, <1>5, <1>8, <1>9

\* The positions between two indices that meet the list.
LEMMA ClampedPositions ==
    ASSUME NEW n \in Nat, n > 0, NEW start \in Int, NEW stop \in Int, InRange(n, start, stop)
    PROVE  /\ Clamp(n, start) \in 0 .. n - 1 /\ Clamp(n, stop) \in 0 .. n - 1
           /\ \A k \in 0 .. n - 1 :
                 /\ Clamp(n, start) <= k <=> (IF start < 0 THEN n + start ELSE start) <= k
                 /\ k <= Clamp(n, stop) <=> k <= (IF stop < 0 THEN n + stop ELSE stop)
<1>1. start < n /\ stop >= -n
  BY DEF InRange
<1>2. ASSUME NEW i \in Int
      PROVE Clamp(n, i) = IF i < 0 THEN (IF n + i <= 0 THEN 0 ELSE n + i)
                          ELSE IF i <= n - 1 THEN i ELSE n - 1
  <2>1. CASE i < 0
    <3>1. PICK m \in Int : m = n + i
      OBVIOUS
    <3>2. Max({m, 0}) = IF m <= 0 THEN 0 ELSE m
      BY Extremes
    <3> QED
      BY <2>1, <3>1, <3>2 DEF Clamp
  <2>2. CASE i >= 0
    <3>1. PICK m \in Int : m = Min({i, n - 1}) /\ m = IF i <= n - 1 THEN i ELSE n - 1
      BY Extremes
    <3>2. Max({m, 0}) = IF m <= 0 THEN 0 ELSE m
      BY Extremes
    <3>3. m >= 0
      BY <2>2, <3>1
    <3>4. Clamp(n, i) = Max({m, 0})
      BY <2>2, <3>1 DEF Clamp
    <3>5. Clamp(n, i) = m
      BY <3>2, <3>3, <3>4
    <3> QED
      BY <2>2, <3>1, <3>5
  <2> QED
    BY <2>1, <2>2
<1> QED
  BY <1>1, <1>2

\* The positions that LTRIM keeps.
Between(n, start, stop) ==
    {i \in 1 .. n : /\ (IF start < 0 THEN n + start ELSE start) <= i - 1
                    /\ i - 1 <= (IF stop < 0 THEN n + stop ELSE stop)}

\* They are the ones between the two clamped positions.
LEMMA BetweenClamped ==
    ASSUME NEW n \in Nat, n > 0, NEW start \in Int, NEW stop \in Int, InRange(n, start, stop)
    PROVE  Between(n, start, stop) = Clamp(n, start) + 1 .. Clamp(n, stop) + 1
<1>1. PICK a \in 0 .. n - 1, b \in 0 .. n - 1 : a = Clamp(n, start) /\ b = Clamp(n, stop)
  BY ClampedPositions
<1>2. ASSUME NEW i \in 1 .. n PROVE i \in Between(n, start, stop) <=> i \in a + 1 .. b + 1
  <2>1. PICK k \in 0 .. n - 1 : k = i - 1
    OBVIOUS
  <2>2. /\ a <= k <=> (IF start < 0 THEN n + start ELSE start) <= k
        /\ k <= b <=> k <= (IF stop < 0 THEN n + stop ELSE stop)
    BY <1>1, ClampedPositions
  <2>3. i \in Between(n, start, stop) <=> a <= k /\ k <= b
    BY <2>1, <2>2 DEF Between
  <2> QED
    BY <1>1, <2>1, <2>3
<1>3. Between(n, start, stop) \subseteq 1 .. n /\ a + 1 .. b + 1 \subseteq 1 .. n
  BY DEF Between
<1> QED
  BY <1>1, <1>2, <1>3

\* LTRIM keeps the elements between two indices, when they meet the list.
LEMMA TrimMatches ==
    ASSUME NEW S, NEW l \in Seq(S), NEW start \in Int, NEW stop \in Int,
           InRange(Len(l), start, stop)
    PROVE  Trim(l, start, stop) = TrimmedList(l, start, stop)
<1>1. PICK n \in Nat : n = Len(l) /\ DOMAIN l = 1 .. n
  OBVIOUS
<1>2. PICK K : K = Between(n, start, stop) /\ K \subseteq DOMAIN l
  BY <1>1 DEF Between
<1>3. TrimmedList(l, start, stop) = Selection(l, K)
  BY <1>1, <1>2 DEF TrimmedList, Between
<1>4. CASE n > 0
  <2>1. PICK a \in 0 .. n - 1, b \in 0 .. n - 1 : a = Clamp(n, start) /\ b = Clamp(n, stop)
    BY <1>1, <1>4, ClampedPositions
  <2>2. K = a + 1 .. b + 1
    BY <1>1, <1>2, <1>4, <2>1, BetweenClamped
  <2>3. PICK m \in Nat : m = IF a > b THEN 0 ELSE b - a + 1
    <3>1. (IF a > b THEN 0 ELSE b - a + 1) \in Nat
      OBVIOUS
    <3> QED
      BY <3>1
  <2>4. Cardinality(K) = m
    <3>1. a + 1 \in Int /\ b + 1 \in Int
      OBVIOUS
    <3> QED
      BY <2>2, <2>3, <3>1, FS_Interval
  <2>5. \A i \in 1 .. m : Ascending(K)[i] = a + i
    <3>1. PICK p \in Int, q \in Int : p = a + 1 /\ q = b + 1
      OBVIOUS
    <3>2. Ascending(p .. q) = [i \in 1 .. q - p + 1 |-> p + i - 1]
      BY AscendingInterval
    <3>3. \A i \in 1 .. m : i \in 1 .. q - p + 1 /\ p + i - 1 = a + i
      BY <2>3, <3>1
    <3> QED
      BY <2>2, <3>1, <3>2, <3>3
  <2>6. PICK s \in Seq(S) : s = Selection(l, K) /\ Len(s) = m /\ \A i \in 1 .. m : s[i] = l[a + i]
    <3>1. /\ Selection(l, K) \in Seq(S) /\ Len(Selection(l, K)) = m
          /\ \A i \in 1 .. m : Selection(l, K)[i] = l[Ascending(K)[i]]
      BY <1>2, <2>4, SelectionFacts
    <3> QED
      BY <2>5, <3>1
  <2>7. CASE a > b
    <3>1. s = <<>>
      BY <2>3, <2>6, <2>7
    <3>2. Trim(l, start, stop) = <<>>
      BY <1>1, <2>1, <2>7 DEF Trim
    <3> QED
      BY <1>3, <2>6, <3>1, <3>2
  <2>8. CASE a <= b
    <3>1. Trim(l, start, stop) = SubSeq(l, a + 1, b + 1)
      <4>1. l # <<>> /\ ~(a > b)
        BY <1>1, <1>4, <2>8
      <4> QED
        BY <1>1, <2>1, <4>1 DEF Trim
    <3>2. \A k \in a + 1 .. b + 1 : l[k] \in S
      BY <1>1
    <3>3. PICK p \in Int, q \in Int : p = a + 1 /\ q = b + 1
      OBVIOUS
    <3>4. /\ SubSeq(l, p, q) \in Seq(S)
          /\ Len(SubSeq(l, p, q)) = IF p <= q THEN q - p + 1 ELSE 0
          /\ \A i \in 1 .. q - p + 1 : SubSeq(l, p, q)[i] = l[p + i - 1]
      BY <3>2, <3>3, SubSeqProperties
    <3>5. Len(SubSeq(l, p, q)) = m /\ \A i \in 1 .. m : SubSeq(l, p, q)[i] = s[i]
      <4>1. q - p + 1 = m /\ p <= q
        BY <2>3, <2>8, <3>3
      <4>2. \A i \in 1 .. m : p + i - 1 = a + i
        BY <3>3
      <4> QED
        BY <2>6, <3>4, <4>1, <4>2
    <3>6. SubSeq(l, p, q) = s
      BY <2>6, <3>4, <3>5, SeqEqual
    <3> QED
      BY <1>3, <2>6, <3>1, <3>3, <3>6
  <2> QED
    BY <2>7, <2>8
<1>5. CASE n = 0
  <2>1. l = <<>> /\ K = {}
    BY <1>1, <1>2, <1>5
  <2>2. Len(Selection(l, K)) = 0 /\ Selection(l, K) \in Seq(S)
    <3>1. Cardinality(K) = 0
      BY <2>1, FS_EmptySet
    <3> QED
      BY <1>2, <3>1, SelectionFacts
  <2>3. Selection(l, K) = <<>>
    BY <2>2
  <2> QED
    BY <1>3, <2>1, <2>3 DEF Trim
<1> QED
  BY <1>4, <1>5

\* ZREMRANGEBYRANK removes the pairs between two ranks, when they meet the index.
LEMMA RankRangeMatches ==
    ASSUME NEW z, PairSet(z.index), NEW start \in Int, NEW stop \in Int,
           InRange(Cardinality(z.index), start, stop)
    PROVE  RemRangeByRank(z, start, stop).index
              = z.index \ Range(TrimmedList(Ranked(z), start, stop))
<1>1. PICK P : P = z.index /\ PairSet(P)
  OBVIOUS
<1>2. PICK n \in Nat : n = Cardinality(P)
  BY <1>1, OrderedSorts
<1>3. PICK o \in Seq(P) : /\ o = Ranked(z) /\ Len(o) = n /\ DOMAIN o = 1 .. n
                          /\ \A i \in 1 .. n : o[i] \in P /\ Rank(P, o[i]) = i - 1
                          /\ \A p \in P : Rank(P, p) \in 0 .. n - 1 /\ o[Rank(P, p) + 1] = p
  <2>1. PICK o : o = Ordered(P)
    OBVIOUS
  <2>2. /\ o \in Seq(P) /\ Len(o) = n /\ DOMAIN o = 1 .. n
        /\ \A i \in 1 .. n : o[i] \in P /\ Rank(P, o[i]) = i - 1
    BY <1>1, <1>2, <2>1, OrderedSorts
  <2>3. \A p \in P : Rank(P, p) \in 0 .. n - 1 /\ o[Rank(P, p) + 1] = p
    BY <1>1, <1>2, <2>1, OrderedSorts
  <2>4. o = Ranked(z)
    BY <1>1, <2>1 DEF Ranked
  <2> QED
    BY <2>2, <2>3, <2>4
<1>4. PICK K : K = Between(n, start, stop) /\ K \subseteq DOMAIN o
  <2>1. Between(n, start, stop) \subseteq 1 .. n
    BY DEF Between
  <2>2. DOMAIN o = 1 .. n
    BY <1>3
  <2> QED
    BY <2>1, <2>2
<1>5. TrimmedList(Ranked(z), start, stop) = Selection(o, K)
  BY <1>3, <1>4 DEF TrimmedList, Between
<1>6. Range(Selection(o, K)) = {o[i] : i \in K}
  BY <1>4, SelectionFacts
<1>7. RemRangeByRank(z, start, stop).index
        = P \ {p \in P : Rank(P, p) \in Clamp(n, start) .. Clamp(n, stop)}
  BY <1>1, <1>2 DEF RemRangeByRank, DropPairs
<1>8. ASSUME NEW p \in P
      PROVE  Rank(P, p) \in Clamp(n, start) .. Clamp(n, stop) <=> p \in {o[i] : i \in K}
  <2>1. PICK k \in 0 .. n - 1 : k = Rank(P, p) /\ o[k + 1] = p
    <3>1. Rank(P, p) \in 0 .. n - 1 /\ o[Rank(P, p) + 1] = p
      BY <1>3
    <3> QED
      BY <3>1
  <2>2. n > 0
    BY <2>1
  <2>3. PICK a \in 0 .. n - 1, b \in 0 .. n - 1 : a = Clamp(n, start) /\ b = Clamp(n, stop)
    BY <1>1, <1>2, <2>2, ClampedPositions
  <2>4. K = a + 1 .. b + 1
    <3>1. InRange(n, start, stop)
      BY <1>1, <1>2
    <3>2. Between(n, start, stop) = Clamp(n, start) + 1 .. Clamp(n, stop) + 1
      BY <2>2, <3>1, BetweenClamped
    <3> QED
      BY <1>4, <2>3, <3>2
  <2>5. k \in a .. b <=> k + 1 \in K
    BY <2>4
  <2>6. ASSUME NEW i \in K, o[i] = p PROVE i = k + 1
    <3>1. i \in 1 .. n /\ Rank(P, o[i]) = i - 1
      BY <1>3, <1>4
    <3> QED
      BY <2>1, <2>6, <3>1
  <2> QED
    BY <2>1, <2>3, <2>5, <2>6
<1> QED
  BY <1>1, <1>5, <1>6, <1>7, <1>8

\* As many pairs have a rank in an interval as there are numbers in it.
LEMMA RankInterval ==
    ASSUME NEW P, PairSet(P), NEW n \in Nat, n = Cardinality(P),
           NEW a \in Nat, NEW b \in Int, b < n
    PROVE  Cardinality({p \in P : Rank(P, p) \in a .. b}) = IF a > b THEN 0 ELSE b - a + 1
<1>2. PICK o \in Seq(P) : /\ o = Ordered(P)
                          /\ \A i \in 1 .. n : o[i] \in P /\ Rank(P, o[i]) = i - 1
                          /\ \A p \in P : Rank(P, p) \in 0 .. n - 1 /\ o[Rank(P, p) + 1] = p
  BY OrderedSorts
<1>3. PICK Q : Q = {p \in P : Rank(P, p) \in a .. b}
  OBVIOUS
<1>4. PICK f : f = [k \in a .. b |-> o[k + 1]]
  OBVIOUS
<1>5. ASSUME NEW k \in a .. b PROVE f[k] \in Q /\ Rank(P, f[k]) = k
  <2>1. k + 1 \in 1 .. n
    OBVIOUS
  <2> QED
    BY <1>2, <1>3, <1>4, <2>1
<1>6. \A j, k \in a .. b : f[j] = f[k] => j = k
  BY <1>5
<1>7. ASSUME NEW p \in Q PROVE \E k \in a .. b : f[k] = p
  <2>1. Rank(P, p) \in a .. b /\ o[Rank(P, p) + 1] = p
    BY <1>2, <1>3
  <2>2. f[Rank(P, p)] = o[Rank(P, p) + 1]
    BY <1>4, <2>1
  <2> QED
    BY <2>1, <2>2
<1>8. f \in Bijection(a .. b, Q)
  <2>1. f \in [a .. b -> Q]
    BY <1>4, <1>5
  <2>2. f \in Injection(a .. b, Q)
    BY <1>6, <2>1 DEF Injection, IsInjective
  <2>3. f \in Surjection(a .. b, Q)
    BY <1>7, <2>1 DEF Surjection
  <2> QED
    BY <2>2, <2>3 DEF Bijection
<1>9. IsFiniteSet(a .. b) /\ Cardinality(a .. b) = IF a > b THEN 0 ELSE b - a + 1
  <2>1. a \in Int
    OBVIOUS
  <2> QED
    BY <2>1, FS_Interval
<1>10. Cardinality(Q) = Cardinality(a .. b)
  BY <1>8, <1>9, FS_Bijection DEF ExistsBijection
<1> QED
  BY <1>3, <1>9, <1>10

\* ZPOPMIN and ZPOPMAX take the pairs with the least and the greatest ranks.
LEMMA PopsTake ==
    ASSUME NEW z, PairSet(z.index), NEW count \in Nat
    PROVE  LET low == PopMin(z, count).index
               high == PopMax(z, count).index
           IN /\ Cardinality(low) = Max({0, Cardinality(z.index) - count})
              /\ Cardinality(high) = Cardinality(low)
              /\ \A p \in low, q \in z.index \ low : IndexLess(q, p)
              /\ \A p \in high, q \in z.index \ high : IndexLess(p, q)
<1>1. PICK P : P = z.index /\ PairSet(P)
  OBVIOUS
<1>2. PICK n \in Nat : n = Cardinality(P) /\ \A p \in P : Rank(P, p) \in 0 .. n - 1
  BY <1>1, OrderedSorts
<1>3. PICK low : low = PopMin(z, count).index /\ low = {p \in P : Rank(P, p) \in count .. n - 1}
  <2>1. PopMin(z, count).index = P \ {p \in P : Rank(P, p) < count}
    BY <1>1 DEF PopMin, DropPairs
  <2>2. \A p \in P : ~(Rank(P, p) < count) <=> Rank(P, p) \in count .. n - 1
    BY <1>2
  <2> QED
    BY <2>1, <2>2
<1>4. PICK high : high = PopMax(z, count).index /\ high = {p \in P : Rank(P, p) \in 0 .. n - count - 1}
  <2>1. PopMax(z, count).index = P \ {p \in P : Rank(P, p) >= n - count}
    BY <1>1, <1>2 DEF PopMax, DropPairs
  <2>2. \A p \in P : ~(Rank(P, p) >= n - count) <=> Rank(P, p) \in 0 .. n - count - 1
    BY <1>2
  <2> QED
    BY <2>1, <2>2
<1>5. Max({0, n - count}) = IF n - count >= 0 THEN n - count ELSE 0
  <2>1. PICK m \in Int : m = n - count
    OBVIOUS
  <2>2. Max({0, m}) = IF 0 <= m THEN m ELSE 0
    BY Extremes
  <2> QED
    BY <2>1, <2>2
<1>6. Cardinality(low) = Max({0, n - count})
  <2>1. PICK b \in Int : b = n - 1 /\ b < n
    OBVIOUS
  <2>2. Cardinality({p \in P : Rank(P, p) \in count .. b}) = IF count > b THEN 0 ELSE b - count + 1
    <3>1. PairSet(P) /\ n = Cardinality(P)
      BY <1>1, <1>2
    <3> QED
      BY <2>1, <3>1, RankInterval
  <2> QED
    BY <1>3, <1>5, <2>1, <2>2
<1>7. Cardinality(high) = Max({0, n - count})
  <2>1. PICK b \in Int : b = n - count - 1 /\ b < n
    OBVIOUS
  <2>2. PICK a \in Nat : a = 0
    OBVIOUS
  <2>3. Cardinality({p \in P : Rank(P, p) \in a .. b}) = IF a > b THEN 0 ELSE b - a + 1
    <3>1. PairSet(P) /\ n = Cardinality(P) /\ b < n
      BY <1>1, <1>2, <2>1
    <3> QED
      BY <3>1, RankInterval
  <2> QED
    BY <1>4, <1>5, <2>1, <2>2, <2>3
<1>8. \A p, q \in P : Rank(P, q) < Rank(P, p) => IndexLess(q, p)
  <2>1. PICK below : below = BeforeIn(P)
    OBVIOUS
  <2>2. Chain(P, below) /\ \A p \in P : Cardinality(below[p]) = Rank(P, p)
    BY <1>1, <2>1, PairsChain
  <2>3. \A p, q \in P : q \in below[p] <=> Cardinality(below[q]) < Cardinality(below[p])
    BY <2>2, ChainRanks
  <2>4. \A p \in P : below[p] = {q \in P : IndexLess(q, p)}
    BY <1>1, <2>1, PairsChain
  <2> QED
    BY <2>2, <2>3, <2>4
<1>9. ASSUME NEW p \in low, NEW q \in P \ low PROVE IndexLess(q, p)
  BY <1>2, <1>3, <1>8
<1>10. ASSUME NEW p \in high, NEW q \in P \ high PROVE IndexLess(p, q)
  BY <1>2, <1>4, <1>8
<1> QED
  BY <1>1, <1>2, <1>3, <1>4, <1>6, <1>7, <1>9, <1>10

\* How many of the first i elements are v.
Hits(l, v, i) == Cardinality({j \in 1 .. i : l[j] = v})

\* One more element.
LEMMA HitsStep ==
    ASSUME NEW l, NEW v, NEW i \in Nat
    PROVE  /\ Hits(l, v, 0) = 0
           /\ Hits(l, v, i) \in Nat /\ Hits(l, v, i) <= i
           /\ l[i + 1] = v => Hits(l, v, i + 1) = Hits(l, v, i) + 1
           /\ l[i + 1] # v => Hits(l, v, i + 1) = Hits(l, v, i)
<1>1. PICK H : H = {j \in 1 .. i : l[j] = v}
  OBVIOUS
<1>2. IsFiniteSet(1 .. i) /\ Cardinality(1 .. i) = i
  BY FS_Interval
<1>3. IsFiniteSet(H) /\ Cardinality(H) \in Nat /\ Cardinality(H) <= i
  <2>1. H \in SUBSET (1 .. i)
    BY <1>1
  <2> QED
    BY <1>2, <2>1, FS_Subset, FS_CardinalityType
<1>4. Hits(l, v, i) = Cardinality(H)
  BY <1>1 DEF Hits
<1>5. {j \in 1 .. i + 1 : l[j] = v} = IF l[i + 1] = v THEN H \cup {i + 1} ELSE H
  <2>1. 1 .. i + 1 = (1 .. i) \cup {i + 1}
    OBVIOUS
  <2> QED
    BY <1>1, <2>1
<1>6. i + 1 \notin H
  BY <1>1
<1>7. Cardinality(H \cup {i + 1}) = Cardinality(H) + 1
  BY <1>3, <1>6, FS_AddElement
<1>8. Hits(l, v, 0) = 0
  <2>1. {j \in 1 .. 0 : l[j] = v} = {}
    OBVIOUS
  <2> QED
    BY <2>1, FS_EmptySet DEF Hits
<1> QED
  BY <1>3, <1>4, <1>5, <1>7, <1>8 DEF Hits

\* A number above all others comes last.
LEMMA AscendingAdd ==
    ASSUME NEW K, K \subseteq Int, IsFiniteSet(K), NEW n \in Int, \A k \in K : k < n
    PROVE  Ascending(K \cup {n}) = Append(Ascending(K), n)
<1>1. PICK L : L = K \cup {n} /\ L \subseteq Int /\ IsFiniteSet(L)
  <2>1. IsFiniteSet(K \cup {n}) /\ K \cup {n} \subseteq Int
    BY FS_AddElement
  <2> QED
    BY <2>1
<1>2. PICK a \in Seq(K) : a = Ascending(K) /\ Sorts(a, K)
  BY AscendingSorts
<1>3. a \in Seq(L)
  BY <1>1, <1>2
<1>4. PICK m \in Nat : m = Len(a) /\ DOMAIN a = 1 .. m
  BY <1>2
<1>5. PICK b : b = Append(a, n)
  OBVIOUS
<1>6. /\ b \in Seq(L) /\ Len(b) = m + 1 /\ DOMAIN b = 1 .. m + 1
      /\ b[m + 1] = n /\ \A i \in 1 .. m : b[i] = a[i]
  BY <1>1, <1>3, <1>4, <1>5
<1>7. \A i \in 1 .. m : a[i] \in K /\ a[i] < n
  <2>1. \A i \in 1 .. m : a[i] \in K
    BY <1>2, <1>4
  <2> QED
    BY <2>1
<1>8. ASSUME NEW i \in 1 .. m + 1, NEW j \in 1 .. m + 1, i < j PROVE b[i] < b[j]
  <2>1. i \in 1 .. m /\ b[i] = a[i]
    BY <1>6, <1>8
  <2>2. CASE j = m + 1
    BY <1>6, <1>7, <2>1, <2>2
  <2>3. CASE j # m + 1
    <3>1. j \in 1 .. m
      BY <2>3
    <3> QED
      BY <1>2, <1>4, <1>6, <1>8, <2>1, <3>1 DEF Sorts
  <2> QED
    BY <2>2, <2>3
<1>9. ASSUME NEW x \in L PROVE \E i \in 1 .. m + 1 : b[i] = x
  <2>1. CASE x = n
    BY <1>6, <2>1
  <2>2. CASE x \in K
    <3>1. PICK i \in 1 .. m : a[i] = x
      BY <1>2, <1>4, <2>2 DEF Sorts
    <3> QED
      BY <1>6, <3>1
  <2> QED
    BY <1>1, <2>1, <2>2
<1>10. Sorts(b, L)
  BY <1>6, <1>8, <1>9 DEF Sorts
<1> QED
  BY <1>1, <1>2, <1>5, <1>10, AscendingSorts

\* Selecting one more position, behind the others.
LEMMA SelectionAdd ==
    ASSUME NEW S, NEW l \in Seq(S), NEW n \in DOMAIN l, NEW K, K \subseteq 1 .. n - 1
    PROVE  Selection(l, K \cup {n}) = Append(Selection(l, K), l[n])
<1>1. PICK L : L = K \cup {n} /\ L \subseteq DOMAIN l /\ K \subseteq DOMAIN l
  <2>1. 1 .. n - 1 \subseteq DOMAIN l
    OBVIOUS
  <2> QED
    BY <2>1
<1>2. n \in Nat /\ n \in Int /\ IsFiniteSet(K) /\ K \subseteq Int /\ \A k \in K : k < n
  BY <1>1, SelectionFacts
<1>3. PICK m \in Nat : m = Cardinality(K)
  BY <1>2, FS_CardinalityType
<1>4. Cardinality(L) = m + 1
  <2>1. n \notin K
    BY <1>2
  <2> QED
    BY <1>1, <1>2, <1>3, <2>1, FS_AddElement
<1>5. PICK a \in Seq(K) : a = Ascending(K) /\ Len(a) = m /\ Ascending(L) = Append(a, n)
  BY <1>1, <1>2, <1>3, AscendingSorts, AscendingAdd
<1>6. PICK s \in Seq(S) : s = Selection(l, K) /\ Len(s) = m /\ \A i \in 1 .. m : s[i] = l[a[i]]
  BY <1>1, <1>3, <1>5, SelectionFacts
<1>7. PICK t \in Seq(S) : t = Selection(l, L) /\ Len(t) = m + 1
                          /\ \A i \in 1 .. m + 1 : t[i] = l[Append(a, n)[i]]
  <2>1. /\ Selection(l, L) \in Seq(S) /\ Len(Selection(l, L)) = m + 1
        /\ \A i \in 1 .. m + 1 : Selection(l, L)[i] = l[Ascending(L)[i]]
    <3>1. /\ Selection(l, L) \in Seq(S) /\ Len(Selection(l, L)) = Cardinality(L)
          /\ \A i \in 1 .. Cardinality(L) : Selection(l, L)[i] = l[Ascending(L)[i]]
      BY <1>1, SelectionFacts
    <3> QED
      BY <1>4, <3>1
  <2> QED
    BY <1>5, <2>1
<1>8. PICK u \in Seq(S) : /\ u = Append(s, l[n]) /\ Len(u) = m + 1
                          /\ u[m + 1] = l[n] /\ \A i \in 1 .. m : u[i] = s[i]
  <2>1. l[n] \in S
    OBVIOUS
  <2>2. PICK u : u = Append(s, l[n])
    OBVIOUS
  <2>3. /\ u \in Seq(S) /\ Len(u) = Len(s) + 1 /\ u[Len(s) + 1] = l[n]
        /\ \A i \in 1 .. Len(s) : u[i] = s[i]
    BY <2>1, <2>2, AppendProperties
  <2> QED
    BY <1>6, <2>2, <2>3
<1>9. ASSUME NEW i \in 1 .. m + 1 PROVE t[i] = u[i]
  <2>1. CASE i = m + 1
    <3>1. Append(a, n)[m + 1] = n
      BY <1>5
    <3> QED
      BY <1>7, <1>8, <2>1, <3>1
  <2>2. CASE i # m + 1
    <3>1. i \in 1 .. m
      BY <2>2
    <3>2. Append(a, n)[i] = a[i]
      BY <1>5, <3>1
    <3>3. t[i] = l[a[i]] /\ s[i] = l[a[i]] /\ u[i] = s[i]
      BY <1>6, <1>7, <1>8, <3>1, <3>2
    <3> QED
      BY <3>3
  <2> QED
    BY <2>1, <2>2
<1>10. t = u
  BY <1>7, <1>8, <1>9, SeqEqual
<1> QED
  BY <1>1, <1>6, <1>7, <1>8, <1>10

\* Which of the first n elements a scan keeps.
KeptOf(l, limit, v, n) == {i \in 1 .. n : l[i] = v => Hits(l, v, i - 1) >= limit}

\* The state of the scan after n elements.
ScanState(acc, l, limit, v, n) ==
    /\ acc.kept = Selection(l, KeptOf(l, limit, v, n))
    /\ acc.removed = IF Hits(l, v, n) <= limit THEN Hits(l, v, n) ELSE limit

\* One more element of the scan.
LEMMA ScanStep ==
    ASSUME NEW S, NEW l \in Seq(S), NEW limit \in Nat, NEW v, NEW n \in DOMAIN l,
           NEW acc, ScanState(acc, l, limit, v, n - 1)
    PROVE  ScanState(Visit(acc, l[n], limit, v), l, limit, v, n)
<1>1. n \in Nat /\ n - 1 \in Nat /\ n \in 1 .. Len(l)
  OBVIOUS
<1>2. PICK h \in Nat : h = Hits(l, v, n - 1)
  BY <1>1, HitsStep
<1>3. Hits(l, v, n) = IF l[n] = v THEN h + 1 ELSE h
  <2>1. PICK i \in Nat : i = n - 1 /\ i + 1 = n
    BY <1>1
  <2>2. /\ l[i + 1] = v => Hits(l, v, i + 1) = Hits(l, v, i) + 1
        /\ l[i + 1] # v => Hits(l, v, i + 1) = Hits(l, v, i)
    BY HitsStep
  <2> QED
    BY <1>2, <2>1, <2>2
<1>4. PICK K : K = KeptOf(l, limit, v, n - 1) /\ K \subseteq 1 .. n - 1
  BY DEF KeptOf
<1>5. KeptOf(l, limit, v, n) = IF l[n] = v /\ h < limit THEN K ELSE K \cup {n}
  <2>1. \A i \in 1 .. n : i \in 1 .. n - 1 \/ i = n
    BY <1>1
  <2>2. \A i \in 1 .. n - 1 : i \in 1 .. n /\ i # n
    BY <1>1
  <2>3. n \in KeptOf(l, limit, v, n) <=> ~(l[n] = v /\ h < limit)
    BY <1>1, <1>2 DEF KeptOf
  <2>4. \A i \in 1 .. n - 1 : i \in KeptOf(l, limit, v, n) <=> i \in K
    BY <1>4, <2>2 DEF KeptOf
  <2>5. KeptOf(l, limit, v, n) \subseteq 1 .. n
    BY DEF KeptOf
  <2>6. CASE l[n] = v /\ h < limit
    <3>1. \A i : i \in KeptOf(l, limit, v, n) => i \in K
      BY <2>1, <2>3, <2>4, <2>5, <2>6
    <3>2. \A i : i \in K => i \in KeptOf(l, limit, v, n)
      BY <1>4, <2>4
    <3> QED
      BY <2>6, <3>1, <3>2
  <2>7. CASE ~(l[n] = v /\ h < limit)
    <3>1. \A i : i \in KeptOf(l, limit, v, n) => i \in K \cup {n}
      BY <2>1, <2>4, <2>5
    <3>2. \A i : i \in K \cup {n} => i \in KeptOf(l, limit, v, n)
      BY <1>4, <2>3, <2>4, <2>7
    <3> QED
      BY <2>7, <3>1, <3>2
  <2> QED
    BY <2>6, <2>7
<1>6. acc.kept = Selection(l, K) /\ acc.removed = IF h <= limit THEN h ELSE limit
  BY <1>2, <1>4 DEF ScanState
<1>7. acc.removed < limit <=> h < limit
  BY <1>6
<1>8. Selection(l, K \cup {n}) = Append(Selection(l, K), l[n])
  BY <1>4, SelectionAdd
<1>9. CASE l[n] = v /\ h < limit
  <2>1. Visit(acc, l[n], limit, v) = [kept |-> acc.kept, removed |-> acc.removed + 1]
    BY <1>7, <1>9 DEF Visit
  <2>2. KeptOf(l, limit, v, n) = K /\ Hits(l, v, n) = h + 1 /\ acc.removed = h /\ h + 1 <= limit
    BY <1>3, <1>5, <1>6, <1>9
  <2> QED
    BY <1>6, <2>1, <2>2 DEF ScanState
<1>10. CASE ~(l[n] = v /\ h < limit)
  <2>1. Visit(acc, l[n], limit, v) = [kept |-> Append(acc.kept, l[n]), removed |-> acc.removed]
    BY <1>7, <1>10 DEF Visit
  <2>2. KeptOf(l, limit, v, n) = K \cup {n}
    BY <1>5, <1>10
  <2>3. acc.removed = IF Hits(l, v, n) <= limit THEN Hits(l, v, n) ELSE limit
    BY <1>3, <1>6, <1>10
  <2>4. PICK r : /\ r = Visit(acc, l[n], limit, v)
                 /\ r.kept = Append(acc.kept, l[n]) /\ r.removed = acc.removed
    BY <2>1
  <2>5. r.kept = Selection(l, KeptOf(l, limit, v, n))
    BY <1>6, <1>8, <2>2, <2>4
  <2> QED
    BY <2>3, <2>4, <2>5 DEF ScanState
<1> QED
  BY <1>9, <1>10

\* The scan keeps an element unless it is v and fewer than limit came before.
LEMMA ScanSelects ==
    ASSUME NEW S, NEW l \in Seq(S), NEW limit \in Nat, NEW v
    PROVE  ScanOut(l, limit, v) = Selection(l, KeptOf(l, limit, v, Len(l)))
<1>1. PICK n \in Nat : n = Len(l) /\ DOMAIN l = 1 .. n
  OBVIOUS
<1>2. PICK f : Scans(f, l, limit, v, n) /\ ScanOut(l, limit, v) = f[n].kept
  BY <1>1, ScanOutScans
<1> SUFFICES ASSUME ~ScanState(f[n], l, limit, v, n) PROVE FALSE
  BY <1>1, <1>2 DEF ScanState
<1>3. PICK T \in SUBSET Nat : \A i \in Nat : i \in T <=> i \in 0..n /\ ~ScanState(f[i], l, limit, v, i)
  <2>1. {i \in Nat : i \in 0..n /\ ~ScanState(f[i], l, limit, v, i)} \in SUBSET Nat
    OBVIOUS
  <2> QED
    BY <2>1, Zenon
<1>4. T # {}
  BY <1>3
<1>5. PICK m \in T : \A i \in T : m <= i
  BY <1>4, LeastNumber
<1>6. m \in 0..n /\ ~ScanState(f[m], l, limit, v, m) /\ ScanRule(f, l, limit, v, m)
  BY <1>2, <1>3, <1>5 DEF Scans
<1>7. CASE m = 0
  <2>1. KeptOf(l, limit, v, 0) = {} /\ Hits(l, v, 0) = 0
    BY HitsStep DEF KeptOf
  <2>2. Selection(l, {}) = <<>>
    <3>1. {} \subseteq DOMAIN l /\ Cardinality({}) = 0
      BY FS_EmptySet
    <3>2. Selection(l, {}) \in Seq(S) /\ Len(Selection(l, {})) = 0
      BY <3>1, SelectionFacts
    <3> QED
      BY <3>2
  <2>3. f[m] = [kept |-> <<>>, removed |-> 0]
    BY <1>6, <1>7 DEF ScanRule
  <2>4. ScanState(f[m], l, limit, v, m)
    <3>1. f[m].kept = <<>> /\ f[m].removed = 0
      BY <2>3
    <3>2. KeptOf(l, limit, v, m) = {} /\ Hits(l, v, m) = 0
      BY <1>7, <2>1
    <3> QED
      BY <2>2, <3>1, <3>2 DEF ScanState
  <2> QED
    BY <1>6, <2>4
<1>8. CASE m # 0
  <2>1. m - 1 \in 0..n /\ m - 1 \in Nat /\ m \in 1..n /\ m - 1 \notin T
    BY <1>5, <1>6, <1>8
  <2>2. PICK acc : acc = f[m - 1] /\ ScanState(acc, l, limit, v, m - 1)
    BY <1>3, <2>1
  <2>3. f[m] = Visit(acc, l[m], limit, v)
    BY <1>6, <1>8, <2>2 DEF ScanRule
  <2> QED
    BY <1>1, <1>6, <2>1, <2>2, <2>3, ScanStep
<1> QED
  BY <1>7, <1>8

\* The same positions, counted from the other end.
Mirror(K, n) == {n + 1 - k : k \in K}

\* They are as many, and in the opposite order.
LEMMA MirrorAscending ==
    ASSUME NEW n \in Nat, NEW K, K \subseteq 1 .. n
    PROVE  /\ Mirror(K, n) \subseteq 1 .. n
           /\ Cardinality(Mirror(K, n)) = Cardinality(K) /\ Cardinality(K) \in Nat
           /\ \A i \in 1 .. Cardinality(K) :
                 Ascending(Mirror(K, n))[i] = n + 1 - Ascending(K)[Cardinality(K) + 1 - i]
<1>1. PICK L : L = Mirror(K, n) /\ L \subseteq 1 .. n
  <2>1. \A k \in K : n + 1 - k \in 1 .. n
    OBVIOUS
  <2> QED
    BY <2>1 DEF Mirror
<1>2. IsFiniteSet(1 .. n)
  BY FS_Interval
<1>3. IsFiniteSet(K) /\ K \subseteq Int /\ IsFiniteSet(L) /\ L \subseteq Int
  <2>1. IsFiniteSet(K) /\ IsFiniteSet(L)
    BY <1>1, <1>2, FS_Subset
  <2>2. 1 .. n \subseteq Int
    OBVIOUS
  <2> QED
    BY <1>1, <2>1, <2>2
<1>4. PICK m \in Nat : m = Cardinality(K)
  BY <1>3, FS_CardinalityType
<1>5. PICK a \in Seq(K) : a = Ascending(K) /\ DOMAIN a = 1 .. m /\ Sorts(a, K)
  BY <1>3, <1>4, AscendingSorts
<1>6. \A i \in 1 .. m : a[i] \in K /\ a[i] \in 1 .. n
  <2>1. \A i \in 1 .. m : a[i] \in K
    BY <1>5
  <2> QED
    BY <2>1
<1>7. PICK b : b = [i \in 1 .. m |-> n + 1 - a[m + 1 - i]]
  OBVIOUS
<1>8. \A i \in 1 .. m : m + 1 - i \in 1 .. m
  OBVIOUS
<1>9. b \in [1 .. m -> L]
  <2>1. \A i \in 1 .. m : n + 1 - a[m + 1 - i] \in L
    BY <1>1, <1>6, <1>8 DEF Mirror
  <2> QED
    BY <1>7, <2>1
<1>10. b \in Seq(L) /\ Len(b) = m /\ DOMAIN b = 1 .. m
  BY <1>9, FunctionSeq
<1>11. ASSUME NEW i \in 1 .. m, NEW j \in 1 .. m, i < j PROVE b[i] < b[j]
  <2>1. PICK p \in 1 .. m, q \in 1 .. m : p = m + 1 - i /\ q = m + 1 - j /\ q < p
    BY <1>11
  <2>2. a[p] \in Int /\ a[q] \in Int
    BY <1>6
  <2>3. a[q] < a[p]
    BY <1>5, <2>1 DEF Sorts
  <2>4. b[i] = n + 1 - a[p] /\ b[j] = n + 1 - a[q]
    BY <1>7, <2>1
  <2> QED
    BY <2>2, <2>3, <2>4
<1>12. ASSUME NEW x \in L PROVE \E i \in 1 .. m : b[i] = x
  <2>1. PICK k \in K : x = n + 1 - k
    BY <1>1 DEF Mirror
  <2>2. PICK j \in 1 .. m : a[j] = k
    BY <1>5 DEF Sorts
  <2>3. PICK i \in 1 .. m : i = m + 1 - j /\ m + 1 - i = j
    <3>1. m + 1 - j \in 1 .. m /\ m + 1 - (m + 1 - j) = j
      OBVIOUS
    <3> QED
      BY <3>1
  <2> QED
    BY <1>7, <2>1, <2>2, <2>3
<1>13. Sorts(b, L)
  BY <1>10, <1>11, <1>12 DEF Sorts
<1>14. b = Ascending(L) /\ Len(Ascending(L)) = Cardinality(L)
  BY <1>3, <1>13, AscendingSorts
<1> QED
  BY <1>1, <1>4, <1>5, <1>7, <1>10, <1>14

\* Selecting from the reversed list and turning the selection round.
LEMMA ReverseSelection ==
    ASSUME NEW S, NEW l \in Seq(S), NEW K, K \subseteq 1 .. Len(l)
    PROVE  Reverse(Selection(Reverse(l), K)) = Selection(l, Mirror(K, Len(l)))
<1>1. PICK n \in Nat : n = Len(l) /\ DOMAIN l = 1 .. n
  OBVIOUS
<1>2. PICK r : r = Reverse(l) /\ r = [i \in 1 .. n |-> l[n - i + 1]]
  BY <1>1 DEF Reverse
<1>3. r \in Seq(S) /\ Len(r) = n /\ DOMAIN r = 1 .. n
  <2>1. \A i \in 1 .. n : n - i + 1 \in 1 .. n
    OBVIOUS
  <2>2. r \in [1 .. n -> S]
    BY <1>1, <1>2, <2>1
  <2> QED
    BY <2>2, FunctionSeq
<1>4. PICK L : L = Mirror(K, n) /\ L \subseteq 1 .. n
  BY <1>1, MirrorAscending
<1>5. PICK m \in Nat : m = Cardinality(K) /\ m = Cardinality(L)
  BY <1>1, <1>4, MirrorAscending
<1>6. IsFiniteSet(K) /\ K \subseteq Int
  BY <1>1, <1>3, SelectionFacts
<1>7. PICK a \in Seq(K) : a = Ascending(K) /\ DOMAIN a = 1 .. m
  BY <1>5, <1>6, AscendingSorts
<1>8. PICK s \in Seq(S) : s = Selection(r, K) /\ Len(s) = m /\ \A i \in 1 .. m : s[i] = r[a[i]]
  <2>1. /\ Selection(r, K) \in Seq(S) /\ Len(Selection(r, K)) = Cardinality(K)
        /\ \A i \in 1 .. Cardinality(K) : Selection(r, K)[i] = r[Ascending(K)[i]]
    <3>1. K \subseteq DOMAIN r
      BY <1>1, <1>3
    <3> QED
      BY <1>3, <3>1, SelectionFacts
  <2> QED
    BY <1>5, <1>7, <2>1
<1>9. PICK t \in Seq(S) : /\ t = Selection(l, L) /\ Len(t) = m
                          /\ \A i \in 1 .. m : t[i] = l[n + 1 - a[m + 1 - i]]
  <2>1. /\ Selection(l, L) \in Seq(S) /\ Len(Selection(l, L)) = Cardinality(L)
        /\ \A i \in 1 .. Cardinality(L) : Selection(l, L)[i] = l[Ascending(L)[i]]
    BY <1>1, <1>4, SelectionFacts
  <2>2. \A i \in 1 .. m : Ascending(L)[i] = n + 1 - a[m + 1 - i]
    <3>1. \A i \in 1 .. Cardinality(K) :
             Ascending(Mirror(K, n))[i] = n + 1 - Ascending(K)[Cardinality(K) + 1 - i]
      BY <1>1, MirrorAscending
    <3> QED
      BY <1>4, <1>5, <1>7, <3>1
  <2>3. \A i \in 1 .. m : Selection(l, L)[i] = l[n + 1 - a[m + 1 - i]]
    BY <1>5, <2>1, <2>2, Zenon
  <2>4. Selection(l, L) \in Seq(S) /\ Len(Selection(l, L)) = m
    BY <1>5, <2>1, Zenon
  <2> QED
    BY <2>3, <2>4
<1>10. PICK u \in Seq(S) : u = Reverse(s) /\ Len(u) = m /\ \A i \in 1 .. m : u[i] = s[m - i + 1]
  <2>1. PICK u : u = Reverse(s) /\ u = [i \in 1 .. m |-> s[m - i + 1]]
    BY <1>8 DEF Reverse
  <2>2. \A i \in 1 .. m : m - i + 1 \in 1 .. m
    OBVIOUS
  <2>3. u \in [1 .. m -> S]
    BY <1>8, <2>1, <2>2
  <2>4. u \in Seq(S) /\ Len(u) = m
    BY <2>3, FunctionSeq
  <2> QED
    BY <2>1, <2>4
<1>11. ASSUME NEW i \in 1 .. m PROVE u[i] = t[i]
  <2>1. PICK j \in 1 .. m : j = m - i + 1 /\ m + 1 - i = j
    <3>1. m - i + 1 \in 1 .. m /\ m + 1 - i = m - i + 1
      OBVIOUS
    <3> QED
      BY <3>1
  <2>2. PICK k \in 1 .. n : k = a[j]
    <3>1. a[j] \in K
      BY <1>7
    <3> QED
      BY <1>1, <3>1
  <2>3. u[i] = r[k] /\ t[i] = l[n + 1 - k]
    BY <1>8, <1>9, <1>10, <2>1, <2>2
  <2>4. r[k] = l[n - k + 1] /\ n - k + 1 = n + 1 - k
    BY <1>2
  <2> QED
    BY <2>3, <2>4
<1>12. u = t
  BY <1>9, <1>10, <1>11, SeqEqual
<1> QED
  BY <1>1, <1>2, <1>4, <1>8, <1>9, <1>10, <1>12

\* The elements equal to v on one side of a position.
OnSide(l, count, v, i) == {j \in DOMAIN l : l[j] = v /\ (IF count > 0 THEN j < i ELSE j > i)}

\* The positions that LREM keeps.
Staying(l, count, v) ==
    {i \in DOMAIN l : l[i] = v => /\ count # 0
                                  /\ Cardinality(OnSide(l, count, v, i))
                                        >= (IF count > 0 THEN count ELSE -count)}

\* The reference for LREM selects exactly these.
LEMMA WithoutStays ==
    \A l, count, v : ListWithout(l, count, v) = Selection(l, Staying(l, count, v))
  BY DEF ListWithout, Staying, OnSide

\* LREM with a positive count, or with 0.
LEMMA ForwardStays ==
    ASSUME NEW S, NEW l \in Seq(S), NEW count \in Nat, NEW v
    PROVE  /\ count > 0 => Staying(l, count, v) = KeptOf(l, count, v, Len(l))
           /\ Staying(l, 0, v) = KeptOf(l, Len(l), v, Len(l))
<1>1. PICK n \in Nat : n = Len(l) /\ DOMAIN l = 1 .. n
  OBVIOUS
<1>2. ASSUME count > 0, NEW i \in 1 .. n
      PROVE  i \in Staying(l, count, v) <=> i \in KeptOf(l, count, v, n)
  <2>1. OnSide(l, count, v, i) = {j \in 1 .. i - 1 : l[j] = v}
    BY <1>1, <1>2 DEF OnSide
  <2>2. Cardinality(OnSide(l, count, v, i)) = Hits(l, v, i - 1)
    BY <2>1 DEF Hits
  <2> QED
    BY <1>1, <1>2, <2>2 DEF Staying, KeptOf
<1>3. ASSUME NEW i \in 1 .. n
      PROVE  i \in Staying(l, 0, v) <=> i \in KeptOf(l, n, v, n)
  <2>1. PICK k \in Nat : k = i - 1 /\ k < n
    OBVIOUS
  <2>2. Hits(l, v, k) \in Nat /\ Hits(l, v, k) <= k
    BY HitsStep
  <2>3. ~(Hits(l, v, i - 1) >= n)
    BY <2>1, <2>2
  <2>4. i \in KeptOf(l, n, v, n) <=> l[i] # v
    BY <2>3 DEF KeptOf
  <2>5. i \in Staying(l, 0, v) <=> l[i] # v
    BY <1>1 DEF Staying
  <2> QED
    BY <2>4, <2>5
<1>4. /\ \A c : Staying(l, c, v) \subseteq 1 .. n
      /\ \A c : KeptOf(l, c, v, n) \subseteq 1 .. n
  BY <1>1 DEF Staying, KeptOf
<1> QED
  BY <1>1, <1>2, <1>3, <1>4

\* LREM with a negative count.
LEMMA BackwardStays ==
    ASSUME NEW S, NEW l \in Seq(S), NEW limit \in Nat, limit > 0, NEW v
    PROVE  Staying(l, -limit, v) = Mirror(KeptOf(Reverse(l), limit, v, Len(l)), Len(l))
<1>1. PICK n \in Nat : n = Len(l) /\ DOMAIN l = 1 .. n
  OBVIOUS
<1>2. PICK r : r = Reverse(l) /\ r = [i \in 1 .. n |-> l[n - i + 1]]
  BY <1>1 DEF Reverse
<1>3. PICK c \in Int : c = -limit /\ ~(c > 0) /\ c # 0 /\ -c = limit
  <2>1. -limit \in Int /\ ~(-limit > 0) /\ -limit # 0 /\ -(-limit) = limit
    OBVIOUS
  <2> QED
    BY <2>1
<1>4. ASSUME NEW i \in 1 .. n, NEW k, k = n + 1 - i
      PROVE  i \in Staying(l, c, v) <=> k \in KeptOf(r, limit, v, n)
  <2>1. k \in 1 .. n /\ r[k] = l[i]
    <3>1. k \in 1 .. n /\ n - k + 1 = i
      BY <1>4
    <3> QED
      BY <1>2, <3>1
  <2>2. PICK A, B : A = {j \in 1 .. k - 1 : r[j] = v} /\ B = OnSide(l, c, v, i)
    OBVIOUS
  <2>3. B = {j \in 1 .. n : l[j] = v /\ j > i}
    BY <1>1, <1>3, <2>2 DEF OnSide
  <2>4. PICK f : f = [j \in A |-> n + 1 - j]
    OBVIOUS
  <2>5. ASSUME NEW j \in A PROVE f[j] = n + 1 - j /\ f[j] \in B /\ j \in Int
    <3>1. j \in 1 .. k - 1 /\ r[j] = v
      BY <2>2
    <3>2. j \in 1 .. n /\ n + 1 - j \in 1 .. n /\ n + 1 - j > i /\ n - j + 1 = n + 1 - j
      BY <1>4, <2>1, <3>1
    <3>3. r[j] = l[n + 1 - j]
      BY <1>2, <3>2
    <3> QED
      BY <2>3, <2>4, <3>1, <3>2, <3>3
  <2>6. ASSUME NEW x \in B PROVE \E j \in A : f[j] = x
    <3>1. x \in 1 .. n /\ l[x] = v /\ x > i
      BY <2>3
    <3>2. PICK j \in 1 .. n : j = n + 1 - x /\ n - j + 1 = x /\ n + 1 - j = x /\ j \in 1 .. k - 1
      <4>1. /\ n + 1 - x \in 1 .. n /\ n - (n + 1 - x) + 1 = x /\ n + 1 - (n + 1 - x) = x
            /\ n + 1 - x \in 1 .. k - 1
        BY <1>4, <3>1
      <4> QED
        BY <4>1
    <3>3. r[j] = l[x]
      BY <1>2, <3>2
    <3> QED
      BY <2>2, <2>4, <3>1, <3>2, <3>3
  <2>7. f \in Bijection(A, B)
    <3>1. f \in [A -> B]
      BY <2>4, <2>5
    <3>2. \A p, q \in A : f[p] = f[q] => p = q
      BY <2>5
    <3>3. f \in Injection(A, B)
      BY <3>1, <3>2 DEF Injection, IsInjective
    <3>4. f \in Surjection(A, B)
      BY <2>6, <3>1 DEF Surjection
    <3> QED
      BY <3>3, <3>4 DEF Bijection
  <2>8. Cardinality(B) = Cardinality(A)
    <3>1. A \in SUBSET (1 .. k - 1) /\ k - 1 \in Int
      BY <2>1, <2>2
    <3>2. IsFiniteSet(A)
      <4>1. IsFiniteSet(1 .. k - 1)
        BY <3>1, FS_Interval
      <4> QED
        BY <3>1, <4>1, FS_Subset
    <3> QED
      BY <2>7, <3>2, FS_Bijection DEF ExistsBijection
  <2>9. Cardinality(A) = Hits(r, v, k - 1)
    BY <2>2 DEF Hits
  <2>10. i \in Staying(l, c, v) <=> (l[i] = v => Cardinality(B) >= limit)
    BY <1>1, <1>3, <2>2 DEF Staying
  <2>11. k \in KeptOf(r, limit, v, n) <=> (r[k] = v => Hits(r, v, k - 1) >= limit)
    BY <2>1 DEF KeptOf
  <2> QED
    BY <2>1, <2>8, <2>9, <2>10, <2>11
<1>5. Staying(l, c, v) \subseteq 1 .. n /\ KeptOf(r, limit, v, n) \subseteq 1 .. n
  BY <1>1 DEF Staying, KeptOf
<1>6. ASSUME NEW i \in Staying(l, c, v) PROVE i \in Mirror(KeptOf(r, limit, v, n), n)
  <2>1. PICK k : k = n + 1 - i /\ n + 1 - k = i
    <3>1. n + 1 - (n + 1 - i) = i
      BY <1>5
    <3> QED
      BY <3>1
  <2>2. k \in KeptOf(r, limit, v, n)
    BY <1>4, <1>5, <2>1
  <2> QED
    BY <2>1, <2>2 DEF Mirror
<1>7. ASSUME NEW i \in Mirror(KeptOf(r, limit, v, n), n) PROVE i \in Staying(l, c, v)
  <2>1. PICK k \in KeptOf(r, limit, v, n) : i = n + 1 - k
    BY DEF Mirror
  <2>2. i \in 1 .. n /\ k = n + 1 - i
    BY <1>5, <2>1
  <2> QED
    BY <1>4, <2>1, <2>2
<1> QED
  BY <1>1, <1>2, <1>3, <1>6, <1>7

\* LREM removes the occurrences it is asked for.
LEMMA RemMatches ==
    ASSUME NEW S, NEW l \in Seq(S), NEW count \in Int, NEW v
    PROVE  Rem(l, count, v) = ListWithout(l, count, v)
<1>1. CASE count = 0
  <2>1. Len(l) \in Nat /\ Rem(l, count, v) = ScanOut(l, Len(l), v)
    BY <1>1 DEF Rem
  <2>2. ScanOut(l, Len(l), v) = Selection(l, KeptOf(l, Len(l), v, Len(l)))
    BY <2>1, ScanSelects
  <2>3. Staying(l, 0, v) = KeptOf(l, Len(l), v, Len(l))
    BY ForwardStays
  <2> QED
    BY <1>1, <2>1, <2>2, <2>3, WithoutStays
<1>2. CASE count > 0
  <2>1. count \in Nat /\ Rem(l, count, v) = ScanOut(l, count, v)
    BY <1>2 DEF Rem
  <2>2. ScanOut(l, count, v) = Selection(l, KeptOf(l, count, v, Len(l)))
    BY <2>1, ScanSelects
  <2>3. Staying(l, count, v) = KeptOf(l, count, v, Len(l))
    BY <1>2, <2>1, ForwardStays
  <2> QED
    BY <2>1, <2>2, <2>3, WithoutStays
<1>3. CASE count < 0
  <2>1. PICK limit \in Nat : limit = -count /\ limit > 0 /\ count = -limit
    <3>1. -count \in Nat /\ -count > 0 /\ count = -(-count)
      BY <1>3
    <3> QED
      BY <3>1
  <2>2. PICK r : r = Reverse(l)
    OBVIOUS
  <2>3. Rem(l, count, v) = Reverse(ScanOut(r, limit, v))
    BY <1>3, <2>1, <2>2 DEF Rem
  <2>4. r \in Seq(S) /\ Len(r) = Len(l)
    BY <2>2 DEF Reverse
  <2>5. PICK K : K = KeptOf(r, limit, v, Len(l)) /\ K \subseteq 1 .. Len(l)
    BY DEF KeptOf
  <2>6. ScanOut(r, limit, v) = Selection(r, K)
    BY <2>4, <2>5, ScanSelects
  <2>7. Reverse(Selection(r, K)) = Selection(l, Mirror(K, Len(l)))
    BY <2>2, <2>5, ReverseSelection
  <2>8. Staying(l, count, v) = Mirror(K, Len(l))
    BY <2>1, <2>2, <2>5, BackwardStays
  <2> QED
    BY <2>3, <2>6, <2>7, <2>8, WithoutStays
<1> QED
  BY <1>1, <1>2, <1>3

-----------------------------------------------------------------------------
(* Sorted sets. *)

\* A member that is put again, its old index key dropped, is in both halves.
LEMMA PutAgrees ==
    ASSUME NEW z, Agree(z), NEW member \in Bytes, NEW score \in Int
    PROVE  /\ Agree(PutMember(DropIndexKey(z, member), member, score))
           /\ DOMAIN PutMember(DropIndexKey(z, member), member, score).entries
                 = DOMAIN z.entries \cup {member}
<1>1. PICK y : y = DropIndexKey(z, member)
  OBVIOUS
<1>2. y.entries = z.entries /\ y.index = {<<z.entries[m], m>> : m \in DOMAIN z.entries \ {member}}
  <2>1. CASE member \in DOMAIN z.entries
    <3>1. y.entries = z.entries /\ y.index = z.index \ {<<z.entries[member], member>>}
      BY <1>1, <2>1 DEF DropIndexKey, Agree
    <3> QED
      BY <2>1, <3>1 DEF Agree
  <2>2. CASE member \notin DOMAIN z.entries
    BY <1>1, <2>2 DEF DropIndexKey, Agree
  <2> QED
    BY <2>1, <2>2
<1>3. PICK f : f = SetEntry(z.entries, member, score)
  OBVIOUS
<1>4. /\ DOMAIN f = DOMAIN z.entries \cup {member} /\ f[member] = score
      /\ \A m \in DOMAIN z.entries : m # member => f[m] = z.entries[m]
  BY <1>3 DEF SetEntry
<1>5. PutMember(y, member, score) = [index |-> y.index \cup {<<score, member>>}, entries |-> f]
  BY <1>2, <1>3 DEF PutMember
<1>6. y.index \cup {<<score, member>>} = {<<f[m], m>> : m \in DOMAIN f}
  BY <1>2, <1>4
<1>7. Scores(f)
  BY <1>3, EntryGood DEF Agree, Scores
<1> QED
  BY <1>1, <1>4, <1>5, <1>6, <1>7 DEF Agree

\* ZADD of one member: the halves agree, no member is lost, and without XX there
\* is one.
LEMMA AddAgrees ==
    ASSUME NEW z, Agree(z), NEW options, NEW score \in Int, NEW member \in Bytes
    PROVE  /\ Agree(AddMember(z, options, score, member))
           /\ DOMAIN z.entries \subseteq DOMAIN AddMember(z, options, score, member).entries
           /\ "xx" \notin options => DOMAIN AddMember(z, options, score, member).entries # {}
<1>1. PICK y, s : y = AddMember(z, options, score, member)
                  /\ \/ y = PutMember(DropIndexKey(z, member), member, s) /\ s \in Int
                     \/ y = z /\ ("xx" \notin options => member \in DOMAIN z.entries)
  <2>1. PICK s : s = IF "incr" \in options /\ member \in DOMAIN z.entries
                     THEN z.entries[member] + score ELSE score
    OBVIOUS
  <2>2. s \in Int
    BY <2>1 DEF Agree, Scores
  <2> QED
    BY <2>1, <2>2 DEF AddMember
<1>2. CASE y = PutMember(DropIndexKey(z, member), member, s) /\ s \in Int
  <2>1. Agree(y) /\ DOMAIN y.entries = DOMAIN z.entries \cup {member}
    BY <1>2, PutAgrees
  <2> QED
    BY <1>1, <2>1
<1>3. CASE y = z /\ ("xx" \notin options => member \in DOMAIN z.entries)
  BY <1>1, <1>3
<1> QED
  BY <1>1, <1>2, <1>3

\* ZINCRBY.
LEMMA IncrAgrees ==
    ASSUME NEW z, Agree(z), NEW delta \in Int, NEW member \in Bytes
    PROVE  /\ Agree(IncrMember(z, delta, member))
           /\ member \in DOMAIN IncrMember(z, delta, member).entries
<1>1. PICK old : old = IF member \in DOMAIN z.entries THEN z.entries[member] ELSE 0
  OBVIOUS
<1>2. old + delta \in Int
  BY <1>1 DEF Agree, Scores
<1>3. IncrMember(z, delta, member) = PutMember(DropIndexKey(z, member), member, old + delta)
  BY <1>1 DEF IncrMember
<1> QED
  BY <1>2, <1>3, PutAgrees

\* The commands that remove pairs of the index remove the same members from the map.
LEMMA DropAgrees ==
    ASSUME NEW z, Agree(z), NEW pairs, pairs \subseteq z.index
    PROVE  Agree(DropPairs(z, pairs))
<1>1. PICK y, f : y = DropPairs(z, pairs) /\ f = y.entries
  OBVIOUS
<1>2. PICK gone : gone = {p[2] : p \in pairs}
  OBVIOUS
<1>3. /\ y = [index |-> z.index \ pairs, entries |-> f]
      /\ DOMAIN f = DOMAIN z.entries \ gone /\ \A m \in DOMAIN f : f[m] = z.entries[m]
  BY <1>1, <1>2 DEF DropPairs, Restrict
<1>4. \A m \in DOMAIN z.entries : <<z.entries[m], m>> \in pairs <=> m \in gone
  <2> SUFFICES ASSUME NEW m \in DOMAIN z.entries
               PROVE  <<z.entries[m], m>> \in pairs <=> m \in gone
    OBVIOUS
  <2>1. ASSUME m \in gone PROVE <<z.entries[m], m>> \in pairs
    <3>1. PICK p \in pairs : p[2] = m
      BY <1>2, <2>1
    <3>2. PICK n \in DOMAIN z.entries : p = <<z.entries[n], n>>
      BY DEF Agree
    <3> QED
      BY <3>1, <3>2
  <2>2. ASSUME <<z.entries[m], m>> \in pairs PROVE m \in gone
    <3>1. <<z.entries[m], m>>[2] \in gone
      BY <1>2, <2>2
    <3> QED
      BY <3>1
  <2> QED
    BY <2>1, <2>2
<1>5. z.index \ pairs = {<<f[m], m>> : m \in DOMAIN f}
  BY <1>3, <1>4 DEF Agree
<1>6. Scores(f)
  BY <1>1, PartGood DEF Agree, DropPairs
<1> QED
  BY <1>1, <1>3, <1>5, <1>6 DEF Agree

\* A sorted set filled from a map.
LEMMA EntriesAgree == \A f : Scores(f) => Agree(FromEntries(f))
  BY DEF Agree, FromEntries

\* A sorted set filled from pairs of another one.
LEMMA PairsAgree ==
    ASSUME NEW z, Agree(z), NEW pairs, pairs \subseteq z.index
    PROVE  Agree(FromPairs(pairs))
<1>2. PICK g : g = [m \in {p[2] : p \in pairs} |-> (CHOOSE p \in pairs : p[2] = m)[1]]
  OBVIOUS
<1>3. FromPairs(pairs) = [index |-> pairs, entries |-> g]
  BY <1>2 DEF FromPairs
<1>4. ASSUME NEW p \in pairs
      PROVE  p = <<p[1], p[2]>> /\ \A q \in pairs : q[2] = p[2] => q = p
  BY DEF Agree
<1>5. ASSUME NEW p \in pairs
      PROVE  p[2] \in DOMAIN g /\ <<g[p[2]], p[2]>> = p
  <2>1. PICK q : q = CHOOSE r \in pairs : r[2] = p[2]
    OBVIOUS
  <2>2. q \in pairs /\ q[2] = p[2]
    BY <2>1
  <2>3. q = p
    BY <1>4, <2>2
  <2>4. p[2] \in DOMAIN g /\ g[p[2]] = q[1]
    BY <1>2, <2>1
  <2> QED
    BY <1>4, <2>3, <2>4
<1>6. ASSUME NEW m \in DOMAIN g PROVE \E p \in pairs : p[2] = m
  BY <1>2
<1>7. pairs = {<<g[m], m>> : m \in DOMAIN g}
  BY <1>5, <1>6
<1>8. Scores(g)
  <2>1. ASSUME NEW m \in DOMAIN g PROVE m \in DOMAIN z.entries /\ g[m] \in Int
    <3>1. PICK p \in pairs : p[2] = m
      BY <1>6
    <3>2. PICK n \in DOMAIN z.entries : p = <<z.entries[n], n>>
      BY DEF Agree
    <3>3. n = m /\ g[m] = z.entries[m]
      BY <1>5, <3>1, <3>2
    <3> QED
      BY <3>3 DEF Agree, Scores
  <2>2. Members(DOMAIN g)
    BY <2>1, PartGood DEF Agree, Scores, Fields
  <2>3. g = [m \in DOMAIN g |-> g[m]]
    BY <1>2
  <2> QED
    BY <2>1, <2>2, <2>3 DEF Scores, Fields
<1> QED
  BY <1>3, <1>7, <1>8 DEF Agree

\* An agreeing sorted set with a member is not the empty one.
LEMMA NotEmpty ==
    ASSUME NEW z, DOMAIN z.entries # {}
    PROVE  z # EmptyZSet
  BY DEF EmptyZSet

\* The sorted sets of a ZADD, one after each member.
AddRule(f, z, options, scored, i) ==
    f[i] = IF i = 0 THEN z ELSE AddMember(f[i - 1], options, scored[i][1], scored[i][2])

\* All of them.
Adds(f, z, options, scored, n) ==
    /\ f = [i \in 0..n |-> f[i]]
    /\ \A i \in 0..n : AddRule(f, z, options, scored, i)

\* There is one after each member.
LEMMA AddsExist ==
    ASSUME NEW z, NEW options, NEW scored, NEW n \in Nat
    PROVE  \E f : Adds(f, z, options, scored, n)
<1> SUFFICES ASSUME ~ \E f : Adds(f, z, options, scored, n) PROVE FALSE
  OBVIOUS
<1>1. PICK T \in SUBSET Nat : \A i \in Nat : i \in T <=> ~ \E f : Adds(f, z, options, scored, i)
  <2>1. {i \in Nat : ~ \E f : Adds(f, z, options, scored, i)} \in SUBSET Nat
    OBVIOUS
  <2> QED
    BY <2>1, Zenon
<1>2. PICK m \in T : \A i \in T : m <= i
  BY <1>1, LeastNumber
<1>3. m # 0
  <2>1. PICK f : f = [i \in 0..0 |-> z]
    OBVIOUS
  <2>2. Adds(f, z, options, scored, 0)
    BY <2>1 DEF Adds, AddRule
  <2> QED
    BY <1>1, <2>2
<1>4. m \in Nat /\ m - 1 \in Nat /\ m - 1 \notin T
  BY <1>2, <1>3
<1>5. PICK g : Adds(g, z, options, scored, m - 1)
  BY <1>1, <1>4
<1>6. PICK f : f = [i \in 0..m |-> IF i < m THEN g[i]
                                   ELSE AddMember(g[m - 1], options, scored[m][1], scored[m][2])]
  OBVIOUS
<1>7. ASSUME NEW i \in 0..m
      PROVE  AddRule(f, z, options, scored, i)
  <2>1. CASE i = m
    BY <1>3, <1>4, <1>6, <2>1 DEF AddRule
  <2>2. CASE i < m
    <3>1. AddRule(g, z, options, scored, i) /\ f[i] = g[i] /\ (i # 0 => f[i - 1] = g[i - 1])
      BY <1>4, <1>5, <1>6, <2>2 DEF Adds
    <3> QED
      BY <3>1 DEF AddRule
  <2> QED
    BY <1>4, <2>1, <2>2
<1>8. Adds(f, z, options, scored, m)
  BY <1>6, <1>7 DEF Adds
<1> QED
  BY <1>1, <1>2, <1>4, <1>8

\* AddMembers is the last one.
LEMMA AddMembersAdds ==
    ASSUME NEW z, NEW options, NEW scored, Len(scored) \in Nat
    PROVE  \E f : /\ Adds(f, z, options, scored, Len(scored))
                  /\ AddMembers(z, options, scored) = f[Len(scored)]
<1>1. PICK n \in Nat : n = Len(scored)
  OBVIOUS
<1>2. PICK f : Adds(f, z, options, scored, n)
  BY AddsExist
<1>3. f = [i \in 0..n |-> IF i = 0 THEN z
                          ELSE AddMember(f[i - 1], options, scored[i][1], scored[i][2])]
  BY <1>2 DEF Adds, AddRule
<1>4. PICK h : h = CHOOSE g : g = [i \in 0..n |-> IF i = 0 THEN z
                                     ELSE AddMember(g[i - 1], options, scored[i][1], scored[i][2])]
  OBVIOUS
<1>5. h = [i \in 0..n |-> IF i = 0 THEN z
                          ELSE AddMember(h[i - 1], options, scored[i][1], scored[i][2])]
  BY <1>3, <1>4
<1>6. Adds(h, z, options, scored, n)
  BY <1>5 DEF Adds, AddRule
<1>7. AddMembers(z, options, scored) = h[n]
  BY <1>1, <1>4 DEF AddMembers
<1> QED
  BY <1>1, <1>6, <1>7

\* What holds after i members of a ZADD.
AddedSoFar(y, z, options, i) ==
    /\ Agree(y) /\ DOMAIN z.entries \subseteq DOMAIN y.entries
    /\ "xx" \notin options /\ i > 0 => DOMAIN y.entries # {}

\* ZADD: the halves agree, no member is lost, and without XX there is one.
LEMMA AddMembersAgrees ==
    ASSUME NEW z, Agree(z), NEW options, NEW scored \in Seq(Int \X Bytes)
    PROVE  AddedSoFar(AddMembers(z, options, scored), z, options, Len(scored))
<1>1. PICK n \in Nat : n = Len(scored)
  OBVIOUS
<1>2. PICK f : Adds(f, z, options, scored, n) /\ AddMembers(z, options, scored) = f[n]
  BY <1>1, AddMembersAdds
<1> SUFFICES ASSUME ~AddedSoFar(f[n], z, options, n) PROVE FALSE
  BY <1>1, <1>2
<1>3. PICK T \in SUBSET Nat : \A i \in Nat : i \in T <=> i \in 0..n /\ ~AddedSoFar(f[i], z, options, i)
  <2>1. {i \in Nat : i \in 0..n /\ ~AddedSoFar(f[i], z, options, i)} \in SUBSET Nat
    OBVIOUS
  <2> QED
    BY <2>1, Zenon
<1>4. T # {}
  BY <1>3
<1>5. PICK m \in T : \A i \in T : m <= i
  BY <1>4, LeastNumber
<1>6. m \in 0..n /\ ~AddedSoFar(f[m], z, options, m) /\ AddRule(f, z, options, scored, m)
  BY <1>2, <1>3, <1>5 DEF Adds
<1>7. CASE m = 0
  BY <1>6, <1>7 DEF AddRule, AddedSoFar
<1>8. CASE m # 0
  <2>1. m - 1 \in 0..n /\ m - 1 \in Nat /\ m - 1 \notin T
    BY <1>5, <1>6, <1>8
  <2>2. PICK y : y = f[m - 1] /\ Agree(y) /\ DOMAIN z.entries \subseteq DOMAIN y.entries
    BY <1>3, <2>1 DEF AddedSoFar
  <2>3. PICK s \in Int, e \in Bytes : f[m] = AddMember(y, options, s, e)
    <3>1. scored[m] \in Int \X Bytes
      BY <1>1, <1>6, <1>8
    <3>2. scored[m][1] \in Int /\ scored[m][2] \in Bytes
      BY <3>1
    <3> QED
      BY <1>6, <1>8, <2>2, <3>2 DEF AddRule
  <2>4. /\ Agree(AddMember(y, options, s, e))
        /\ DOMAIN y.entries \subseteq DOMAIN AddMember(y, options, s, e).entries
        /\ "xx" \notin options => DOMAIN AddMember(y, options, s, e).entries # {}
    BY <2>2, AddAgrees
  <2> QED
    BY <1>6, <2>2, <2>3, <2>4 DEF AddedSoFar
<1> QED
  BY <1>7, <1>8

\* The pairs that the removals name are pairs of the index.
LEMMA PairsOfIndex ==
    ASSUME NEW z, Agree(z)
    PROVE  /\ \A members : PairsOf(z, members) \subseteq z.index
           /\ \A min, max : PairsByScore(z, min, max) \subseteq z.index
           /\ \A min, max : PairsByLex(z, min, max) \subseteq z.index
<1>1. \A members : PairsOf(z, members) \subseteq z.index
  BY DEF Agree, PairsOf
<1>2. \A min, max : PairsByScore(z, min, max) \subseteq z.index
  BY DEF PairsByScore
<1> QED
  BY <1>1, <1>2 DEF PairsByLex

\* The commands that remove members.
LEMMA RemovalsAgree ==
    ASSUME NEW z, Agree(z)
    PROVE  /\ \A members : Agree(DropPairs(z, PairsOf(z, members)))
           /\ \A count : Agree(PopMax(z, count)) /\ Agree(PopMin(z, count))
           /\ \A start, stop : Agree(RemRangeByRank(z, start, stop))
           /\ \A min, max : Agree(RemRangeByScore(z, min, max)) /\ Agree(RemRangeByLex(z, min, max))
<1>1. \A members : Agree(DropPairs(z, PairsOf(z, members)))
  BY PairsOfIndex, DropAgrees
<1>2. \A count : Agree(PopMax(z, count)) /\ Agree(PopMin(z, count))
  <2> TAKE count
  <2>1. PICK low, high :
           /\ low \subseteq z.index /\ high \subseteq z.index
           /\ PopMin(z, count) = DropPairs(z, low) /\ PopMax(z, count) = DropPairs(z, high)
    BY DEF PopMin, PopMax
  <2> QED
    BY <2>1, DropAgrees
<1>3. \A start, stop : Agree(RemRangeByRank(z, start, stop))
  <2> TAKE start, stop
  <2>1. PICK pairs : pairs \subseteq z.index /\ RemRangeByRank(z, start, stop) = DropPairs(z, pairs)
    BY DEF RemRangeByRank
  <2> QED
    BY <2>1, DropAgrees
<1>4. \A min, max : Agree(RemRangeByScore(z, min, max)) /\ Agree(RemRangeByLex(z, min, max))
  BY PairsOfIndex, DropAgrees DEF RemRangeByScore, RemRangeByLex
<1> QED
  BY <1>1, <1>2, <1>3, <1>4

\* ZRANGESTORE stores pairs of its source.
LEMMA RangeAgrees ==
    ASSUME NEW z, Agree(z), NEW by, by \in {"lex", "score", "rank"},
           NEW min, NEW max, NEW rev, NEW limit
    PROVE  Agree(RangeZSet(z, by, min, max, rev, limit))
<1>1. PICK pairs : pairs \subseteq z.index /\ RangeZSet(z, by, min, max, rev, limit) = FromPairs(pairs)
  <2>1. CASE by = "lex"
    BY <2>1, PairsOfIndex DEF RangeZSet, ApplyLimit
  <2>2. CASE by = "score"
    BY <2>2, PairsOfIndex DEF RangeZSet, ApplyLimit
  <2>3. CASE by = "rank"
    BY <2>3 DEF RangeZSet, ApplyLimit
  <2> QED
    BY <2>1, <2>2, <2>3
<1> QED
  BY <1>1, PairsAgree

-----------------------------------------------------------------------------
(* Combinations of sorted sets. *)

\* The index holds as many pairs of a score and a member as there are members.
LEMMA IndexGood ==
    ASSUME NEW z, Agree(z)
    PROVE  /\ PairSet(z.index)
           /\ Cardinality(DOMAIN z.entries) \in Nat
           /\ Cardinality(z.index) = Cardinality(DOMAIN z.entries)
<1>1. PICK M, I : M = DOMAIN z.entries /\ I = z.index
  OBVIOUS
<1>2. IsFiniteSet(M) /\ \A m \in M : m \in Bytes /\ m \in Int /\ z.entries[m] \in Int
  BY <1>1, StorageAssumption DEF Agree, Scores, Fields, Members
<1>3. PICK f : f = [m \in M |-> <<z.entries[m], m>>]
  OBVIOUS
<1>4. I = {<<z.entries[m], m>> : m \in M}
  BY <1>1 DEF Agree
<1>5. f \in Bijection(M, I)
  <2>1. f \in [M -> I] /\ \A m \in M : f[m] = <<z.entries[m], m>>
    BY <1>3, <1>4
  <2>2. \A m, n \in M : f[m] = f[n] => m = n
    BY <2>1
  <2>3. \A p \in I : \E m \in M : f[m] = p
    BY <1>4, <2>1
  <2>4. f \in Injection(M, I) /\ f \in Surjection(M, I)
    BY <2>1, <2>2, <2>3 DEF Injection, IsInjective, Surjection
  <2> QED
    BY <2>4 DEF Bijection
<1>6. IsFiniteSet(I) /\ Cardinality(I) = Cardinality(M)
  BY <1>2, <1>5, FS_Bijection DEF ExistsBijection
<1>7. ASSUME NEW p \in I PROVE p = <<p[1], p[2]>> /\ p[1] \in Int /\ p[2] \in Int
  <2>1. PICK m \in M : p = <<z.entries[m], m>>
    BY <1>4
  <2> QED
    BY <1>2, <2>1
<1> QED
  BY <1>1, <1>2, <1>6, <1>7, FS_CardinalityType DEF PairSet

\* The sums of the first scores.
SumRule(f, l, i) == f[i] = IF i = 0 THEN 0 ELSE f[i - 1] + l[i]

\* All of them.
Sums(f, l, n) == f = [i \in 0..n |-> f[i]] /\ \A i \in 0..n : SumRule(f, l, i)

\* There is one for each number of scores.
LEMMA SumsExist ==
    ASSUME NEW l, NEW n \in Nat
    PROVE  \E f : Sums(f, l, n)
<1> SUFFICES ASSUME ~ \E f : Sums(f, l, n) PROVE FALSE
  OBVIOUS
<1>1. PICK T \in SUBSET Nat : \A i \in Nat : i \in T <=> ~ \E f : Sums(f, l, i)
  <2>1. {i \in Nat : ~ \E f : Sums(f, l, i)} \in SUBSET Nat
    OBVIOUS
  <2> QED
    BY <2>1, Zenon
<1>2. PICK m \in T : \A i \in T : m <= i
  BY <1>1, LeastNumber
<1>3. m # 0
  <2>1. PICK f : f = [i \in 0..0 |-> 0]
    OBVIOUS
  <2>2. Sums(f, l, 0)
    BY <2>1 DEF Sums, SumRule
  <2> QED
    BY <1>1, <2>2
<1>4. m \in Nat /\ m - 1 \in Nat /\ m - 1 \notin T
  BY <1>2, <1>3
<1>5. PICK g : Sums(g, l, m - 1)
  BY <1>1, <1>4
<1>6. PICK f : f = [i \in 0..m |-> IF i < m THEN g[i] ELSE g[m - 1] + l[m]]
  OBVIOUS
<1>7. ASSUME NEW i \in 0..m
      PROVE  SumRule(f, l, i)
  <2>1. CASE i = m
    BY <1>3, <1>4, <1>6, <2>1 DEF SumRule
  <2>2. CASE i < m
    <3>1. SumRule(g, l, i) /\ f[i] = g[i] /\ (i # 0 => f[i - 1] = g[i - 1])
      BY <1>4, <1>5, <1>6, <2>2 DEF Sums
    <3> QED
      BY <3>1 DEF SumRule
  <2> QED
    BY <1>4, <2>1, <2>2
<1>8. Sums(f, l, m)
  BY <1>6, <1>7 DEF Sums
<1> QED
  BY <1>1, <1>2, <1>4, <1>8

\* A sum of integers is an integer.
LEMMA SumInt ==
    ASSUME NEW l \in Seq(Int)
    PROVE  Aggregated("sum", l) \in Int
<1>1. PICK n \in Nat : n = Len(l) /\ \A i \in 1 .. n : l[i] \in Int
  OBVIOUS
<1>2. PICK f : Sums(f, l, n)
  BY SumsExist
<1>3. f = [i \in 0..n |-> IF i = 0 THEN 0 ELSE f[i - 1] + l[i]]
  BY <1>2 DEF Sums, SumRule
<1>4. PICK h : h = CHOOSE g : g = [i \in 0..n |-> IF i = 0 THEN 0 ELSE g[i - 1] + l[i]]
  OBVIOUS
<1>5. h = [i \in 0..n |-> IF i = 0 THEN 0 ELSE h[i - 1] + l[i]]
  BY <1>3, <1>4
<1>6. \A i \in 0..n : SumRule(h, l, i)
  BY <1>5 DEF SumRule
<1>7. Aggregated("sum", l) = h[n]
  BY <1>1, <1>4 DEF Aggregated
<1> SUFFICES ASSUME h[n] \notin Int PROVE FALSE
  BY <1>7
<1>8. PICK T \in SUBSET Nat : \A i \in Nat : i \in T <=> i \in 0..n /\ h[i] \notin Int
  <2>1. {i \in Nat : i \in 0..n /\ h[i] \notin Int} \in SUBSET Nat
    OBVIOUS
  <2> QED
    BY <2>1, Zenon
<1>9. T # {}
  BY <1>8
<1>10. PICK m \in T : \A i \in T : m <= i
  BY <1>9, LeastNumber
<1>11. m \in 0..n /\ h[m] \notin Int /\ SumRule(h, l, m)
  BY <1>6, <1>8, <1>10
<1>12. CASE m = 0
  BY <1>11, <1>12 DEF SumRule
<1>13. CASE m # 0
  <2>1. m - 1 \in 0..n /\ m - 1 \in Nat /\ m - 1 \notin T /\ m \in 1 .. n
    BY <1>10, <1>11, <1>13
  <2>2. h[m - 1] \in Int /\ l[m] \in Int
    BY <1>1, <1>8, <2>1
  <2> QED
    BY <1>11, <1>13, <2>2 DEF SumRule
<1> QED
  BY <1>12, <1>13

\* The smallest and the largest of finitely many numbers.
LEMMA FiniteExtremes ==
    ASSUME NEW S, S \subseteq Int, IsFiniteSet(S), S # {}
    PROVE  /\ Min(S) \in S /\ \A x \in S : Min(S) <= x
           /\ Max(S) \in S /\ \A x \in S : Max(S) >= x
<1>1. PICK n \in Nat : n = Cardinality(S) /\ n > 0
  <2>1. Cardinality(S) \in Nat /\ Cardinality(S) # 0
    BY FS_CardinalityType, FS_EmptySet
  <2> QED
    BY <2>1
<1>2. PICK l \in Seq(S) : l = Ascending(S) /\ Sorts(l, S) /\ DOMAIN l = 1 .. n
  BY <1>1, AscendingSorts
<1>3. l[1] \in S /\ l[n] \in S
  BY <1>1, <1>2
<1>4. \A i \in 1 .. n : l[i] \in S /\ (i # 1 => l[1] < l[i]) /\ (i # n => l[i] < l[n])
  BY <1>1, <1>2 DEF Sorts
<1>5. \A x \in S : x \in Int /\ \E i \in 1 .. n : l[i] = x
  BY <1>2 DEF Sorts
<1>6. ASSUME NEW x \in S PROVE l[1] <= x /\ l[n] >= x
  <2>1. PICK a \in Int, b \in Int : a = l[1] /\ b = l[n]
    BY <1>3, <1>5
  <2>2. PICK i \in 1 .. n : l[i] = x
    BY <1>5
  <2>3. x \in Int /\ (i # 1 => a < x) /\ (i # n => x < b) /\ (i = 1 => a = x) /\ (i = n => b = x)
    BY <1>4, <1>5, <2>1, <2>2
  <2>4. a <= x /\ b >= x
    BY <2>3
  <2> QED
    BY <2>1, <2>4
<1> QED
  BY <1>3, <1>6 DEF Min, Max

\* The score of a combination is an integer.
LEMMA AggregatedInt ==
    ASSUME NEW aggregate \in {"sum", "min", "max"}, NEW l \in Seq(Int), l # <<>>
    PROVE  Aggregated(aggregate, l) \in Int
<1>1. CASE aggregate = "sum"
  BY <1>1, SumInt
<1>2. CASE aggregate \in {"min", "max"}
  <2>1. PICK S : S = Range(l) /\ IsFiniteSet(S) /\ S \subseteq Int
    BY SeqRange
  <2>2. S # {}
    <3>1. 1 \in DOMAIN l
      OBVIOUS
    <3> QED
      BY <2>1, <3>1 DEF Range
  <2>3. Min(S) \in Int /\ Max(S) \in Int
    BY <2>1, <2>2, FiniteExtremes
  <2> QED
    BY <1>2, <2>1, <2>3 DEF Aggregated
<1> QED
  BY <1>1, <1>2

\* The operands of a STORE command: sorted sets, in the order of the sources.
Operands(zs) == /\ \E n \in Nat : DOMAIN zs = 1 .. n
                /\ \A i \in DOMAIN zs : Agree(zs[i])

\* A member of a source has a weighted score, an integer.
LEMMA WeightedInt ==
    ASSUME NEW zs, Operands(zs), NEW weights \in Seq(Int), NEW m,
           \E i \in DOMAIN zs : m \in DOMAIN zs[i].entries
    PROVE  WeightedScores(zs, weights, m) \in Seq(Int) /\ WeightedScores(zs, weights, m) # <<>>
<1>1. PICK n \in Nat : DOMAIN zs = 1 .. n
  BY DEF Operands
<1>2. PICK W : W = {i \in DOMAIN zs : m \in DOMAIN zs[i].entries}
  OBVIOUS
<1>3. W \subseteq Int /\ IsFiniteSet(W) /\ W # {}
  <2>1. W \in SUBSET (1 .. n) /\ IsFiniteSet(1 .. n)
    BY <1>1, <1>2, FS_Interval
  <2>2. IsFiniteSet(W)
    BY <2>1, FS_Subset
  <2> QED
    BY <1>2, <2>1, <2>2
<1>4. PICK k \in Nat : k = Cardinality(W) /\ k # 0
  BY <1>3, FS_CardinalityType, FS_EmptySet
<1>5. PICK a \in Seq(W) : a = Ascending(W) /\ DOMAIN a = 1 .. k
  BY <1>3, <1>4, AscendingSorts
<1>6. PICK s : s = WeightedScores(zs, weights, m)
  OBVIOUS
<1>7. s = [j \in 1 .. k |-> zs[a[j]].entries[m] * (IF a[j] \in DOMAIN weights THEN weights[a[j]] ELSE 1)]
  BY <1>2, <1>5, <1>6 DEF WeightedScores
<1>8. ASSUME NEW j \in 1 .. k PROVE s[j] \in Int
  <2>1. a[j] \in W
    BY <1>5
  <2>2. PICK i \in DOMAIN zs : i = a[j] /\ m \in DOMAIN zs[i].entries
    BY <1>2, <2>1
  <2>3. PICK x \in Int : x = zs[i].entries[m]
    BY <2>2 DEF Operands, Agree, Scores
  <2>4. PICK w \in Int : w = IF i \in DOMAIN weights THEN weights[i] ELSE 1
    OBVIOUS
  <2>5. s[j] = x * w
    BY <1>7, <2>2, <2>3, <2>4
  <2> QED
    BY <2>5
<1>9. DOMAIN s = 1 .. k /\ s = [j \in 1 .. k |-> s[j]]
  BY <1>7
<1>10. s \in Seq(Int)
  BY <1>8, <1>9, FunctionSeq
<1>11. 1 \in DOMAIN s
  BY <1>4, <1>9
<1> QED
  BY <1>6, <1>10, <1>11

\* A combination of sorted sets.
LEMMA CombineAgrees ==
    ASSUME NEW zs, Operands(zs), NEW weights \in Seq(Int),
           NEW aggregate \in {"sum", "min", "max"},
           NEW M, Members(M), \A m \in M : \E i \in DOMAIN zs : m \in DOMAIN zs[i].entries
    PROVE  Agree(CombineZSets(zs, weights, aggregate, M))
<1>1. PICK f : f = [m \in M |-> Aggregated(aggregate, WeightedScores(zs, weights, m))]
  OBVIOUS
<1>2. \A m \in M : Aggregated(aggregate, WeightedScores(zs, weights, m)) \in Int
  BY WeightedInt, AggregatedInt
<1>3. Scores(f)
  BY <1>1, <1>2 DEF Scores, Fields
<1> QED
  BY <1>1, <1>3, EntriesAgree DEF CombineZSets

\* The members of some sources.
LEMMA MembersGood ==
    ASSUME NEW zs, Operands(zs)
    PROVE  Members(UNION MembersOf(zs))
<1>1. PICK n \in Nat : DOMAIN zs = 1 .. n
  BY DEF Operands
<1>2. PICK f : f = [i \in DOMAIN zs |-> DOMAIN zs[i].entries]
  OBVIOUS
<1>3. Range(f) = MembersOf(zs)
  BY <1>2 DEF Range, MembersOf
<1>4. IsFiniteSet(DOMAIN f)
  BY <1>1, <1>2, FS_Interval
<1>5. \A T \in MembersOf(zs) : Members(T)
  BY DEF MembersOf, Operands, Agree, Scores, Fields
<1>6. IsFiniteSet(UNION MembersOf(zs))
  BY <1>3, <1>4, <1>5, RangeFinite, FS_UNION DEF Members
<1> QED
  BY <1>5, <1>6 DEF Members

\* ZUNIONSTORE, ZINTERSTORE and ZDIFFSTORE.
LEMMA CombinationsAgree ==
    ASSUME NEW zs, Operands(zs), 1 \in DOMAIN zs
    PROVE  /\ \A weights \in Seq(Int), aggregate \in {"sum", "min", "max"} :
                 /\ Agree(UnionZSets(zs, weights, aggregate))
                 /\ Agree(InterZSets(zs, weights, aggregate))
           /\ Agree(DiffZSets(zs))
<1>1. ASSUME NEW weights \in Seq(Int), NEW aggregate \in {"sum", "min", "max"}
      PROVE  /\ Agree(UnionZSets(zs, weights, aggregate))
             /\ Agree(InterZSets(zs, weights, aggregate))
  <2>1. PICK M : M = UNION MembersOf(zs) /\ Members(M)
    BY MembersGood
  <2>2. \A m \in M : \E i \in DOMAIN zs : m \in DOMAIN zs[i].entries
    BY <2>1 DEF MembersOf
  <2>3. PICK L : L = {m \in DOMAIN zs[1].entries : \A s \in MembersOf(zs) : m \in s}
    OBVIOUS
  <2>4. Members(L) /\ \A m \in L : \E i \in DOMAIN zs : m \in DOMAIN zs[i].entries
    <3>1. Members(DOMAIN zs[1].entries) /\ L \subseteq DOMAIN zs[1].entries
      BY <2>3 DEF Operands, Agree, Scores, Fields
    <3> QED
      BY <3>1, PartGood
  <2>5. Agree(CombineZSets(zs, weights, aggregate, M)) /\ Agree(CombineZSets(zs, weights, aggregate, L))
    BY <2>1, <2>2, <2>4, CombineAgrees
  <2> QED
    BY <2>1, <2>3, <2>5 DEF UnionZSets, InterZSets
<1>2. Agree(DiffZSets(zs))
  <2>1. Scores(zs[1].entries)
    BY DEF Operands, Agree
  <2> QED
    BY <2>1, PartGood, EntriesAgree DEF DiffZSets
<1> QED
  BY <1>1, <1>2

-----------------------------------------------------------------------------
(* The commands, family by family. *)

\* The commands on one key are announced for that key.
LEMMA OneKey ==
    ASSUME NEW c, c.op \in UNION {StringOps \ {"msetnx"}, ListMiddleOps, HashOps, ZSetOps,
                                  {"set", "pexpireat", "persist", "sadd", "srem", "lpush", "rpush",
                                   "lpop", "rpop", "lpop_count", "rpop_count", "lpushx", "rpushx",
                                   "move_key"}}
    PROVE  AffectedKeys(c) = {c.key}
  BY DEF AffectedKeys, PairOps, StoreOps, StringOps, ListMiddleOps, HashOps, ZSetOps

\* The commands on two keys for both.
LEMMA TwoKeys ==
    ASSUME NEW c, c.op \in PairOps
    PROVE  AffectedKeys(c) = {c.source, c.dest}
  BY DEF AffectedKeys, PairOps, StoreOps

\* The commands that store a combination for their destination and sources.
LEMMA StoreKeys ==
    ASSUME NEW c, c.op \in StoreOps
    PROVE  AffectedKeys(c) = {c.dest} \cup Range(c.sources)
  BY DEF AffectedKeys, PairOps, StoreOps

\* DEL and MSET for each of their keys.
LEMMA ManyKeys ==
    ASSUME NEW c
    PROVE  /\ c.op = "del" => AffectedKeys(c) = Range(c.keys)
           /\ c.op \in {"mset", "msetex", "msetnx"} =>
                 AffectedKeys(c) = {kv[1] : kv \in Range(c.pairs)}
  BY DEF AffectedKeys, PairOps, StoreOps

\* What several pairs write.
LEMMA WrittenFinite ==
    ASSUME NEW S, NEW pairs \in Seq(S)
    PROVE  /\ IsFiniteSet({pairs[i][1] : i \in DOMAIN pairs})
           /\ DOMAIN Written(pairs) = {pairs[i][1] : i \in DOMAIN pairs}
<1>1. PICK f : f = [i \in DOMAIN pairs |-> pairs[i][1]]
  OBVIOUS
<1>2. IsFiniteSet(DOMAIN f) /\ Range(f) = {pairs[i][1] : i \in DOMAIN pairs}
  BY <1>1, SeqRange DEF Range
<1>3. DOMAIN Written(pairs) = {pairs[i][1] : i \in DOMAIN pairs}
  BY Zenon DEF Written
<1> QED
  BY <1>2, <1>3, RangeFinite

\* Storing strings under several keys.
LEMMA MsetOutcome ==
    ASSUME NEW d, GoodDb(d), NEW S, NEW pairs \in Seq(S)
    PROVE  Outcome(d, mset(d, pairs), {kv[1] : kv \in Range(pairs)})
<1>1. PICK K : K = {kv[1] : kv \in Range(pairs)}
  OBVIOUS
<1>2. PICK w : w = Written(pairs) /\ DOMAIN w = K /\ IsFiniteSet(K)
  <2>1. K = {pairs[i][1] : i \in DOMAIN pairs}
    BY <1>1 DEF Range
  <2> QED
    BY <2>1, WrittenFinite
<1>3. PICK e : e = mset(d, pairs)
  OBVIOUS
<1>4. /\ DOMAIN e = DOMAIN d \cup K
      /\ \A k \in DOMAIN e : e[k] = IF k \in K THEN Value("str", w[k]) ELSE d[k]
  BY <1>2, <1>3 DEF mset, Overwritten
<1>5. IsFiniteSet(DOMAIN e)
  <2>1. IsFiniteSet(DOMAIN d)
    BY DEF GoodDb
  <2>2. IsFiniteSet(DOMAIN d \cup K)
    BY <1>2, <2>1, FS_Union
  <2> QED
    BY <1>4, <2>2
<1> QED
  BY <1>1, <1>3, <1>4, <1>5, StrGood DEF Outcome, Touches, GoodDb

\* RENAME.
LEMMA RenameOutcome ==
    ASSUME NEW d, GoodDb(d), NEW old, NEW new
    PROVE  Outcome(d, rename(d, old, new), {old, new})
<1>1. CASE old \in DOMAIN d
  <2>1. PICK e : e = DropKey(d, old) /\ Outcome(d, e, {old})
    BY DropOutcome DEF DropKey
  <2>2. Outcome(e, PutKey(e, new, d[old]), {new})
    BY <1>1, <2>1, PutOutcome DEF Outcome, GoodDb
  <2>3. rename(d, old, new) = PutKey(e, new, d[old])
    BY <1>1, <2>1 DEF rename
  <2>4. {old} \cup {new} = {old, new}
    OBVIOUS
  <2> QED
    BY <2>1, <2>2, <2>3, <2>4, ThenOutcome
<1>2. CASE old \notin DOMAIN d
  BY <1>2, SameOutcome DEF rename
<1> QED
  BY <1>1, <1>2

\* SET, DEL, MSET, COPY, RENAME and their kin.
LEMMA KeyspaceOutcome ==
    ASSUME NEW d, GoodDb(d), NEW c \in Commands, c.op \in KeyspaceOps
    PROVE  Outcome(d, KeyspaceHandler(d, c), AffectedKeys(c))
<1>1. CASE c.op = "set"
  BY <1>1, OneKey, PutOutcome, StrGood DEF KeyspaceHandler, set
<1>2. CASE c.op = "del"
  <2>1. AffectedKeys(c) = Range(c.keys) /\ KeyspaceHandler(d, c) = DropKeys(d, Range(c.keys))
    BY <1>2, ManyKeys DEF KeyspaceHandler
  <2> QED
    BY <2>1, DropOutcome
<1>3. CASE c.op \in {"mset", "msetex"}
  <2>1. AffectedKeys(c) = {kv[1] : kv \in Range(c.pairs)} /\ KeyspaceHandler(d, c) = mset(d, c.pairs)
    BY <1>3, ManyKeys DEF KeyspaceHandler
  <2>2. c.pairs \in Seq(Keys \X Seq(STRING))
    BY <1>3, CommandsAssumption
  <2> QED
    BY <2>1, <2>2, MsetOutcome
<1>4. CASE c.op \in {"pexpireat", "persist"}
  BY <1>4, SameOutcome DEF KeyspaceHandler
<1>5. CASE c.op \in {"copy", "rename", "renamenx"}
  <2>1. AffectedKeys(c) = {c.source, c.dest}
    BY <1>5, TwoKeys DEF PairOps
  <2>2. CASE c.op = "copy"
    <3>1. PICK v : v = d[c.source]
      OBVIOUS
    <3>2. CASE c.source \in DOMAIN d
      <4>1. Outcome(d, PutKey(d, c.dest, v), {c.dest})
        BY <3>1, <3>2, PutOutcome DEF GoodDb
      <4>2. Outcome(d, PutKey(d, c.dest, v), {c.source, c.dest})
        BY <4>1 DEF Outcome, Touches
      <4> QED
        BY <2>1, <2>2, <3>1, <4>2, SameOutcome DEF KeyspaceHandler, copy_key
    <3>3. CASE c.source \notin DOMAIN d
      BY <2>2, <3>3, SameOutcome DEF KeyspaceHandler, copy_key
    <3> QED
      BY <3>2, <3>3
  <2>3. CASE c.op = "rename"
    BY <2>1, <2>3, RenameOutcome DEF KeyspaceHandler
  <2>4. CASE c.op = "renamenx"
    BY <2>1, <2>4, RenameOutcome, SameOutcome DEF KeyspaceHandler, renamenx
  <2> QED
    BY <1>5, <2>2, <2>3, <2>4
<1> QED
  BY <1>1, <1>2, <1>3, <1>4, <1>5 DEF KeyspaceOps

\* INCRBY and its kin.
LEMMA IncrbyOutcome ==
    ASSUME NEW d, GoodDb(d), NEW key, NEW n
    PROVE  Outcome(d, incrby(d, key, n), {key})
  BY SameOutcome, PutOutcome, StrGood DEF incrby, set

\* The commands on strings.
LEMMA StringOutcome ==
    ASSUME NEW d, GoodDb(d), NEW c \in Commands, c.op \in StringOps
    PROVE  Outcome(d, StringHandler(d, c), AffectedKeys(c))
<1>1. CASE c.op = "msetnx"
  <2>1. AffectedKeys(c) = {kv[1] : kv \in Range(c.pairs)} /\ StringHandler(d, c) = mset(d, c.pairs)
    BY <1>1, ManyKeys DEF StringHandler
  <2>2. c.pairs \in Seq(Keys \X Seq(STRING))
    BY <1>1, CommandsAssumption
  <2> QED
    BY <2>1, <2>2, MsetOutcome
<1>2. CASE c.op # "msetnx"
  <2>1. AffectedKeys(c) = {c.key}
    BY <1>2, OneKey
  <2>2. CASE c.op = "append"
    BY <2>1, <2>2, SameOutcome, PutOutcome, StrGood DEF StringHandler, append, Upsert
  <2>3. CASE c.op = "setrange"
    BY <2>1, <2>3, SameOutcome, PutOutcome, StrGood DEF StringHandler, setrange, Upsert
  <2>4. CASE c.op \in {"incr", "incrby", "decr", "decrby"}
    BY <2>1, <2>4, IncrbyOutcome DEF StringHandler, incr, decr, decrby
  <2>5. CASE c.op \in {"setnx", "getset"}
    BY <2>1, <2>5, PutOutcome, StrGood DEF StringHandler, set
  <2>6. CASE c.op = "getdel"
    BY <2>1, <2>6, DropOutcome DEF StringHandler, del, DropKey
  <2> QED
    BY <1>2, <2>2, <2>3, <2>4, <2>5, <2>6 DEF StringOps
<1> QED
  BY <1>1, <1>2

\* The frame of the STORE commands: an empty result leaves the key deleted.
LEMMA StoreOutcome ==
    ASSUME NEW d, GoodDb(d), NEW dest, NEW v, GoodValue(v)
    PROVE  Outcome(d, PutKey(del(d, dest), dest, v), {dest}) /\ Outcome(d, del(d, dest), {dest})
<1>1. PICK e : e = del(d, dest) /\ Outcome(d, e, {dest})
  BY DropOutcome DEF del, DropKey
<1>2. Outcome(e, PutKey(e, dest, v), {dest})
  BY <1>1, PutOutcome DEF Outcome
<1>3. {dest} \cup {dest} = {dest}
  OBVIOUS
<1> QED
  BY <1>1, <1>2, <1>3, ThenOutcome

\* A command that touches some keys touches no more than them.
LEMMA WiderOutcome ==
    ASSUME NEW d, NEW e, NEW K, NEW L, K \subseteq L, Outcome(d, e, K)
    PROVE  Outcome(d, e, L)
  BY DEF Outcome, Touches

\* Storing a set, or nothing when it is empty.
LEMMA SetStored ==
    ASSUME NEW d, GoodDb(d), NEW dest, NEW s, NEW e,
           \/ e = del(d, dest)
           \/ Members(s) /\ s # {} /\ e = PutKey(del(d, dest), dest, Value("set", s))
    PROVE  Outcome(d, e, {dest})
  BY StoreOutcome, SetGood, StrGood

\* The two steps of SMOVE: taking the member from one set ...
Taken(d, source, member) == Modify(d, source, "set", LAMBDA s : s \ {member})

\* ... and giving it to the other.
Given(d, dest, member) == Upsert(d, dest, "set", LAMBDA s : s \cup {member})

\* SMOVE.
LEMMA SmoveOutcome ==
    ASSUME NEW d, GoodDb(d), NEW source, NEW dest, NEW member
    PROVE  Outcome(d, smove(d, source, dest, member), {source, dest})
<1>1. PICK e : e = Taken(d, source, member) /\ Outcome(d, e, {source})
  <2>1. CASE Holds(d, source, "set")
    <3>1. PICK s : s = d[source]["set"] \ {member} /\ Members(s)
      <4>1. PICK t : t = d[source]["set"] /\ Members(t)
        BY <2>1, HeldGood
      <4>2. Members(t \ {member})
        BY <4>1, PartGood
      <4> QED
        BY <4>1, <4>2
    <3>2. Taken(d, source, member) = IF s = {} THEN DropKey(d, source) ELSE PutKey(d, source, Value("set", s))
      BY <2>1, <3>1 DEF Taken, Modify, Empty
    <3> QED
      BY <3>1, <3>2, PutOutcome, DropOutcome, SetGood DEF DropKey
  <2>2. CASE ~Holds(d, source, "set")
    BY <2>2, SameOutcome DEF Taken, Modify
  <2> QED
    BY <2>1, <2>2
<1>2. CASE member \notin Bytes
  <2>1. member \notin ContentOf(d, source, "set")
    BY <1>2, ContentGood DEF Members
  <2> QED
    BY <2>1, SameOutcome DEF smove
<1>3. CASE member \in Bytes
  <2>1. PICK f : f = Given(e, dest, member) /\ Outcome(e, f, {dest})
    <3>1. PICK s : s = ContentOf(e, dest, "set") \cup {member} /\ Members(s) /\ s # {}
      <4>1. GoodDb(e)
        BY <1>1 DEF Outcome
      <4>2. Members(ContentOf(e, dest, "set"))
        BY <4>1, ContentGood
      <4> QED
        BY <1>3, <4>2, MoreGood
    <3>2. Given(e, dest, member) \in {e, PutKey(e, dest, Value("set", s))}
      BY <3>1 DEF Given, Upsert
    <3> QED
      BY <1>1, <3>1, <3>2, SameOutcome, PutOutcome, SetGood DEF Outcome
  <2>2. {source} \cup {dest} = {source, dest}
    OBVIOUS
  <2>3. Outcome(d, f, {source, dest})
    BY <1>1, <2>1, <2>2, ThenOutcome
  <2>4. smove(d, source, dest, member) \in {d, f}
    BY <1>1, <2>1 DEF smove, Taken, Given, Modify, Upsert
  <2> QED
    BY <2>3, <2>4, SameOutcome
<1> QED
  BY <1>2, <1>3

\* The commands on sets.
LEMMA SetOutcome ==
    ASSUME NEW d, GoodDb(d), NEW c \in Commands, c.op \in SetOps
    PROVE  Outcome(d, SetHandler(d, c), AffectedKeys(c))
<1>1. CASE c.op = "sadd"
  <2>1. c.members \in Seq(Bytes) /\ c.members # <<>>
    BY <1>1, CommandsAssumption
  <2>2. 1 \in DOMAIN c.members
    BY <2>1
  <2>3. Range(c.members) # {}
    BY <2>2 DEF Range
  <2>4. Members(Range(c.members))
    BY <2>1, SeqRange DEF Members
  <2>5. PICK s : s = ContentOf(d, c.key, "set") \cup Range(c.members) /\ Members(s) /\ s # {}
    <3>1. Members(ContentOf(d, c.key, "set"))
      BY ContentGood
    <3>2. Members(ContentOf(d, c.key, "set") \cup Range(c.members))
      BY <2>4, <3>1, MoreGood
    <3> QED
      BY <2>3, <3>2
  <2>6. SetHandler(d, c) \in {d, PutKey(d, c.key, Value("set", s))}
    BY <1>1, <2>5 DEF SetHandler, sadd, Upsert
  <2>7. Outcome(d, SetHandler(d, c), {c.key})
    BY <2>5, <2>6, SameOutcome, PutOutcome, SetGood
  <2> QED
    BY <1>1, <2>7, OneKey
<1>2. CASE c.op = "srem"
  <2>1. Empty["set"] = {}
    BY DEF Empty
  <2>2. PICK s : s = d[c.key]["set"] \ Range(c.members) /\ (Holds(d, c.key, "set") => Members(s))
    <3>1. PICK t : t = d[c.key]["set"] /\ (Holds(d, c.key, "set") => Members(t))
      BY HeldGood
    <3>2. Members(t) => Members(t \ Range(c.members))
      BY PartGood
    <3> QED
      BY <3>1, <3>2
  <2>3. \/ SetHandler(d, c) \in {d, DropKeys(d, {c.key})}
        \/ Members(s) /\ s # {} /\ SetHandler(d, c) = PutKey(d, c.key, Value("set", s))
    BY <1>2, <2>1, <2>2 DEF SetHandler, srem, Modify, DropKey
  <2>4. Outcome(d, SetHandler(d, c), {c.key})
    BY <2>3, SameOutcome, PutOutcome, DropOutcome, SetGood
  <2> QED
    BY <1>2, <2>4, OneKey
<1>3. CASE c.op = "smove"
  <2>1. AffectedKeys(c) = {c.source, c.dest}
    BY <1>3, TwoKeys DEF PairOps
  <2> QED
    BY <1>3, <2>1, SmoveOutcome DEF SetHandler
<1>4. CASE c.op \in {"sunionstore", "sinterstore", "sdiffstore"}
  <2>1. AffectedKeys(c) = {c.dest} \cup Range(c.sources)
    BY <1>4, StoreKeys DEF StoreOps
  <2>2. Empty["set"] = {}
    BY DEF Empty
  <2>3. PICK s : \/ SetHandler(d, c) = del(d, c.dest)
                 \/ /\ Members(s) /\ s # {}
                    /\ SetHandler(d, c) = PutKey(del(d, c.dest), c.dest, Value("set", s))
    <3>1. PICK e : e = del(d, c.dest) /\ GoodDb(e)
      BY DropOutcome DEF del, DropKey, Outcome
    <3>2. c.sources \in Seq(Keys) /\ c.sources # <<>>
      BY <1>4, CommandsAssumption DEF StoreOps
    <3>3. 1 \in DOMAIN c.sources
      BY <3>2
    <3>4. PICK ss : ss = [i \in DOMAIN c.sources |-> ContentOf(e, c.sources[i], "set")]
      OBVIOUS
    <3>5. /\ Members(UNION Range(ss))
          /\ Members({m \in ss[1] : \A i \in DOMAIN ss : m \in ss[i]})
          /\ Members(ss[1] \ UNION Range(Tail(ss)))
      <4>1. IsFiniteSet(DOMAIN ss) /\ 1 \in DOMAIN ss
        BY <3>2, <3>3, <3>4, SeqRange
      <4>2. \A i \in DOMAIN ss : Members(ss[i])
        BY <3>1, <3>4, ContentGood
      <4>3. \A s \in Range(ss) : Members(s)
        BY <4>2 DEF Range
      <4>4. IsFiniteSet(UNION Range(ss))
        BY <4>1, <4>3, RangeFinite, FS_UNION DEF Members
      <4>5. Members(UNION Range(ss))
        BY <4>3, <4>4 DEF Members
      <4> QED
        BY <4>1, <4>2, <4>5, PartGood
    <3>6. CASE c.op = "sunionstore"
      <4>1. PICK s : s = UNION Range(ss)
        OBVIOUS
      <4>2. Members(s)
        BY <3>5, <4>1
      <4>3. SetHandler(d, c) = sunionstore(d, c.dest, c.sources)
        BY <3>6 DEF SetHandler
      <4> QED
        BY <2>2, <3>1, <3>4, <4>1, <4>2, <4>3 DEF sunionstore, StoreInto
    <3>7. CASE c.op = "sinterstore"
      <4>1. PICK s : s = {m \in ss[1] : \A i \in DOMAIN ss : m \in ss[i]}
        OBVIOUS
      <4>2. Members(s)
        BY <3>5, <4>1
      <4>3. SetHandler(d, c) = sinterstore(d, c.dest, c.sources)
        BY <3>7 DEF SetHandler
      <4> QED
        BY <2>2, <3>1, <3>4, <4>1, <4>2, <4>3 DEF sinterstore, StoreInto
    <3>8. CASE c.op = "sdiffstore"
      <4>1. PICK s : s = ss[1] \ UNION Range(Tail(ss))
        OBVIOUS
      <4>2. Members(s)
        BY <3>5, <4>1
      <4>3. SetHandler(d, c) = sdiffstore(d, c.dest, c.sources)
        BY <3>8 DEF SetHandler
      <4> QED
        BY <2>2, <3>1, <3>4, <4>1, <4>2, <4>3 DEF sdiffstore, StoreInto
    <3> QED
      BY <1>4, <3>6, <3>7, <3>8
  <2>4. Outcome(d, SetHandler(d, c), {c.dest})
    BY <2>3, SetStored
  <2> QED
    BY <2>1, <2>4, WiderOutcome
<1> QED
  BY <1>1, <1>2, <1>3, <1>4 DEF SetOps

\* LMOVE.
LEMMA LmoveOutcome ==
    ASSUME NEW d, GoodDb(d), NEW source, NEW dest, NEW fromLeft, NEW toLeft
    PROVE  Outcome(d, lmove(d, source, dest, fromLeft, toLeft), {source, dest})
<1>1. CASE ~Holds(d, source, "list")
  BY <1>1, SameOutcome DEF lmove
<1>2. CASE Holds(d, source, "list")
  <2>1. PICK l \in Seq(Bytes) : l = d[source].list /\ l # <<>>
    BY <1>2, HeldGood
  <2>2. PICK x : x = IF fromLeft THEN Head(l) ELSE Last(l)
    OBVIOUS
  <2>3. PICK rest : rest = IF fromLeft THEN Tail(l) ELSE Front(l)
    OBVIOUS
  <2>4. x \in Bytes
    <3>1. Head(l) \in Bytes /\ Len(l) \in 1..Len(l)
      BY <2>1
    <3> QED
      BY <2>2, <3>1 DEF Last
  <2>5. rest \in Seq(Bytes)
    <3>1. Tail(l) \in Seq(Bytes)
      BY <2>1
    <3>2. SubSeq(l, 1, Len(l) - 1) \in Seq(Bytes)
      BY PartList
    <3> QED
      BY <2>3, <3>1, <3>2 DEF Front
  <2>6. \A t \in Seq(Bytes) : /\ <<x>> \o t \in Seq(Bytes) /\ <<x>> \o t # <<>>
                              /\ Append(t, x) \in Seq(Bytes) /\ Append(t, x) # <<>>
    BY <2>4
  <2>7. CASE source = dest
    <3>1. PICK v \in Seq(Bytes) : v # <<>> /\ v = IF toLeft THEN <<x>> \o rest ELSE Append(rest, x)
      BY <2>5, <2>6
    <3>2. lmove(d, source, dest, fromLeft, toLeft) = PutKey(d, source, Value("list", v))
      BY <1>2, <2>1, <2>2, <2>3, <2>7, <3>1 DEF lmove
    <3>3. {source, dest} = {source}
      BY <2>7
    <3> QED
      BY <3>1, <3>2, <3>3, PutOutcome, ListGood
  <2>8. CASE source # dest
    <3>1. PICK e : /\ e = IF rest = <<>> THEN DropKey(d, source) ELSE PutKey(d, source, Value("list", rest))
                   /\ Outcome(d, e, {source})
      BY <2>5, PutOutcome, DropOutcome, ListGood DEF DropKey
    <3>2. PICK t \in Seq(Bytes) : t = ContentOf(e, dest, "list")
      BY <3>1, ContentGood DEF Outcome
    <3>3. PICK v \in Seq(Bytes) : v # <<>> /\ v = IF toLeft THEN <<x>> \o t ELSE Append(t, x)
      BY <2>6
    <3>4. PICK f : /\ f = IF FreeFor(e, dest, "list") THEN PutKey(e, dest, Value("list", v)) ELSE e
                   /\ Outcome(e, f, {dest})
      BY <3>1, <3>3, SameOutcome, PutOutcome, ListGood DEF Outcome
    <3>5. lmove(d, source, dest, fromLeft, toLeft) = f
      BY <1>2, <2>1, <2>2, <2>3, <2>8, <3>1, <3>2, <3>3, <3>4 DEF lmove, Modify, Upsert, Empty
    <3>6. {source} \cup {dest} = {source, dest}
      OBVIOUS
    <3> QED
      BY <3>1, <3>4, <3>5, <3>6, ThenOutcome
  <2> QED
    BY <2>7, <2>8
<1> QED
  BY <1>1, <1>2

\* A command that needs the list leaves a list, or drops the key.
LEMMA ListModified ==
    ASSUME NEW d, GoodDb(d), NEW key, NEW l, NEW e,
           \/ e = d
           \/ l \in Seq(Bytes) /\ e = IF l = <<>> THEN DropKey(d, key) ELSE PutKey(d, key, Value("list", l))
    PROVE  Outcome(d, e, {key})
  BY SameOutcome, PutOutcome, DropOutcome, ListGood DEF DropKey

\* The commands on the ends of a list.
LEMMA ListEndOutcome ==
    ASSUME NEW d, GoodDb(d), NEW c \in Commands, c.op \in ListEndOps
    PROVE  Outcome(d, ListEndHandler(d, c), AffectedKeys(c))
<1>1. CASE c.op \in {"rpoplpush", "lmove"}
  <2>1. AffectedKeys(c) = {c.source, c.dest}
    BY <1>1, TwoKeys DEF PairOps
  <2>2. PICK left, right :
           ListEndHandler(d, c) = lmove(d, c.source, c.dest, left, right)
    <3>1. CASE c.op = "rpoplpush"
      BY <3>1 DEF ListEndHandler, rpoplpush
    <3>2. CASE c.op = "lmove"
      BY <3>2 DEF ListEndHandler
    <3> QED
      BY <1>1, <3>1, <3>2
  <2> QED
    BY <2>1, <2>2, LmoveOutcome
<1>2. CASE c.op \in {"lpush", "rpush"}
  <2>1. c.values \in Seq(Bytes) /\ c.values # <<>>
    BY <1>2, CommandsAssumption
  <2>2. PICK l \in Seq(Bytes) : l = ContentOf(d, c.key, "list")
    BY ContentGood
  <2>3. PICK f, b : /\ f = PushFront(l, c.values) /\ b = PushBack(l, c.values)
                    /\ f \in Seq(Bytes) /\ f # <<>> /\ b \in Seq(Bytes) /\ b # <<>>
    BY <2>1, PushList
  <2>4. ListEndHandler(d, c) \in {d, PutKey(d, c.key, Value("list", f)), PutKey(d, c.key, Value("list", b))}
    BY <1>2, <2>2, <2>3 DEF ListEndHandler, lpush, rpush, Upsert
  <2>5. AffectedKeys(c) = {c.key}
    BY <1>2, OneKey
  <2> QED
    BY <2>3, <2>4, <2>5, SameOutcome, PutOutcome, ListGood
<1>3. CASE c.op \in {"lpop", "rpop", "lpop_count", "rpop_count", "lpushx", "rpushx"}
  <2>1. AffectedKeys(c) = {c.key}
    BY <1>3, OneKey
  <2>2. Empty["list"] = <<>>
    BY DEF Empty
  <2>3. CASE ~Holds(d, c.key, "list")
    BY <1>3, <2>1, <2>3, SameOutcome
       DEF ListEndHandler, lpop, rpop, lpop_count, rpop_count, lpushx, rpushx, Modify
  <2>4. CASE Holds(d, c.key, "list")
    <3>1. PICK l \in Seq(Bytes) : l = d[c.key]["list"]
      BY <2>4, HeldGood
    <3>2. PICK m : /\ m \in Seq(Bytes)
                   /\ ListEndHandler(d, c) = IF m = <<>> THEN DropKey(d, c.key)
                                             ELSE PutKey(d, c.key, Value("list", m))
      <4>1. CASE c.op = "lpop"
        BY <2>2, <2>4, <3>1, <4>1, PopList DEF ListEndHandler, lpop, Modify
      <4>2. CASE c.op = "rpop"
        BY <2>2, <2>4, <3>1, <4>2, PopList DEF ListEndHandler, rpop, Modify
      <4>3. CASE c.op = "lpop_count"
        BY <2>2, <2>4, <3>1, <4>3, PopList, CommandsAssumption DEF ListEndHandler, lpop_count, Modify
      <4>4. CASE c.op = "rpop_count"
        BY <2>2, <2>4, <3>1, <4>4, PopList, CommandsAssumption DEF ListEndHandler, rpop_count, Modify
      <4>5. CASE c.op = "lpushx"
        BY <2>2, <2>4, <3>1, <4>5, PushList, CommandsAssumption DEF ListEndHandler, lpushx, Modify
      <4>6. CASE c.op = "rpushx"
        BY <2>2, <2>4, <3>1, <4>6, PushList, CommandsAssumption DEF ListEndHandler, rpushx, Modify
      <4> QED
        BY <1>3, <4>1, <4>2, <4>3, <4>4, <4>5, <4>6
    <3> QED
      BY <2>1, <3>2, ListModified
  <2> QED
    BY <2>3, <2>4
<1> QED
  BY <1>1, <1>2, <1>3 DEF ListEndOps

\* The commands on the middle of a list.
LEMMA ListMiddleOutcome ==
    ASSUME NEW d, GoodDb(d), NEW c \in Commands, c.op \in ListMiddleOps
    PROVE  Outcome(d, ListMiddleHandler(d, c), AffectedKeys(c))
<1>1. AffectedKeys(c) = {c.key}
  BY OneKey
<1>2. Empty["list"] = <<>>
  BY DEF Empty
<1>3. CASE ~Holds(d, c.key, "list")
  BY <1>1, <1>3, SameOutcome DEF ListMiddleOps, ListMiddleHandler, lrem, ltrim, linsert, lset, Modify
<1>4. CASE Holds(d, c.key, "list")
  <2>1. PICK l \in Seq(Bytes) : l = d[c.key]["list"]
    BY <1>4, HeldGood
  <2>2. PICK m : /\ m \in Seq(Bytes)
                 /\ ListMiddleHandler(d, c) = IF m = <<>> THEN DropKey(d, c.key)
                                              ELSE PutKey(d, c.key, Value("list", m))
    <3>1. CASE c.op = "lrem"
      BY <1>2, <1>4, <2>1, <3>1, RemList DEF ListMiddleHandler, lrem, Modify
    <3>2. CASE c.op = "ltrim"
      BY <1>2, <1>4, <2>1, <3>2, TrimList, CommandsAssumption DEF ListMiddleHandler, ltrim, Modify
    <3>3. CASE c.op = "linsert"
      BY <1>2, <1>4, <2>1, <3>3, InsertList, CommandsAssumption DEF ListMiddleHandler, linsert, Modify
    <3>4. CASE c.op = "lset"
      BY <1>2, <1>4, <2>1, <3>4, UpdateList, CommandsAssumption DEF ListMiddleHandler, lset, Modify
    <3> QED
      BY <3>1, <3>2, <3>3, <3>4 DEF ListMiddleOps
  <2> QED
    BY <1>1, <2>2, ListModified
<1> QED
  BY <1>3, <1>4

\* A key that is put, of a good value if the condition holds.
LEMMA PutIf ==
    ASSUME NEW d, GoodDb(d), NEW key, NEW v, NEW P, P => GoodValue(v), NEW e,
           e \in {d, PutKey(d, key, v)}
    PROVE  Touches(d, e, {key}) /\ (P => GoodDb(e))
<1>1. Outcome(d, d, {key}) /\ Touches(d, PutKey(d, key, v), {key})
  BY SameOutcome, PutTouches
<1>2. P => Outcome(d, PutKey(d, key, v), {key})
  BY PutOutcome
<1> QED
  BY <1>1, <1>2 DEF Outcome

\* A map in which pairs are written has a field.
LEMMA FieldsSet ==
    ASSUME NEW h, Fields(h), NEW V, NEW pairs \in Seq(Bytes \X V), pairs # <<>>
    PROVE  Fields(SetFields(h, pairs)) /\ SetFields(h, pairs) # <<>>
<1>1. PICK F : F = {pairs[i][1] : i \in DOMAIN pairs}
  OBVIOUS
<1>2. PICK w : w = Written(pairs) /\ DOMAIN w = F
  BY <1>1, WrittenFinite
<1>3. Members(F) /\ F # {}
  <2>1. ASSUME NEW i \in DOMAIN pairs PROVE pairs[i][1] \in Bytes
    <3>1. pairs[i] \in Bytes \X V
      OBVIOUS
    <3> QED
      BY <3>1
  <2>2. 1 \in DOMAIN pairs
    OBVIOUS
  <2>3. IsFiniteSet(F)
    BY <1>1, WrittenFinite
  <2> QED
    BY <1>1, <2>1, <2>2, <2>3 DEF Members
<1>4. PICK g : g = SetFields(h, pairs)
  OBVIOUS
<1>5. DOMAIN g = DOMAIN h \cup F /\ g = [x \in DOMAIN g |-> g[x]]
  BY <1>2, <1>4 DEF SetFields, Overwritten
<1>6. Members(DOMAIN g)
  BY <1>3, <1>5, MoreGood DEF Fields
<1> QED
  BY <1>3, <1>4, <1>5, <1>6 DEF Fields

\* The commands on hashes.  HSETEX FXX on a missing hash would leave an empty
\* one; the master does not propagate it.
LEMMA HashOutcome ==
    ASSUME NEW d, GoodDb(d), NEW c \in Commands, c.op \in HashOps
    PROVE  /\ Touches(d, HashHandler(d, c), AffectedKeys(c))
           /\ Propagated(d, c) => GoodDb(HashHandler(d, c))
<1>1. AffectedKeys(c) = {c.key}
  BY OneKey
<1>2. PICK h : h = ContentOf(d, c.key, "hash") /\ Fields(h)
  BY ContentGood
<1>3. ASSUME NEW f, Fields(f), f # <<>>, HashHandler(d, c) \in {d, PutKey(d, c.key, Value("hash", f))}
      PROVE  Outcome(d, HashHandler(d, c), {c.key})
  BY <1>3, SameOutcome, PutOutcome, HashGood
<1>4. ASSUME NEW f, NEW x \in Bytes PROVE Fields(SetEntry(h, x, f)) /\ SetEntry(h, x, f) # <<>>
  <2>1. x \in DOMAIN SetEntry(h, x, f)
    BY DEF SetEntry
  <2> QED
    BY <1>2, <2>1, EntryGood
<1>5. CASE c.op \in {"hset", "hmset"}
  <2>1. PICK pairs, V : /\ pairs \in Seq(Bytes \X V) /\ pairs # <<>>
                        /\ HashHandler(d, c) = hmset(d, c.key, pairs)
    <3>1. CASE c.op = "hset"
      <4>1. c.field \in Bytes
        BY <3>1, CommandsAssumption
      <4>2. << <<c.field, c.value>> >> \in Seq(Bytes \X {c.value}) /\ << <<c.field, c.value>> >> # <<>>
        BY <4>1
      <4> QED
        BY <3>1, <4>2 DEF HashHandler, hset
    <3>2. CASE c.op = "hmset"
      BY <3>2, CommandsAssumption DEF HashHandler
    <3> QED
      BY <1>5, <3>1, <3>2
  <2>2. PICK f : f = SetFields(h, pairs) /\ Fields(f) /\ f # <<>>
    BY <1>2, <2>1, FieldsSet
  <2>3. HashHandler(d, c) \in {d, PutKey(d, c.key, Value("hash", f))}
    BY <1>2, <2>1, <2>2 DEF hmset, Upsert
  <2> QED
    BY <1>1, <1>3, <2>2, <2>3 DEF Outcome
<1>6. CASE c.op \in {"hdel", "hgetdel"}
  <2>1. PICK f : \/ HashHandler(d, c) \in {d, DropKey(d, c.key)}
                 \/ Fields(f) /\ f # <<>> /\ HashHandler(d, c) = PutKey(d, c.key, Value("hash", f))
    <3>1. PICK g : g = d[c.key]["hash"] /\ (Holds(d, c.key, "hash") => Fields(g))
      BY HeldGood
    <3>2. PICK f : f = Restrict(g, DOMAIN g \ Range(c.fields)) /\ (Fields(g) => Fields(f))
      BY PartGood
    <3> QED
      BY <1>6, <3>1, <3>2 DEF HashHandler, hdel, Modify, Empty
  <2>2. Outcome(d, HashHandler(d, c), {c.key})
    BY <1>3, <2>1, SameOutcome, DropOutcome DEF DropKey
  <2> QED
    BY <1>1, <2>2 DEF Outcome
<1>7. CASE c.op = "hsetnx"
  <2>1. PICK f : f = IF c.field \in DOMAIN h THEN h ELSE SetEntry(h, c.field, c.value)
    OBVIOUS
  <2>2. Fields(f) /\ f # <<>>
    <3>1. c.field \in DOMAIN h => h # <<>>
      OBVIOUS
    <3>2. c.field \in Bytes
      BY <1>7, CommandsAssumption
    <3> QED
      BY <1>2, <1>4, <2>1, <3>1, <3>2
  <2>3. HashHandler(d, c) \in {d, PutKey(d, c.key, Value("hash", f))}
    BY <1>2, <1>7, <2>1 DEF HashHandler, hsetnx, Upsert
  <2> QED
    BY <1>1, <1>3, <2>2, <2>3 DEF Outcome
<1>8. CASE c.op = "hincrby"
  <2>1. PICK sums : sums = Plus(IF c.field \in DOMAIN h THEN ParseInt(h[c.field]) ELSE {0}, c.by)
    OBVIOUS
  <2>2. PICK f : f = IF sums = {} THEN h ELSE SetEntry(h, c.field, Numeral(CHOOSE v \in sums : TRUE))
    OBVIOUS
  <2>3. c.field \notin DOMAIN h => sums # {}
    <3>1. c.by \in Int64 /\ 0 + c.by = c.by
      BY <1>8, CommandsAssumption, StorageAssumption DEF Int64, MinInt
    <3>2. c.by \in Plus({0}, c.by)
      BY <3>1 DEF Plus
    <3> QED
      BY <2>1, <3>2
  <2>4. Fields(f) /\ f # <<>>
    <3>1. c.field \in DOMAIN h => h # <<>>
      OBVIOUS
    <3>2. c.field \in Bytes
      BY <1>8, CommandsAssumption
    <3> QED
      BY <1>2, <1>4, <2>2, <2>3, <3>1, <3>2
  <2>5. HashHandler(d, c) \in {d, PutKey(d, c.key, Value("hash", f))}
    BY <1>2, <1>8, <2>1, <2>2 DEF HashHandler, hincrby, Upsert
  <2> QED
    BY <1>1, <1>3, <2>4, <2>5 DEF Outcome
<1>9. CASE c.op = "hsetex"
  <2>1. PICK F : F = {fv[1] : fv \in Range(c.pairs)} /\ F # {}
    <3>1. c.pairs \in Seq(Bytes \X Seq(STRING)) /\ c.pairs # <<>>
      BY <1>9, CommandsAssumption
    <3>2. PICK i \in DOMAIN c.pairs : i = 1
      BY <3>1
    <3>3. c.pairs[i][1] \in {fv[1] : fv \in Range(c.pairs)}
      BY DEF Range
    <3> QED
      BY <3>3
  <2>2. PICK f : f = IF /\ c.mode = "nx" => F \cap DOMAIN h = {}
                        /\ c.mode = "xx" => F \subseteq DOMAIN h
                     THEN SetFields(h, c.pairs) ELSE h
    OBVIOUS
  <2>3. HashHandler(d, c) \in {d, PutKey(d, c.key, Value("hash", f))}
    BY <1>2, <1>9, <2>1, <2>2 DEF HashHandler, hsetex, Upsert
  <2>4. Propagated(d, c) => (c.mode = "xx" => F \subseteq DOMAIN h)
    BY <1>2, <1>9, <2>1 DEF Propagated
  <2>5. Fields(SetFields(h, c.pairs)) /\ SetFields(h, c.pairs) # <<>>
    <3>1. c.pairs \in Seq(Bytes \X Seq(STRING)) /\ c.pairs # <<>>
      BY <1>9, CommandsAssumption
    <3> QED
      BY <1>2, <3>1, FieldsSet
  <2>6. ~(c.mode = "nx" => F \cap DOMAIN h = {}) => h # <<>>
    OBVIOUS
  <2>7. Propagated(d, c) => GoodValue(Value("hash", f))
    BY <1>2, <2>2, <2>4, <2>5, <2>6, HashGood
  <2> QED
    BY <1>1, <2>3, <2>7, PutIf
<1> QED
  BY <1>5, <1>6, <1>7, <1>8, <1>9 DEF HashOps

\* The commands on sorted sets.  ZADD XX on a missing key would leave an empty
\* sorted set; the master does not propagate it.
LEMMA ZSetOutcome ==
    ASSUME NEW d, GoodDb(d), NEW c \in Commands, c.op \in ZSetOps
    PROVE  /\ Touches(d, ZSetHandler(d, c), AffectedKeys(c))
           /\ Propagated(d, c) => GoodDb(ZSetHandler(d, c))
<1>1. AffectedKeys(c) = {c.key}
  BY OneKey
<1>2. PICK z : z = ContentOf(d, c.key, "zset") /\ Agree(z)
  BY ContentGood
<1>3. CASE c.op = "zadd"
  <2>1. PICK n \in Nat : n = Len(c.scored) /\ n > 0 /\ c.scored \in Seq(Int \X Bytes)
    BY <1>3, CommandsAssumption
  <2>2. PICK y : y = AddMembers(z, c.options, c.scored) /\ AddedSoFar(y, z, c.options, n)
    BY <1>2, <2>1, AddMembersAgrees
  <2>3. ZSetHandler(d, c) \in {d, PutKey(d, c.key, Value("zset", y))}
    BY <1>2, <1>3, <2>2 DEF ZSetHandler, zadd, Upsert
  <2>4. Propagated(d, c) => ("xx" \in c.options => DOMAIN z.entries # {})
    BY <1>2, <1>3 DEF Propagated
  <2>5. Propagated(d, c) => DOMAIN y.entries # {}
    BY <2>1, <2>2, <2>4 DEF AddedSoFar
  <2>6. Propagated(d, c) => GoodValue(Value("zset", y))
    BY <2>2, <2>5, NotEmpty, ZSetGood DEF AddedSoFar
  <2> QED
    BY <1>1, <2>3, <2>6, PutIf
<1>4. CASE c.op = "zincrby"
  <2>1. PICK y : y = IncrMember(z, c.by, c.member) /\ Agree(y) /\ y # EmptyZSet
    <3>1. c.by \in Int /\ c.member \in Bytes
      BY <1>4, CommandsAssumption
    <3> QED
      BY <1>2, <3>1, IncrAgrees, NotEmpty
  <2>2. ZSetHandler(d, c) \in {d, PutKey(d, c.key, Value("zset", y))}
    BY <1>2, <1>4, <2>1 DEF ZSetHandler, zincrby, Upsert
  <2> QED
    BY <1>1, <2>1, <2>2, ZSetGood, PutIf
<1>5. CASE c.op \notin {"zadd", "zincrby"}
  <2>1. Empty["zset"] = EmptyZSet
    BY DEF Empty
  <2>2. PICK y : \/ ZSetHandler(d, c) \in {d, DropKey(d, c.key)}
                 \/ /\ Agree(y) /\ y # EmptyZSet
                    /\ ZSetHandler(d, c) = PutKey(d, c.key, Value("zset", y))
    <3>1. CASE ~Holds(d, c.key, "zset")
      BY <1>5, <3>1 DEF ZSetOps, ZSetHandler, zrem, zpopmax, zpopmin, zremrangebyrank,
                        zremrangebyscore, zremrangebylex, Modify
    <3>2. CASE Holds(d, c.key, "zset")
      <4>1. PICK s : s = d[c.key]["zset"] /\ Agree(s)
        BY <3>2, HeldGood
      <4>2. CASE c.op = "zrem"
        BY <2>1, <3>2, <4>1, <4>2, RemovalsAgree DEF ZSetHandler, zrem, Modify
      <4>3. CASE c.op = "zpopmax"
        BY <2>1, <3>2, <4>1, <4>3, RemovalsAgree DEF ZSetHandler, zpopmax, Modify
      <4>4. CASE c.op = "zpopmin"
        BY <2>1, <3>2, <4>1, <4>4, RemovalsAgree DEF ZSetHandler, zpopmin, Modify
      <4>5. CASE c.op = "zremrangebyrank"
        BY <2>1, <3>2, <4>1, <4>5, RemovalsAgree DEF ZSetHandler, zremrangebyrank, Modify
      <4>6. CASE c.op = "zremrangebyscore"
        BY <2>1, <3>2, <4>1, <4>6, RemovalsAgree DEF ZSetHandler, zremrangebyscore, Modify
      <4>7. CASE c.op = "zremrangebylex"
        BY <2>1, <3>2, <4>1, <4>7, RemovalsAgree DEF ZSetHandler, zremrangebylex, Modify
      <4> QED
        BY <1>5, <4>2, <4>3, <4>4, <4>5, <4>6, <4>7 DEF ZSetOps
    <3> QED
      BY <3>1, <3>2
  <2>3. Outcome(d, ZSetHandler(d, c), {c.key})
    BY <2>2, SameOutcome, DropOutcome, PutOutcome, ZSetGood DEF DropKey
  <2> QED
    BY <1>1, <2>3 DEF Outcome
<1> QED
  BY <1>3, <1>4, <1>5

\* The commands that store a combination of sorted sets.
LEMMA ZStoreOutcome ==
    ASSUME NEW d, GoodDb(d), NEW c \in Commands, c.op \in ZStoreOps
    PROVE  Outcome(d, ZStoreHandler(d, c), AffectedKeys(c))
<1>1. Empty["zset"] = EmptyZSet
  BY DEF Empty
<1>2. PICK e : e = del(d, c.dest) /\ GoodDb(e)
  BY DropOutcome DEF del, DropKey, Outcome
<1>3. PICK y : \/ ZStoreHandler(d, c) = e
               \/ /\ Agree(y) /\ y # EmptyZSet
                  /\ ZStoreHandler(d, c) = PutKey(e, c.dest, Value("zset", y))
  <2>0. PICK zs : /\ zs = [i \in DOMAIN c.sources |-> ContentOf(e, c.sources[i], "zset")]
                  /\ c.op # "zrangestore" => Operands(zs) /\ 1 \in DOMAIN zs
    <3>1. PICK zs : zs = [i \in DOMAIN c.sources |-> ContentOf(e, c.sources[i], "zset")]
      OBVIOUS
    <3>2. c.op # "zrangestore" => c.sources \in Seq(Keys) /\ c.sources # <<>>
      BY CommandsAssumption DEF StoreOps, ZStoreOps
    <3>3. \A i \in DOMAIN zs : Agree(zs[i])
      BY <1>2, <3>1, ContentGood
    <3>4. c.op # "zrangestore" => 1 \in DOMAIN zs /\ \E n \in Nat : DOMAIN zs = 1 .. n
      BY <3>1, <3>2
    <3> QED
      BY <3>1, <3>3, <3>4 DEF Operands
  <2>1. CASE c.op = "zunionstore"
    <3>1. PICK y : y = UnionZSets(zs, c.weights, c.aggregate) /\ Agree(y)
      BY <2>0, <2>1, CombinationsAgree, CommandsAssumption
    <3> QED
      BY <1>1, <1>2, <2>0, <2>1, <3>1 DEF ZStoreHandler, zunionstore, StoreInto
  <2>2. CASE c.op = "zinterstore"
    <3>1. PICK y : y = InterZSets(zs, c.weights, c.aggregate) /\ Agree(y)
      BY <2>0, <2>2, CombinationsAgree, CommandsAssumption
    <3> QED
      BY <1>1, <1>2, <2>0, <2>2, <3>1 DEF ZStoreHandler, zinterstore, StoreInto
  <2>3. CASE c.op = "zdiffstore"
    <3>1. PICK y : y = DiffZSets(zs) /\ Agree(y)
      BY <2>0, <2>3, CombinationsAgree
    <3> QED
      BY <1>1, <1>2, <2>0, <2>3, <3>1 DEF ZStoreHandler, zdiffstore, StoreInto
  <2>4. CASE c.op = "zrangestore"
    <3>1. PICK z : z = ContentOf(e, c.source, "zset") /\ Agree(z)
      BY <1>2, ContentGood
    <3>2. PICK y : /\ y = IF z = EmptyZSet THEN EmptyZSet
                          ELSE RangeZSet(z, c.by, c.min, c.max, c.rev, c.limit)
                   /\ y # EmptyZSet => Agree(y)
      BY <2>4, <3>1, RangeAgrees, CommandsAssumption
    <3>3. PICK ws : /\ ws = [i \in DOMAIN <<c.source>> |-> ContentOf(e, <<c.source>>[i], "zset")]
                    /\ ws[1] = z
      <4>1. 1 \in DOMAIN <<c.source>> /\ <<c.source>>[1] = c.source
        OBVIOUS
      <4>2. PICK ws : ws = [i \in DOMAIN <<c.source>> |-> ContentOf(e, <<c.source>>[i], "zset")]
        OBVIOUS
      <4>3. ws[1] = ContentOf(e, <<c.source>>[1], "zset")
        BY <4>1, <4>2
      <4>4. ws[1] = z
        BY <3>1, <4>1, <4>3
      <4> QED
        BY <4>2, <4>4
    <3>4. ZStoreHandler(d, c) = e \/ (y # EmptyZSet /\ ZStoreHandler(d, c) = PutKey(e, c.dest, Value("zset", y)))
      BY <1>1, <1>2, <2>4, <3>2, <3>3 DEF ZStoreHandler, zrangestore, StoreInto
    <3> QED
      BY <3>2, <3>4
  <2> QED
    BY <2>1, <2>2, <2>3, <2>4 DEF ZStoreOps
<1>4. Outcome(d, ZStoreHandler(d, c), {c.dest})
  <2>1. Outcome(d, e, {c.dest})
    BY <1>2, DropOutcome DEF del, DropKey
  <2> QED
    BY <1>2, <1>3, <2>1, StoreOutcome, ZSetGood
<1>5. {c.dest} \subseteq AffectedKeys(c)
  <2>1. CASE c.op = "zrangestore"
    BY <2>1, TwoKeys DEF PairOps
  <2>2. CASE c.op # "zrangestore"
    BY <2>2, StoreKeys DEF StoreOps, ZStoreOps
  <2> QED
    BY <2>1, <2>2
<1> QED
  BY <1>4, <1>5, WiderOutcome

-----------------------------------------------------------------------------
(* All databases. *)

\* The inductive invariant: a map from databases to good databases.
MapOK(m) ==
    /\ m = [db \in Dbs |-> m[db]]
    /\ \A db \in Dbs : GoodDb(m[db]) /\ DOMAIN m[db] \subseteq Keys

\* What a place is.
LEMMA PlacesOf ==
    ASSUME NEW m, NEW p
    PROVE  p \in Places(m) <=> p = <<p[1], p[2]>> /\ p[1] \in Dbs /\ p[2] \in DOMAIN m[p[1]]
<1>1. ASSUME p \in Places(m)
      PROVE  p = <<p[1], p[2]>> /\ p[1] \in Dbs /\ p[2] \in DOMAIN m[p[1]]
  <2>1. PICK db \in Dbs : p \in {db} \X DOMAIN m[db]
    BY <1>1 DEF Places
  <2> QED
    BY <2>1
<1>2. ASSUME p = <<p[1], p[2]>>, p[1] \in Dbs, p[2] \in DOMAIN m[p[1]]
      PROVE  p \in Places(m)
  <2>1. p \in {p[1]} \X DOMAIN m[p[1]]
    BY <1>2
  <2> QED
    BY <1>2, <2>1 DEF Places
<1> QED
  BY <1>1, <1>2

\* A place that is not in the keys a step touches is left as it is.
LEMMA ChangedAt ==
    ASSUME NEW m, NEW n, NEW p, p \in ChangedPlaces(m, n)
    PROVE  /\ p = <<p[1], p[2]>> /\ p[1] \in Dbs
           /\ p[2] \in DOMAIN m[p[1]] \cup DOMAIN n[p[1]]
           /\ ~ (/\ p[2] \in DOMAIN m[p[1]] \cap DOMAIN n[p[1]]
                 /\ m[p[1]][p[2]] = n[p[1]][p[2]])
<1>1. p \in Places(m) \/ p \in Places(n)
  BY DEF ChangedPlaces
<1>2. ~ (p \in Places(m) /\ p \in Places(n) /\ m[p[1]][p[2]] = n[p[1]][p[2]])
  BY DEF ChangedPlaces
<1> QED
  BY <1>1, <1>2, PlacesOf

\* The map with another database in the place of one.
Replaced(m, db, e, n) ==
    /\ n = [x \in Dbs |-> n[x]]
    /\ n[db] = e
    /\ \A x \in Dbs : x # db => n[x] = m[x]

\* Replacing one database as the handlers do.
LEMMA ExceptReplaces ==
    ASSUME NEW m, MapOK(m), NEW db \in Dbs, NEW e
    PROVE  Replaced(m, db, e, [m EXCEPT ![db] = e])
  BY DEF MapOK, Replaced

\* A command on one database.
LEMMA OneDb ==
    ASSUME NEW m, MapOK(m), NEW db \in Dbs, NEW e, NEW K, K \subseteq Keys, Touches(m[db], e, K),
           NEW n, Replaced(m, db, e, n)
    PROVE  /\ ChangedPlaces(m, n) \subseteq {db} \X K
           /\ GoodDb(e) => MapOK(n)
<1>2. /\ n = [x \in Dbs |-> n[x]]
      /\ n[db] = e
      /\ \A x \in Dbs : x # db => n[x] = m[x]
  BY DEF Replaced
<1>3. ASSUME NEW p \in ChangedPlaces(m, n) PROVE p \in {db} \X K
  <2>1. p = <<p[1], p[2]>> /\ p[1] = db
    BY <1>2, ChangedAt
  <2>2. p[2] \in K
    BY <1>2, <2>1, ChangedAt DEF Touches
  <2> QED
    BY <2>1, <2>2
<1>4. ASSUME GoodDb(e) PROVE MapOK(n)
  BY <1>2, <1>4 DEF MapOK, Touches
<1> QED
  BY <1>3, <1>4

\* MOVE drops the key from its database, then puts it in the other one.
LEMMA MoveOutcome ==
    ASSUME NEW m, MapOK(m), NEW db \in Dbs, NEW target \in Dbs, NEW key \in Keys
    PROVE  /\ MapOK(move_key(m, db, target, key))
           /\ ChangedPlaces(m, move_key(m, db, target, key)) \subseteq {<<db, key>>, <<target, key>>}
<1>1. CASE key \notin DOMAIN m[db]
  <2>1. move_key(m, db, target, key) = m
    BY <1>1 DEF move_key
  <2>2. ChangedPlaces(m, m) = {}
    BY ChangedAt
  <2> QED
    BY <2>1, <2>2
<1>2. CASE key \in DOMAIN m[db]
  <2>1. PICK t : t = [m EXCEPT ![db] = DropKey(@, key)]
    OBVIOUS
  <2>2. PICK n : n = [t EXCEPT ![target] = PutKey(@, key, m[db][key])]
    OBVIOUS
  <2>3. move_key(m, db, target, key) = n
    BY <1>2, <2>1, <2>2 DEF move_key
  <2>4. /\ t = [x \in Dbs |-> t[x]]
        /\ t[db] = DropKeys(m[db], {key})
        /\ \A x \in Dbs : x # db => t[x] = m[x]
    BY <2>1 DEF MapOK, DropKey
  <2>5. Outcome(m[db], t[db], {key})
    BY <2>4, DropOutcome DEF MapOK
  <2>6. \A x \in Dbs : Outcome(m[x], t[x], IF x = db THEN {key} ELSE {})
    BY <2>4, <2>5, SameOutcome DEF MapOK
  <2>7. /\ n = [x \in Dbs |-> n[x]]
        /\ n[target] = PutKey(t[target], key, m[db][key])
        /\ \A x \in Dbs : x # target => n[x] = t[x]
    BY <2>2, <2>4
  <2>8. Outcome(t[target], n[target], {key})
    <3>1. GoodValue(m[db][key])
      BY <1>2 DEF MapOK, GoodDb
    <3>2. GoodDb(t[target])
      BY <2>6 DEF Outcome
    <3> QED
      BY <2>7, <3>1, <3>2, PutOutcome
  <2>9. MapOK(n)
    BY <2>6, <2>7, <2>8 DEF MapOK, Outcome, Touches
  <2>10. ASSUME NEW p \in ChangedPlaces(m, n) PROVE p \in {<<db, key>>, <<target, key>>}
    <3>1. p = <<p[1], p[2]>> /\ p[1] \in Dbs
      BY ChangedAt
    <3>2. p[1] \in {db, target}
      BY <2>4, <2>7, ChangedAt
    <3>3. p[2] = key
      BY <2>6, <2>7, <2>8, <3>1, ChangedAt DEF Outcome, Touches
    <3> QED
      BY <3>1, <3>2, <3>3
  <2> QED
    BY <2>3, <2>9, <2>10
<1> QED
  BY <1>1, <1>2

\* The commands on whole databases.
LEMMA DbOutcome ==
    ASSUME NEW m, MapOK(m), NEW db \in Dbs, NEW c \in Commands, c.op \in DbOps
    PROVE  /\ MapOK(DbHandler(m, db, c))
           /\ ChangedPlaces(m, DbHandler(m, db, c)) \subseteq Announced(db, c) \cup MovedTo(c)
<1>1. PICK n : n = DbHandler(m, db, c)
  OBVIOUS
<1>2. GoodDb(EmptyDb) /\ DOMAIN EmptyDb = {}
  BY FS_EmptySet DEF GoodDb, EmptyDb
<1>3. CASE c.op = "move_key"
  <2>1. AffectedKeys(c) = {c.key}
    BY <1>3, OneKey
  <2>2. c.key \in Keys /\ c.target \in Dbs
    BY <1>3, <2>1, CommandsAssumption
  <2>3. DbHandler(m, db, c) = move_key(m, db, c.target, c.key)
    BY <1>3 DEF DbHandler
  <2>4. Announced(db, c) = {db} \X {c.key} /\ MovedTo(c) = {<<c.target, c.key>>}
    BY <1>3, <2>1 DEF Announced, MovedTo
  <2> QED
    BY <2>2, <2>3, <2>4, MoveOutcome
<1>4. CASE c.op = "flushall"
  <2>1. n = [x \in Dbs |-> EmptyDb] /\ Announced(db, c) = Dbs \X Keys
    BY <1>1, <1>4 DEF DbHandler, flushall, Announced
  <2>2. MapOK(n)
    BY <1>2, <2>1 DEF MapOK
  <2>3. ASSUME NEW p \in ChangedPlaces(m, n) PROVE p \in Dbs \X Keys
    BY <2>2, ChangedAt DEF MapOK
  <2> QED
    BY <1>1, <2>1, <2>2, <2>3
<1>5. CASE c.op = "flushdb"
  <2>1. n = [m EXCEPT ![db] = EmptyDb] /\ Announced(db, c) = {db} \X Keys
    BY <1>1, <1>5 DEF DbHandler, flushdb, Announced
  <2>2. Touches(m[db], EmptyDb, Keys)
    BY <1>2 DEF Touches, MapOK
  <2> QED
    <3>1. Replaced(m, db, EmptyDb, n)
      BY <2>1, ExceptReplaces
    <3> QED
      BY <1>1, <1>2, <2>1, <2>2, <3>1, OneDb
<1>6. CASE c.op = "swapdb"
  <2>1. c.db1 \in Dbs /\ c.db2 \in Dbs
    BY <1>6, CommandsAssumption
  <2>2. /\ n = [m EXCEPT ![c.db1] = m[c.db2], ![c.db2] = m[c.db1]]
        /\ Announced(db, c) = {c.db1, c.db2} \X Keys
    BY <1>1, <1>6 DEF DbHandler, swapdb, Announced
  <2>3. /\ n = [x \in Dbs |-> n[x]]
        /\ \A x \in Dbs : n[x] = IF x = c.db2 THEN m[c.db1] ELSE IF x = c.db1 THEN m[c.db2] ELSE m[x]
    BY <2>1, <2>2 DEF MapOK
  <2>4. MapOK(n)
    BY <2>1, <2>3 DEF MapOK
  <2>5. ASSUME NEW p \in ChangedPlaces(m, n) PROVE p \in {c.db1, c.db2} \X Keys
    <3>1. p = <<p[1], p[2]>> /\ p[1] \in {c.db1, c.db2}
      BY <2>3, ChangedAt
    <3>2. p[2] \in Keys
      BY <2>1, <2>4, <3>1, ChangedAt DEF MapOK
    <3> QED
      BY <3>1, <3>2
  <2> QED
    BY <1>1, <2>2, <2>4, <2>5
<1> QED
  BY <1>3, <1>4, <1>5, <1>6 DEF DbOps


\* A command that the master propagated keeps the map good, and every command is
\* announced wherever it changes something.
LEMMA DispatchOutcome ==
    ASSUME NEW m, MapOK(m), NEW db \in Dbs, NEW c \in Commands
    PROVE  /\ Propagated(m[db], c) => MapOK(dispatch_write_command(m, db, c))
           /\ ChangedPlaces(m, dispatch_write_command(m, db, c)) \subseteq Announced(db, c) \cup MovedTo(c)
<1>1. GoodDb(m[db])
  BY DEF MapOK
<1>2. AffectedKeys(c) \subseteq Keys
  BY CommandsAssumption
<1>3. ASSUME NEW e, Touches(m[db], e, AffectedKeys(c)), Propagated(m[db], c) => GoodDb(e),
             dispatch_write_command(m, db, c) = [m EXCEPT ![db] = e], c.op \notin DbOps
      PROVE  /\ Propagated(m[db], c) => MapOK(dispatch_write_command(m, db, c))
             /\ ChangedPlaces(m, dispatch_write_command(m, db, c)) \subseteq Announced(db, c)
  <2>1. Announced(db, c) = {db} \X AffectedKeys(c)
    BY <1>3 DEF Announced, DbOps
  <2> QED
    <3>1. PICK n : n = dispatch_write_command(m, db, c)
      OBVIOUS
    <3>2. Replaced(m, db, e, n)
      <4>1. n = [m EXCEPT ![db] = e]
        BY <1>3, <3>1
      <4> QED
        BY <4>1, ExceptReplaces
    <3>3. ChangedPlaces(m, n) \subseteq {db} \X AffectedKeys(c) /\ (GoodDb(e) => MapOK(n))
      BY <1>2, <1>3, <3>2, OneDb
    <3> QED
      BY <1>3, <2>1, <3>1, <3>3
<1>4. CASE c.op \in DbOps
  <2>1. dispatch_write_command(m, db, c) = DbHandler(m, db, c)
    BY <1>4 DEF dispatch_write_command, DbOps, KeyspaceOps, StringOps, SetOps, ListEndOps,
                ListMiddleOps, HashOps, ZSetOps, ZStoreOps
  <2> QED
    BY <1>4, <2>1, DbOutcome
<1>5. CASE c.op \in KeyspaceOps
  <2>1. c.op \notin DbOps
    BY <1>5 DEF DbOps, KeyspaceOps
  <2>2. PICK e : e = KeyspaceHandler(m[db], c)
    OBVIOUS
  <2>3. dispatch_write_command(m, db, c) = [m EXCEPT ![db] = e]
    BY <1>5, <2>2 DEF dispatch_write_command, DbOps, KeyspaceOps, StringOps, SetOps,
               ListEndOps, ListMiddleOps, HashOps, ZSetOps, ZStoreOps
  <2> QED
    BY <1>1, <1>3, <1>5, <2>1, <2>2, <2>3, KeyspaceOutcome DEF Outcome
<1>6. CASE c.op \in StringOps
  <2>1. c.op \notin DbOps
    BY <1>6 DEF DbOps, StringOps
  <2>2. PICK e : e = StringHandler(m[db], c)
    OBVIOUS
  <2>3. dispatch_write_command(m, db, c) = [m EXCEPT ![db] = e]
    BY <1>6, <2>2 DEF dispatch_write_command, DbOps, KeyspaceOps, StringOps, SetOps,
               ListEndOps, ListMiddleOps, HashOps, ZSetOps, ZStoreOps
  <2> QED
    BY <1>1, <1>3, <1>6, <2>1, <2>2, <2>3, StringOutcome DEF Outcome
<1>7. CASE c.op \in SetOps
  <2>1. c.op \notin DbOps
    BY <1>7 DEF DbOps, SetOps
  <2>2. PICK e : e = SetHandler(m[db], c)
    OBVIOUS
  <2>3. dispatch_write_command(m, db, c) = [m EXCEPT ![db] = e]
    BY <1>7, <2>2 DEF dispatch_write_command, DbOps, KeyspaceOps, StringOps, SetOps,
               ListEndOps, ListMiddleOps, HashOps, ZSetOps, ZStoreOps
  <2> QED
    BY <1>1, <1>3, <1>7, <2>1, <2>2, <2>3, SetOutcome DEF Outcome
<1>8. CASE c.op \in ListEndOps
  <2>1. c.op \notin DbOps
    BY <1>8 DEF DbOps, ListEndOps
  <2>2. PICK e : e = ListEndHandler(m[db], c)
    OBVIOUS
  <2>3. dispatch_write_command(m, db, c) = [m EXCEPT ![db] = e]
    BY <1>8, <2>2 DEF dispatch_write_command, DbOps, KeyspaceOps, StringOps, SetOps,
               ListEndOps, ListMiddleOps, HashOps, ZSetOps, ZStoreOps
  <2> QED
    BY <1>1, <1>3, <1>8, <2>1, <2>2, <2>3, ListEndOutcome DEF Outcome
<1>9. CASE c.op \in ListMiddleOps
  <2>1. c.op \notin DbOps
    BY <1>9 DEF DbOps, ListMiddleOps
  <2>2. PICK e : e = ListMiddleHandler(m[db], c)
    OBVIOUS
  <2>3. dispatch_write_command(m, db, c) = [m EXCEPT ![db] = e]
    BY <1>9, <2>2 DEF dispatch_write_command, DbOps, KeyspaceOps, StringOps, SetOps,
               ListEndOps, ListMiddleOps, HashOps, ZSetOps, ZStoreOps
  <2> QED
    BY <1>1, <1>3, <1>9, <2>1, <2>2, <2>3, ListMiddleOutcome DEF Outcome
<1>10. CASE c.op \in HashOps
  <2>1. c.op \notin DbOps
    BY <1>10 DEF DbOps, HashOps
  <2>2. PICK e : e = HashHandler(m[db], c)
    OBVIOUS
  <2>3. dispatch_write_command(m, db, c) = [m EXCEPT ![db] = e]
    BY <1>10, <2>2 DEF dispatch_write_command, DbOps, KeyspaceOps, StringOps, SetOps,
               ListEndOps, ListMiddleOps, HashOps, ZSetOps, ZStoreOps
  <2> QED
    BY <1>1, <1>3, <1>10, <2>1, <2>2, <2>3, HashOutcome
<1>11. CASE c.op \in ZSetOps
  <2>1. c.op \notin DbOps
    BY <1>11 DEF DbOps, ZSetOps
  <2>2. PICK e : e = ZSetHandler(m[db], c)
    OBVIOUS
  <2>3. dispatch_write_command(m, db, c) = [m EXCEPT ![db] = e]
    BY <1>11, <2>2 DEF dispatch_write_command, DbOps, KeyspaceOps, StringOps, SetOps,
               ListEndOps, ListMiddleOps, HashOps, ZSetOps, ZStoreOps
  <2> QED
    BY <1>1, <1>3, <1>11, <2>1, <2>2, <2>3, ZSetOutcome
<1>12. CASE c.op \in ZStoreOps
  <2>1. c.op \notin DbOps
    BY <1>12 DEF DbOps, ZStoreOps
  <2>2. PICK e : e = ZStoreHandler(m[db], c)
    OBVIOUS
  <2>3. dispatch_write_command(m, db, c) = [m EXCEPT ![db] = e]
    BY <1>12, <2>2 DEF dispatch_write_command, DbOps, KeyspaceOps, StringOps, SetOps,
               ListEndOps, ListMiddleOps, HashOps, ZSetOps, ZStoreOps
  <2> QED
    BY <1>1, <1>3, <1>12, <2>1, <2>2, <2>3, ZStoreOutcome DEF Outcome
<1>13. CASE /\ c.op \notin DbOps /\ c.op \notin KeyspaceOps /\ c.op \notin StringOps
            /\ c.op \notin SetOps /\ c.op \notin ListEndOps /\ c.op \notin ListMiddleOps
            /\ c.op \notin HashOps /\ c.op \notin ZSetOps /\ c.op \notin ZStoreOps
  <2>1. dispatch_write_command(m, db, c) = m
    BY <1>13 DEF dispatch_write_command
  <2>2. ChangedPlaces(m, m) = {}
    BY ChangedAt
  <2> QED
    BY <2>1, <2>2
<1> QED
  BY <1>4, <1>5, <1>6, <1>7, <1>8, <1>9, <1>10, <1>11, <1>12, <1>13

-----------------------------------------------------------------------------
(* What the moves conserve. *)

\* How often v is in the list.
CountOf(l, v) == Cardinality({i \in DOMAIN l : l[i] = v})

\* Once more, if x is v.
OneIf(x, v) == IF x = v THEN 1 ELSE 0

\* An element more at the end.
LEMMA CountAppend ==
    ASSUME NEW S, NEW l \in Seq(S), NEW x \in S, NEW v
    PROVE  /\ CountOf(l, v) \in Nat
           /\ CountOf(Append(l, x), v) = CountOf(l, v) + OneIf(x, v)
<1>1. PICK n \in Nat : n = Len(l) /\ DOMAIN l = 1 .. n
  OBVIOUS
<1>2. PICK u : u = Append(l, x)
  OBVIOUS
<1>3. DOMAIN u = 1 .. n + 1 /\ u[n + 1] = x /\ \A i \in 1 .. n : u[i] = l[i]
  BY <1>1, <1>2
<1>4. PICK H : H = {i \in 1 .. n : l[i] = v}
  OBVIOUS
<1>5. IsFiniteSet(H) /\ Cardinality(H) \in Nat /\ n + 1 \notin H
  <2>1. H \in SUBSET (1 .. n) /\ IsFiniteSet(1 .. n)
    BY <1>4, FS_Interval
  <2>2. IsFiniteSet(H)
    BY <2>1, FS_Subset
  <2> QED
    BY <1>4, <2>2, FS_CardinalityType
<1>6. CountOf(l, v) = Cardinality(H)
  BY <1>1, <1>4 DEF CountOf
<1>7. 1 .. n + 1 = (1 .. n) \cup {n + 1}
  OBVIOUS
<1>8. CASE x = v
  <2>1. {i \in DOMAIN u : u[i] = v} = H \cup {n + 1}
    BY <1>3, <1>4, <1>7, <1>8
  <2>2. Cardinality(H \cup {n + 1}) = Cardinality(H) + 1
    BY <1>5, FS_AddElement
  <2> QED
    BY <1>2, <1>5, <1>6, <1>8, <2>1, <2>2 DEF CountOf, OneIf
<1>9. CASE x # v
  <2>1. {i \in DOMAIN u : u[i] = v} = H
    BY <1>3, <1>4, <1>7, <1>9
  <2>2. OneIf(x, v) = 0
    BY <1>9 DEF OneIf
  <2>3. CountOf(u, v) = Cardinality(H)
    BY <2>1 DEF CountOf
  <2> QED
    BY <1>2, <1>5, <1>6, <2>2, <2>3
<1> QED
  BY <1>8, <1>9

\* An element more at the front.
LEMMA CountPrepend ==
    ASSUME NEW S, NEW l \in Seq(S), NEW x \in S, NEW v
    PROVE  CountOf(<<x>> \o l, v) = CountOf(l, v) + OneIf(x, v)
<1>1. PICK n \in Nat : n = Len(l) /\ DOMAIN l = 1 .. n
  OBVIOUS
<1>2. PICK u : u = <<x>> \o l
  OBVIOUS
<1>3. DOMAIN u = 1 .. n + 1 /\ u[1] = x /\ \A i \in 1 .. n : u[i + 1] = l[i]
  <2>1. <<x>> \in Seq(S) /\ Len(<<x>>) = 1 /\ <<x>>[1] = x
    OBVIOUS
  <2>2. PICK w \in Seq(S) : w = <<x>> /\ Len(w) = 1 /\ w[1] = x
    BY <2>1
  <2>3. /\ w \o l \in Seq(S) /\ Len(w \o l) = Len(w) + Len(l)
        /\ \A i \in 1 .. Len(w) + Len(l) : (w \o l)[i] = IF i <= Len(w) THEN w[i] ELSE l[i - Len(w)]
    BY ConcatProperties
  <2>4. u = w \o l /\ Len(u) = n + 1 /\ u \in Seq(S)
    BY <1>1, <1>2, <2>2, <2>3
  <2>5. u[1] = x
    BY <1>1, <2>2, <2>3, <2>4
  <2>6. ASSUME NEW i \in 1 .. n PROVE u[i + 1] = l[i]
    <3>1. i + 1 \in 1 .. Len(w) + Len(l) /\ ~(i + 1 <= Len(w)) /\ i + 1 - Len(w) = i
      BY <1>1, <2>2
    <3> QED
      BY <2>3, <2>4, <3>1
  <2> QED
    BY <2>4, <2>5, <2>6
<1>4. PICK H, G : H = {i \in 1 .. n : l[i] = v} /\ G = {i \in 2 .. n + 1 : u[i] = v}
  OBVIOUS
<1>5. IsFiniteSet(H) /\ Cardinality(H) \in Nat
  <2>1. H \in SUBSET (1 .. n) /\ IsFiniteSet(1 .. n)
    BY <1>4, FS_Interval
  <2>2. IsFiniteSet(H)
    BY <2>1, FS_Subset
  <2> QED
    BY <2>2, FS_CardinalityType
<1>6. CountOf(l, v) = Cardinality(H)
  BY <1>1, <1>4 DEF CountOf
<1>7. IsFiniteSet(G) /\ Cardinality(G) = Cardinality(H)
  <2>1. PICK f : f = [i \in H |-> i + 1]
    OBVIOUS
  <2>2. \A i \in H : i \in 1 .. n /\ i + 1 \in 2 .. n + 1 /\ u[i + 1] = v
    BY <1>3, <1>4
  <2>3. f \in [H -> G] /\ \A i \in H : f[i] = i + 1
    BY <1>4, <2>1, <2>2
  <2>4. \A i, j \in H : f[i] = f[j] => i = j
    BY <2>2, <2>3
  <2>5. ASSUME NEW k \in G PROVE \E i \in H : f[i] = k
    <3>1. k \in 2 .. n + 1 /\ u[k] = v
      BY <1>4
    <3>2. PICK i \in 1 .. n : i = k - 1 /\ i + 1 = k
      <4>1. k - 1 \in 1 .. n /\ (k - 1) + 1 = k
        BY <3>1
      <4> QED
        BY <4>1
    <3> QED
      BY <1>3, <1>4, <2>3, <3>1, <3>2
  <2>6. f \in Bijection(H, G)
    <3>1. f \in Injection(H, G)
      BY <2>3, <2>4 DEF Injection, IsInjective
    <3>2. f \in Surjection(H, G)
      BY <2>3, <2>5 DEF Surjection
    <3> QED
      BY <3>1, <3>2 DEF Bijection
  <2> QED
    BY <1>5, <2>6, FS_Bijection DEF ExistsBijection
<1>8. 1 .. n + 1 = (2 .. n + 1) \cup {1} /\ 1 \notin G
  BY <1>4
<1>9. CASE x = v
  <2>1. {i \in DOMAIN u : u[i] = v} = G \cup {1}
    BY <1>3, <1>4, <1>8, <1>9
  <2>2. Cardinality(G \cup {1}) = Cardinality(G) + 1
    BY <1>7, <1>8, FS_AddElement
  <2> QED
    BY <1>2, <1>5, <1>6, <1>7, <1>9, <2>1, <2>2 DEF CountOf, OneIf
<1>10. CASE x # v
  <2>1. {i \in DOMAIN u : u[i] = v} = G
    BY <1>3, <1>4, <1>8, <1>10
  <2>2. OneIf(x, v) = 0
    BY <1>10 DEF OneIf
  <2>3. CountOf(u, v) = Cardinality(H)
    BY <1>7, <2>1 DEF CountOf
  <2> QED
    BY <1>2, <1>5, <1>6, <2>2, <2>3
<1> QED
  BY <1>9, <1>10

\* Taking an element from one end.
LEMMA CountEnds ==
    ASSUME NEW S, NEW l \in Seq(S), l # <<>>, NEW v
    PROVE  /\ Head(l) \in S /\ Tail(l) \in Seq(S)
           /\ CountOf(l, v) = CountOf(Tail(l), v) + OneIf(Head(l), v)
           /\ Last(l) \in S /\ Front(l) \in Seq(S)
           /\ CountOf(l, v) = CountOf(Front(l), v) + OneIf(Last(l), v)
<1>1. PICK n \in Nat : n = Len(l) /\ n > 0 /\ DOMAIN l = 1 .. n
  OBVIOUS
<1>2. PICK h \in S, t \in Seq(S) : h = Head(l) /\ t = Tail(l)
  BY HeadTailProperties
<1>3. l = <<h>> \o t
  BY <1>2
<1>4. PICK b \in S : b = Last(l)
  BY <1>1 DEF Last
<1>5. PICK f \in Seq(S) : f = Front(l) /\ Len(f) = n - 1 /\ \A i \in 1 .. n - 1 : f[i] = l[i]
  <2>1. PICK m \in Int : m = n - 1
    OBVIOUS
  <2>2. \A i \in 1 .. m : l[i] \in S
    BY <1>1, <2>1
  <2>3. /\ SubSeq(l, 1, m) \in Seq(S)
        /\ Len(SubSeq(l, 1, m)) = IF 1 <= m THEN m - 1 + 1 ELSE 0
        /\ \A i \in 1 .. m - 1 + 1 : SubSeq(l, 1, m)[i] = l[1 + i - 1]
    BY <2>2, SubSeqProperties
  <2>4. Len(SubSeq(l, 1, m)) = m /\ \A i \in 1 .. m : SubSeq(l, 1, m)[i] = l[i]
    BY <1>1, <2>1, <2>3
  <2>5. Front(l) = SubSeq(l, 1, m)
    BY <1>1, <2>1 DEF Front
  <2> QED
    BY <2>1, <2>3, <2>4, <2>5
<1>6. l = Append(f, b)
  <2>1. PICK u : u = Append(f, b)
    OBVIOUS
  <2>2. u \in Seq(S) /\ Len(u) = n /\ u[n] = b /\ \A i \in 1 .. n - 1 : u[i] = f[i]
    BY <1>1, <1>5, <2>1
  <2>3. \A i \in 1 .. n : u[i] = l[i]
    BY <1>1, <1>4, <1>5, <2>2 DEF Last
  <2> QED
    BY <1>1, <2>1, <2>2, <2>3, SeqEqual
<1>7. CountOf(Append(f, b), v) = CountOf(f, v) + OneIf(b, v)
  BY CountAppend
<1>8. CountOf(<<h>> \o t, v) = CountOf(t, v) + OneIf(h, v)
  BY CountPrepend
<1> QED
  BY <1>2, <1>3, <1>4, <1>5, <1>6, <1>7, <1>8

\* A key whose content is replaced, or which goes with its last element.
Kept(d, key, kind, x) ==
    IF x = Empty[kind] THEN DropKey(d, key) ELSE PutKey(d, key, Value(kind, x))

\* What the commands find afterwards.
LEMMA KeptContent ==
    ASSUME NEW d, NEW key, NEW kind, NEW x
    PROVE  /\ ContentOf(Kept(d, key, kind, x), key, kind) = x
           /\ FreeFor(Kept(d, key, kind, x), key, kind)
           /\ ContentOf(PutKey(d, key, Value(kind, x)), key, kind) = x
           /\ \A k : k # key => /\ ContentOf(Kept(d, key, kind, x), k, kind) = ContentOf(d, k, kind)
                                /\ FreeFor(Kept(d, key, kind, x), k, kind) <=> FreeFor(d, k, kind)
                                /\ ContentOf(PutKey(d, key, Value(kind, x)), k, kind) = ContentOf(d, k, kind)
<1>1. PICK e : e = PutKey(d, key, Value(kind, x))
  OBVIOUS
<1>2. /\ DOMAIN e = DOMAIN d \cup {key} /\ \A k \in DOMAIN d : k # key => e[k] = d[k]
      /\ e[key] = Value(kind, x)
  BY <1>1 DEF PutKey
<1>3. DOMAIN e[key] = {kind} /\ e[key][kind] = x
  BY <1>2 DEF Value
<1>4. ContentOf(e, key, kind) = x /\ FreeFor(e, key, kind)
  BY <1>2, <1>3 DEF ContentOf, Holds, FreeFor
<1>5. ASSUME NEW k, k # key
      PROVE ContentOf(e, k, kind) = ContentOf(d, k, kind) /\ (FreeFor(e, k, kind) <=> FreeFor(d, k, kind))
  BY <1>2, <1>5 DEF ContentOf, Holds, FreeFor
<1>6. PICK f : f = DropKey(d, key)
  OBVIOUS
<1>7. DOMAIN f = DOMAIN d \ {key} /\ \A k \in DOMAIN f : f[k] = d[k]
  BY <1>6 DEF DropKey, DropKeys, Restrict
<1>8. ContentOf(f, key, kind) = Empty[kind] /\ FreeFor(f, key, kind)
  BY <1>7 DEF ContentOf, Holds, FreeFor
<1>9. ASSUME NEW k, k # key
      PROVE ContentOf(f, k, kind) = ContentOf(d, k, kind) /\ (FreeFor(f, k, kind) <=> FreeFor(d, k, kind))
  BY <1>7, <1>9 DEF ContentOf, Holds, FreeFor
<1> QED
  BY <1>1, <1>4, <1>5, <1>6, <1>8, <1>9 DEF Kept

\* The other keys are as they were.
LEMMA OthersKept ==
    ASSUME NEW d, NEW e, NEW K, Outcome(d, e, K)
    PROVE  \A k \in DOMAIN d \ K : k \in DOMAIN e /\ e[k] = d[k]
  BY DEF Outcome, Touches

\* LMOVE conserves the elements.
LEMMA LmoveConserves ==
    ASSUME NEW d, GoodDb(d), NEW source, NEW dest, FreeFor(d, dest, "list"),
           NEW fromLeft \in BOOLEAN, NEW toLeft \in BOOLEAN
    PROVE  ListsConserved(d, lmove(d, source, dest, fromLeft, toLeft), source, dest)
<1>1. PICK e : e = lmove(d, source, dest, fromLeft, toLeft) /\ Outcome(d, e, {source, dest})
  BY LmoveOutcome
<1>2. \A k \in DOMAIN d \ {source, dest} : k \in DOMAIN e /\ e[k] = d[k]
  BY <1>1, OthersKept
<1>3. \A f, k, v : Occurrences(f, k, v) = CountOf(ContentOf(f, k, "list"), v)
  BY DEF Occurrences, CountOf
<1>4. PICK ls \in Seq(Bytes), ld \in Seq(Bytes) : ls = ContentOf(d, source, "list") /\ ld = ContentOf(d, dest, "list")
  BY ContentGood
<1>5. PICK ms, md : ms = ContentOf(e, source, "list") /\ md = ContentOf(e, dest, "list")
  OBVIOUS
<1>6. ASSUME NEW v
      PROVE  IF source = dest THEN CountOf(ms, v) = CountOf(ls, v)
             ELSE CountOf(ms, v) + CountOf(md, v) = CountOf(ls, v) + CountOf(ld, v)
  <2>1. CASE ~Holds(d, source, "list")
    <3>1. e = d
      BY <1>1, <2>1 DEF lmove
    <3> QED
      BY <1>4, <1>5, <3>1
  <2>2. CASE Holds(d, source, "list")
    <3>1. ls = d[source].list /\ ls # <<>>
      BY <1>4, <2>2, HeldGood DEF ContentOf
    <3>2. PICK x \in Bytes, rest \in Seq(Bytes) :
             /\ x = IF fromLeft THEN Head(ls) ELSE Last(ls)
             /\ rest = IF fromLeft THEN Tail(ls) ELSE Front(ls)
             /\ CountOf(ls, v) = CountOf(rest, v) + OneIf(x, v)
      <4>1. /\ Head(ls) \in Bytes /\ Tail(ls) \in Seq(Bytes)
            /\ CountOf(ls, v) = CountOf(Tail(ls), v) + OneIf(Head(ls), v)
            /\ Last(ls) \in Bytes /\ Front(ls) \in Seq(Bytes)
            /\ CountOf(ls, v) = CountOf(Front(ls), v) + OneIf(Last(ls), v)
        BY <3>1, CountEnds
      <4>2. CASE fromLeft
        BY <4>1, <4>2, Zenon
      <4>3. CASE ~fromLeft
        BY <4>1, <4>3, Zenon
      <4> QED
        BY <4>2, <4>3
    <3>3. \A t \in Seq(Bytes) : /\ CountOf(t, v) \in Nat /\ OneIf(x, v) \in Nat
                                /\ CountOf(Append(t, x), v) = CountOf(t, v) + OneIf(x, v)
                                /\ CountOf(<<x>> \o t, v) = CountOf(t, v) + OneIf(x, v)
      BY CountAppend, CountPrepend DEF OneIf
    <3>4. CASE source = dest
      <4>1. PICK w : w = IF toLeft THEN <<x>> \o rest ELSE Append(rest, x)
        OBVIOUS
      <4>2. e = PutKey(d, source, Value("list", w))
        BY <1>1, <2>2, <3>1, <3>2, <3>4, <4>1 DEF lmove
      <4>3. ms = w
        BY <1>5, <4>2, KeptContent
      <4> QED
        BY <3>2, <3>3, <3>4, <4>1, <4>3
    <3>5. CASE source # dest
      <4>1. PICK f : f = Kept(d, source, "list", rest)
        OBVIOUS
      <4>2. /\ ContentOf(f, source, "list") = rest
            /\ ContentOf(f, dest, "list") = ld /\ FreeFor(f, dest, "list")
        BY <1>4, <3>5, <4>1, KeptContent
      <4>3. PICK w : w = IF toLeft THEN <<x>> \o ld ELSE Append(ld, x)
        OBVIOUS
      <4>4. e = PutKey(f, dest, Value("list", w))
        BY <1>1, <2>2, <3>1, <3>2, <3>5, <4>1, <4>2, <4>3 DEF lmove, Modify, Upsert, Kept
      <4>5. md = w /\ ms = rest
        BY <1>5, <3>5, <4>2, <4>4, KeptContent
      <4>6. CountOf(w, v) = CountOf(ld, v) + OneIf(x, v) /\ CountOf(ld, v) \in Nat
            /\ CountOf(rest, v) \in Nat /\ OneIf(x, v) \in Nat
        BY <3>3, <4>3
      <4> QED
        BY <3>2, <3>5, <4>5, <4>6
    <3> QED
      BY <3>4, <3>5
  <2> QED
    BY <2>1, <2>2
<1> QED
  BY <1>1, <1>2, <1>3, <1>4, <1>5, <1>6 DEF ListsConserved

\* SMOVE conserves the members.
LEMMA SmoveConserves ==
    ASSUME NEW d, NEW source, NEW dest, FreeFor(d, dest, "set"),
           NEW v \in ContentOf(d, source, "set")
    PROVE  LET e == smove(d, source, dest, v)
           IN /\ ContentOf(e, source, "set") \cup ContentOf(e, dest, "set")
                   = ContentOf(d, source, "set") \cup ContentOf(d, dest, "set")
              /\ v \in ContentOf(e, dest, "set")
              /\ source # dest => v \notin ContentOf(e, source, "set")
<1>1. PICK e : e = smove(d, source, dest, v)
  OBVIOUS
<1>2. Empty["set"] = {}
  BY DEF Empty
<1>3. PICK s : s = ContentOf(d, source, "set") /\ Holds(d, source, "set") /\ s = d[source]["set"]
  BY <1>2 DEF ContentOf
<1>4. PICK f : f = Kept(d, source, "set", s \ {v})
  OBVIOUS
<1>5. ContentOf(f, source, "set") = s \ {v} /\ FreeFor(f, source, "set")
  BY <1>4, KeptContent
<1>6. source # dest => /\ ContentOf(f, dest, "set") = ContentOf(d, dest, "set")
                       /\ FreeFor(f, dest, "set")
  BY <1>4, KeptContent
<1>7. FreeFor(f, dest, "set")
  BY <1>5, <1>6
<1>8. PICK t : t = ContentOf(f, dest, "set")
  OBVIOUS
<1>9. e = PutKey(f, dest, Value("set", t \cup {v}))
  BY <1>1, <1>3, <1>4, <1>7, <1>8 DEF smove, Modify, Upsert, Kept
<1>10. ContentOf(e, dest, "set") = t \cup {v}
  BY <1>9, KeptContent
<1>11. source # dest => ContentOf(e, source, "set") = s \ {v}
  BY <1>5, <1>9, KeptContent
<1> QED
  BY <1>1, <1>3, <1>5, <1>6, <1>8, <1>10, <1>11

-----------------------------------------------------------------------------
(* The theorems about the commands. *)

\* Whatever the projection replays, the map stays a map from databases to good
\* databases: the inductive invariant behind all theorems of this module.
THEOREM StorageInductive == Spec => []MapOK(map)
<1>1. Init => MapOK(map)
  BY FS_EmptySet DEF Init, MapOK, GoodDb, EmptyDb
<1>2. ASSUME MapOK(map), [Next]_vars PROVE MapOK(map')
  <2>1. CASE Next
    <3>1. PICK db \in Dbs : \E ops : Execute(db, ops)
      BY <2>1 DEF Next
    <3>2. PICK c \in Commands : /\ Propagated(map[db], c)
                                /\ map' = dispatch_write_command(map, db, c)
      BY <3>1 DEF Execute
    <3> QED
      BY <1>2, <3>2, DispatchOutcome
  <2>2. CASE UNCHANGED vars
    BY <1>2, <2>2 DEF vars
  <2> QED
    BY <1>2, <2>1, <2>2
<1>3. MapOK(map) /\ [Next]_vars => MapOK(map)'
  BY <1>2
<1> QED
  BY <1>1, <1>3, PTL DEF Spec

\* No key of the storage outlives its last element, for any sequence of commands
\* that a master propagates.
THEOREM StorageNoEmptyCollections == Spec => []NoEmptyCollections
<1>1. MapOK(map) => NoEmptyCollections
  <2>1. Empty["list"] = <<>> /\ Empty["set"] = {} /\ Empty["hash"] = <<>> /\ Empty["zset"] = EmptyZSet
    BY DEF Empty
  <2>2. SUFFICES ASSUME MapOK(map), NEW p \in Places(map),
                        NEW kind \in DOMAIN map[p[1]][p[2]] \ {"str"}
                 PROVE  map[p[1]][p[2]][kind] # Empty[kind]
    BY DEF NoEmptyCollections
  <2>3. GoodValue(map[p[1]][p[2]])
    BY <2>2, PlacesOf DEF MapOK, GoodDb
  <2> QED
    BY <2>1, <2>3 DEF GoodValue, Kinds
<1> QED
  BY <1>1, StorageInductive, PTL

\* The index and the map of every stored sorted set hold the same pairs, for any
\* sequence of commands.
THEOREM StorageZIndexMatchesEntries == Spec => []ZIndexMatchesEntries
<1>1. MapOK(map) => ZIndexMatchesEntries
  <2>1. SUFFICES ASSUME MapOK(map), NEW p \in Places(map), "zset" \in DOMAIN map[p[1]][p[2]]
                 PROVE  map[p[1]][p[2]].zset.index
                          = {<<map[p[1]][p[2]].zset.entries[m], m>> :
                               m \in DOMAIN map[p[1]][p[2]].zset.entries}
    BY DEF ZIndexMatchesEntries
  <2>2. GoodValue(map[p[1]][p[2]])
    BY <2>1, PlacesOf DEF MapOK, GoodDb
  <2> QED
    BY <2>1, <2>2 DEF GoodValue, Agree
<1> QED
  BY <1>1, StorageInductive, PTL

\* In every state, a replayed command reaches the watchers of every key it
\* changes, but for the key that MOVE puts in the other database.
THEOREM StorageEveryChangeAnnounced == Spec => []EveryChangeAnnounced
<1>1. MapOK(map) => EveryChangeAnnounced
  BY DispatchOutcome DEF EveryChangeAnnounced
<1> QED
  BY <1>1, StorageInductive, PTL

\* What the map holds at its places.
LEMMA StoredGood ==
    ASSUME MapOK(map)
    PROVE  /\ \A l \in StoredLists : l \in Seq(Bytes)
           /\ \A z \in StoredZSets : Agree(z)
<1>1. ASSUME NEW q \in Places(map) PROVE GoodDb(map[q[1]])
  BY PlacesOf DEF MapOK
<1>2. ASSUME NEW l \in StoredLists PROVE l \in Seq(Bytes)
  <2>1. PICK q \in Places(map) : Holds(map[q[1]], q[2], "list") /\ l = map[q[1]][q[2]].list
    BY DEF StoredLists
  <2> QED
    BY <1>1, <2>1, HeldGood
<1>3. ASSUME NEW z \in StoredZSets PROVE Agree(z)
  <2>1. PICK q \in Places(map) : Holds(map[q[1]], q[2], "zset") /\ z = map[q[1]][q[2]].zset
    BY DEF StoredZSets
  <2> QED
    BY <1>1, <2>1, HeldGood
<1> QED
  BY <1>2, <1>3

\* LTRIM, ZREMRANGEBYRANK, LREM, ZPOPMIN and ZPOPMAX remove from every stored
\* collection what their arguments say, whatever the indices and counts.
THEOREM StorageRemovalsMatch == Spec => []RemovalsMatch
<1>1. Indices \subseteq Int /\ 0 .. MaxSize \subseteq Nat /\ -MaxSize .. MaxSize \subseteq Int
  BY StorageAssumption DEF Indices
<1>2. MapOK(map) => RangesMatch
  <2> SUFFICES ASSUME MapOK(map), NEW start \in Indices, NEW stop \in Indices
               PROVE  /\ \A l \in StoredLists :
                            InRange(Len(l), start, stop) => Trim(l, start, stop) = TrimmedList(l, start, stop)
                      /\ \A z \in StoredZSets :
                            InRange(Cardinality(z.index), start, stop) =>
                               RemRangeByRank(z, start, stop).index
                                  = z.index \ Range(TrimmedList(Ranked(z), start, stop))
    BY DEF RangesMatch
  <2>1. start \in Int /\ stop \in Int
    BY <1>1
  <2>2. \A l \in StoredLists :
           InRange(Len(l), start, stop) => Trim(l, start, stop) = TrimmedList(l, start, stop)
    BY <2>1, StoredGood, TrimMatches
  <2>3. \A z \in StoredZSets :
           InRange(Cardinality(z.index), start, stop) =>
              RemRangeByRank(z, start, stop).index
                 = z.index \ Range(TrimmedList(Ranked(z), start, stop))
    BY <2>1, StoredGood, IndexGood, RankRangeMatches
  <2> QED
    BY <2>2, <2>3
<1>3. MapOK(map) => OccurrencesMatch
  BY <1>1, StoredGood, RemMatches DEF OccurrencesMatch
<1>4. MapOK(map) => PopsTakeExtremes
  <2> SUFFICES ASSUME MapOK(map), NEW z \in StoredZSets, NEW count \in 1 .. MaxSize
               PROVE  LET low == PopMin(z, count).index
                          high == PopMax(z, count).index
                      IN /\ Cardinality(low) = Max({0, Cardinality(z.index) - count})
                         /\ Cardinality(high) = Cardinality(low)
                         /\ \A p \in low, q \in z.index \ low : IndexLess(q, p)
                         /\ \A p \in high, q \in z.index \ high : IndexLess(p, q)
    BY DEF PopsTakeExtremes
  <2>1. count \in Nat /\ PairSet(z.index)
    BY <1>1, StoredGood, IndexGood
  <2> QED
    BY <2>1, PopsTake
<1>5. MapOK(map) => RemovalsMatch
  BY <1>2, <1>3, <1>4 DEF RemovalsMatch
<1> QED
  BY <1>5, StorageInductive, PTL

\* LMOVE, RPOPLPUSH and SMOVE lose and double nothing, for any two keys of any
\* database a sequence of commands can reach.
THEOREM StorageMovesConserve == Spec => []MovesConserve
<1>1. MapOK(map) => MovesConserve
  <2> SUFFICES ASSUME MapOK(map), NEW db \in Dbs, NEW source \in Keys, NEW dest \in Keys
               PROVE  /\ FreeFor(map[db], dest, "list") =>
                           \A fromLeft, toLeft \in BOOLEAN :
                              ListsConserved(map[db], lmove(map[db], source, dest, fromLeft, toLeft),
                                             source, dest)
                      /\ FreeFor(map[db], dest, "set") =>
                           \A v \in ContentOf(map[db], source, "set") :
                              LET e == smove(map[db], source, dest, v)
                              IN /\ ContentOf(e, source, "set") \cup ContentOf(e, dest, "set")
                                      = ContentOf(map[db], source, "set") \cup ContentOf(map[db], dest, "set")
                                 /\ v \in ContentOf(e, dest, "set")
                                 /\ source # dest => v \notin ContentOf(e, source, "set")
    BY DEF MovesConserve
  <2>1. GoodDb(map[db])
    BY DEF MapOK
  <2> QED
    BY <2>1, LmoveConserves, SmoveConserves
<1> QED
  BY <1>1, StorageInductive, PTL

-----------------------------------------------------------------------------
(* Reads and the STORE commands. *)

\* Nothing in ascending order.
LEMMA AscendingEmpty == Ascending({}) = <<>>
<1>1. Ascending({}) \in Seq({}) /\ Len(Ascending({})) = 0
  BY AscendingSorts, FS_EmptySet
<1> QED
  BY <1>1

\* Byte strings in ascending order.
LEMMA MembersSort ==
    ASSUME NEW s, Members(s)
    PROVE  /\ Cardinality(s) \in Nat
           /\ Ascending(s) \in Seq(s) /\ Len(Ascending(s)) = Cardinality(s)
           /\ DOMAIN Ascending(s) = 1 .. Cardinality(s)
           /\ Sorts(Ascending(s), s)
           /\ \A l : Sorts(l, s) => l = Ascending(s)
<1>1. s \subseteq Int /\ IsFiniteSet(s)
  BY StorageAssumption DEF Members
<1> QED
  BY <1>1, AscendingSorts

\* Answers and errors.
LEMMA Replies == \A x : Ok(x) # WrongType /\ Ok(x)[2] = x
  BY DEF Ok, WrongType

\* A key that was dropped leaves the others.
LEMMA DroppedContent ==
    ASSUME NEW d, NEW dest, NEW k, k # dest, NEW kind
    PROVE  /\ ContentOf(del(d, dest), k, kind) = ContentOf(d, k, kind)
           /\ FreeFor(del(d, dest), k, kind) <=> FreeFor(d, k, kind)
           /\ dest \notin DOMAIN del(d, dest)
<1>1. PICK f : f = del(d, dest)
  OBVIOUS
<1>2. DOMAIN f = DOMAIN d \ {dest} /\ \A x \in DOMAIN f : f[x] = d[x]
  BY <1>1 DEF del, DropKey, DropKeys, Restrict
<1> QED
  BY <1>1, <1>2 DEF ContentOf, Holds, FreeFor

\* One of two sources has another type.
Refused(d, k, l) == ~(FreeFor(d, k, "set") /\ FreeFor(d, l, "set"))

\* How the STORE commands of two sources end.
SetStore(d, dest, k, l, s) ==
    IF Refused(d, k, l) \/ s = {} THEN del(d, dest) ELSE PutKey(del(d, dest), dest, Value("set", s))

\* What is found at the destination.
StoredAt(e, dest) == IF dest \in DOMAIN e THEN Ok(Ascending(e[dest].set)) ELSE Ok(<<>>)

\* What such a command has stored.
LEMMA StoredSet ==
    ASSUME NEW d, NEW dest, NEW k, NEW l, NEW s
    PROVE  StoredAt(SetStore(d, dest, k, l, s), dest)
              = IF Refused(d, k, l) THEN Ok(<<>>) ELSE Ok(Ascending(s))
<1>1. dest \notin DOMAIN del(d, dest)
  BY DEF del, DropKey, DropKeys, Restrict
<1>2. CASE Refused(d, k, l) \/ s = {}
  BY <1>1, <1>2, AscendingEmpty DEF SetStore, StoredAt
<1>3. CASE ~(Refused(d, k, l) \/ s = {})
  <2>1. PICK e : e = PutKey(del(d, dest), dest, Value("set", s))
    OBVIOUS
  <2>2. dest \in DOMAIN e /\ e[dest] = Value("set", s)
    BY <2>1 DEF PutKey
  <2>3. e[dest].set = s
    BY <2>2 DEF Value
  <2> QED
    BY <1>3, <2>1, <2>2, <2>3 DEF SetStore, StoredAt
<1> QED
  BY <1>2, <1>3

\* SUNION, SDIFF and SINTER of two keys.
LEMMA TwoReads ==
    ASSUME NEW d, NEW k, NEW l, NEW A, NEW B, A = ContentOf(d, k, "set"), B = ContentOf(d, l, "set")
    PROVE  /\ sunion(d, <<k, l>>) = IF Refused(d, k, l) THEN WrongType ELSE Ok(Ascending(A \cup B))
           /\ sdiff(d, <<k, l>>) = IF Refused(d, k, l) THEN WrongType ELSE Ok(Ascending(A \ B))
           /\ sinter(d, <<k, l>>) = IF Refused(d, k, l) THEN WrongType ELSE Ok(Ascending(A \cap B))
           /\ ~Refused(d, k, l) => sintercard(d, <<k, l>>) = Ok(Cardinality(A \cap B))
<1>1. PICK ks : ks = <<k, l>>
  OBVIOUS
<1>2. DOMAIN ks = {1, 2} /\ Len(ks) = 2 /\ ks[1] = k /\ ks[2] = l
  BY <1>1
<1>3. (\A i \in DOMAIN ks : FreeFor(d, ks[i], "set")) <=> ~Refused(d, k, l)
  BY <1>2 DEF Refused
<1>4. UNION {ContentOf(d, ks[i], "set") : i \in DOMAIN ks} = A \cup B
  BY <1>2
<1>5. sunion(d, ks) = IF Refused(d, k, l) THEN WrongType ELSE Ok(Ascending(A \cup B))
  BY <1>3, <1>4 DEF sunion
<1>6. 2 .. Len(ks) = {2}
  BY <1>2
<1>7. UNION {ContentOf(d, ks[i], "set") : i \in 2 .. Len(ks)} = B
  BY <1>2, <1>6
<1>8. sdiff(d, ks) = IF Refused(d, k, l) THEN WrongType ELSE Ok(Ascending(A \ B))
  BY <1>2, <1>3, <1>7 DEF sdiff
<1>9. Intersection(d, ks) = IF Refused(d, k, l) THEN WrongType ELSE Ok(A \cap B)
  <2>1. PICK missing : missing = {i \in 2 .. Len(ks) : ks[i] \notin DOMAIN d}
    OBVIOUS
  <2>2. PICK wrong : wrong = {i \in DOMAIN ks : ~FreeFor(d, ks[i], "set")}
    OBVIOUS
  <2>3. {m \in ContentOf(d, ks[1], "set") : \A i \in DOMAIN ks : m \in ContentOf(d, ks[i], "set")} = A \cap B
    BY <1>2
  <2>4. Refused(d, k, l) <=> wrong # {}
    BY <1>3, <2>2
  <2>5. wrong # {} => \A i \in missing : i > Min(wrong)
    <3> SUFFICES ASSUME wrong # {}, NEW i \in missing PROVE i > Min(wrong)
      OBVIOUS
    <3>1. i = 2 /\ l \notin DOMAIN d
      BY <1>2, <1>6, <2>1
    <3>2. wrong = {1}
      BY <1>2, <2>2, <3>1 DEF FreeFor
    <3>3. Min({1}) = 1
      BY DEF Min
    <3> QED
      BY <3>1, <3>2, <3>3
  <2> QED
    BY <2>1, <2>2, <2>3, <2>4, <2>5 DEF Intersection
<1>10. sinter(d, ks) = IF Refused(d, k, l) THEN WrongType ELSE Ok(Ascending(A \cap B))
  BY <1>9, Replies DEF sinter
<1>11. ~Refused(d, k, l) => sintercard(d, ks) = Ok(Cardinality(A \cap B))
  BY <1>9, Replies DEF sintercard
<1> QED
  BY <1>1, <1>5, <1>8, <1>10, <1>11

\* SUNIONSTORE, SINTERSTORE and SDIFFSTORE of two keys.
LEMMA TwoSources ==
    ASSUME NEW d, NEW dest, NEW k, NEW l, k # dest, l # dest,
           NEW A, NEW B, A = ContentOf(d, k, "set"), B = ContentOf(d, l, "set")
    PROVE  /\ sunionstore(d, dest, <<k, l>>) = SetStore(d, dest, k, l, A \cup B)
           /\ sinterstore(d, dest, <<k, l>>) = SetStore(d, dest, k, l, A \cap B)
           /\ sdiffstore(d, dest, <<k, l>>) = SetStore(d, dest, k, l, A \ B)
<1>1. PICK ks : ks = <<k, l>>
  OBVIOUS
<1>2. DOMAIN ks = {1, 2} /\ Len(ks) = 2 /\ ks[1] = k /\ ks[2] = l
  BY <1>1
<1>3. PICK c : c = del(d, dest)
  OBVIOUS
<1>4. /\ ContentOf(c, k, "set") = A /\ ContentOf(c, l, "set") = B
      /\ FreeFor(c, k, "set") <=> FreeFor(d, k, "set")
      /\ FreeFor(c, l, "set") <=> FreeFor(d, l, "set")
  BY <1>3, DroppedContent
<1>5. (\E i \in DOMAIN ks : ~FreeFor(c, ks[i], "set")) <=> Refused(d, k, l)
  BY <1>2, <1>4 DEF Refused
<1>6. PICK ss : ss = [i \in DOMAIN ks |-> ContentOf(c, ks[i], "set")]
  OBVIOUS
<1>7. DOMAIN ss = {1, 2} /\ ss[1] = A /\ ss[2] = B
  BY <1>2, <1>4, <1>6
<1>8. Range(ss) = {A, B}
  BY <1>7 DEF Range
<1>9. Range(Tail(ss)) = {B}
  <2>1. ss = <<A, B>>
    <3>1. 1 .. 2 = {1, 2}
      OBVIOUS
    <3>2. ss = [i \in 1 .. 2 |-> ss[i]]
      BY <1>2, <1>6, <3>1
    <3>3. PICK w : w = <<A, B>>
      OBVIOUS
    <3>4. w = [i \in 1 .. 2 |-> w[i]] /\ w[1] = A /\ w[2] = B
      BY <3>3
    <3> QED
      BY <1>7, <3>1, <3>2, <3>3, <3>4
  <2>2. Tail(ss) = <<B>>
    BY <2>1
  <2>3. PICK w : w = <<B>>
    OBVIOUS
  <2>4. DOMAIN w = {1} /\ w[1] = B
    BY <2>3
  <2> QED
    BY <2>2, <2>3, <2>4 DEF Range
<1>10. /\ UNION Range(ss) = A \cup B
       /\ {m \in ss[1] : \A i \in DOMAIN ss : m \in ss[i]} = A \cap B
       /\ ss[1] \ UNION Range(Tail(ss)) = A \ B
  BY <1>7, <1>8, <1>9
<1>11. Empty["set"] = {}
  BY DEF Empty
<1>12. sunionstore(d, dest, ks) = SetStore(d, dest, k, l, A \cup B)
  <2>1. PICK r : r = UNION Range(ss) /\ r = A \cup B
    BY <1>10
  <2>2. sunionstore(d, dest, ks)
          = IF Refused(d, k, l) \/ r = {} THEN c ELSE PutKey(c, dest, Value("set", r))
    BY <1>3, <1>5, <1>6, <1>11, <2>1 DEF sunionstore, StoreInto
  <2> QED
    BY <1>3, <2>1, <2>2 DEF SetStore
<1>13. sinterstore(d, dest, ks) = SetStore(d, dest, k, l, A \cap B)
  <2>1. PICK r : r = {m \in ss[1] : \A i \in DOMAIN ss : m \in ss[i]} /\ r = A \cap B
    BY <1>10
  <2>2. sinterstore(d, dest, ks)
          = IF Refused(d, k, l) \/ r = {} THEN c ELSE PutKey(c, dest, Value("set", r))
    BY <1>3, <1>5, <1>6, <1>11, <2>1 DEF sinterstore, StoreInto
  <2> QED
    BY <1>3, <2>1, <2>2 DEF SetStore
<1>14. sdiffstore(d, dest, ks) = SetStore(d, dest, k, l, A \ B)
  <2>1. PICK r : r = ss[1] \ UNION Range(Tail(ss)) /\ r = A \ B
    BY <1>10
  <2>2. sdiffstore(d, dest, ks)
          = IF Refused(d, k, l) \/ r = {} THEN c ELSE PutKey(c, dest, Value("set", r))
    BY <1>3, <1>5, <1>6, <1>11, <2>1 DEF sdiffstore, StoreInto
  <2> QED
    BY <1>3, <2>1, <2>2 DEF SetStore
<1> QED
  BY <1>1, <1>3, <1>12, <1>13, <1>14

\* The reads and the STORE commands agree on every set that a sequence of
\* commands can store.
THEOREM StorageStoresMatchReads == Spec => []StoresMatchReads
<1>1. MapOK(map) => StoresMatchReads
  <2> SUFFICES ASSUME MapOK(map), NEW db \in Dbs, NEW dest \in Keys,
                      NEW k \in Keys \ {dest}, NEW l \in Keys \ {dest}
               PROVE  LET d == map[db]
                          Stored(e) == IF dest \in DOMAIN e THEN Ok(Ascending(e[dest].set)) ELSE Ok(<<>>)
                          Returned(reply) == IF reply = WrongType THEN Ok(<<>>) ELSE reply
                      IN /\ Stored(sunionstore(d, dest, <<k, l>>)) = Returned(sunion(d, <<k, l>>))
                         /\ Stored(sinterstore(d, dest, <<k, l>>)) = Returned(sinter(d, <<k, l>>))
                         /\ Stored(sdiffstore(d, dest, <<k, l>>)) = Returned(sdiff(d, <<k, l>>))
                         /\ sinter(d, <<k, l>>) # WrongType =>
                               sintercard(d, <<k, l>>) = Ok(Len(sinter(d, <<k, l>>)[2]))
    BY DEF StoresMatchReads
  <2>1. PICK d : d = map[db] /\ GoodDb(d)
    BY DEF MapOK
  <2>2. PICK A, B : A = ContentOf(d, k, "set") /\ B = ContentOf(d, l, "set") /\ Members(A) /\ Members(B)
    BY <2>1, ContentGood
  <2>4. PICK ks : ks = <<k, l>>
    OBVIOUS
  <2>5. PICK u, i, f : u = sunionstore(d, dest, ks) /\ i = sinterstore(d, dest, ks) /\ f = sdiffstore(d, dest, ks)
    OBVIOUS
  <2>6. k # dest /\ l # dest
    OBVIOUS
  <2>7. /\ u = SetStore(d, dest, k, l, A \cup B)
        /\ i = SetStore(d, dest, k, l, A \cap B)
        /\ f = SetStore(d, dest, k, l, A \ B)
    BY <2>2, <2>4, <2>5, <2>6, TwoSources
  <2>8. /\ StoredAt(u, dest) = IF Refused(d, k, l) THEN Ok(<<>>) ELSE Ok(Ascending(A \cup B))
        /\ StoredAt(i, dest) = IF Refused(d, k, l) THEN Ok(<<>>) ELSE Ok(Ascending(A \cap B))
        /\ StoredAt(f, dest) = IF Refused(d, k, l) THEN Ok(<<>>) ELSE Ok(Ascending(A \ B))
    BY <2>7, StoredSet
  <2>11. /\ sunion(d, ks) = IF Refused(d, k, l) THEN WrongType ELSE Ok(Ascending(A \cup B))
         /\ sdiff(d, ks) = IF Refused(d, k, l) THEN WrongType ELSE Ok(Ascending(A \ B))
         /\ sinter(d, ks) = IF Refused(d, k, l) THEN WrongType ELSE Ok(Ascending(A \cap B))
         /\ ~Refused(d, k, l) => sintercard(d, ks) = Ok(Cardinality(A \cap B))
    BY <2>2, <2>4, TwoReads
  <2>13. Len(Ascending(A \cap B)) = Cardinality(A \cap B)
    <3>1. Members(A \cap B)
      BY <2>2, PartGood
    <3> QED
      BY <3>1, MembersSort
  <2>14. /\ StoredAt(u, dest) = IF sunion(d, ks) = WrongType THEN Ok(<<>>) ELSE sunion(d, ks)
         /\ StoredAt(i, dest) = IF sinter(d, ks) = WrongType THEN Ok(<<>>) ELSE sinter(d, ks)
         /\ StoredAt(f, dest) = IF sdiff(d, ks) = WrongType THEN Ok(<<>>) ELSE sdiff(d, ks)
    BY <2>8, <2>11, Replies
  <2>15. sinter(d, ks) # WrongType => sintercard(d, ks) = Ok(Len(sinter(d, ks)[2]))
    BY <2>11, <2>13, Replies
  <2> QED
    BY <2>1, <2>4, <2>5, <2>14, <2>15 DEF StoredAt
<1> QED
  BY <1>1, StorageInductive, PTL

-----------------------------------------------------------------------------
(* Parts of a list, and the sizes that are read. *)

\* A part of a sequence.
LEMMA PartFacts ==
    ASSUME NEW S, NEW l \in Seq(S), NEW i \in Int, NEW j \in Int, 1 <= i, i <= j + 1, j <= Len(l)
    PROVE  /\ SubSeq(l, i, j) \in Seq(S)
           /\ Len(SubSeq(l, i, j)) = j - i + 1 /\ DOMAIN SubSeq(l, i, j) = 1 .. j - i + 1
           /\ \A k \in 1 .. j - i + 1 : SubSeq(l, i, j)[k] = l[k + i - 1]
<1>1. \A k \in i .. j : l[k] \in S
  OBVIOUS
<1>2. PICK u : u = SubSeq(l, i, j)
  OBVIOUS
<1>3. /\ u \in Seq(S)
      /\ Len(u) = IF i <= j THEN j - i + 1 ELSE 0
      /\ \A k \in 1 .. j - i + 1 : u[k] = l[i + k - 1]
  BY <1>1, <1>2, SubSeqProperties
<1>4. Len(u) = j - i + 1 /\ DOMAIN u = 1 .. j - i + 1
  BY <1>3
<1>5. \A k \in 1 .. j - i + 1 : i + k - 1 = k + i - 1
  OBVIOUS
<1> QED
  BY <1>2, <1>3, <1>4, <1>5

\* The whole and one element.
LEMMA WholeAndOne ==
    ASSUME NEW S, NEW l \in Seq(S)
    PROVE  /\ SubSeq(l, 1, Len(l)) = l
           /\ \A i \in DOMAIN l : SubSeq(l, i, i) = <<l[i]>>
<1>1. PICK n \in Nat : n = Len(l) /\ DOMAIN l = 1 .. n
  OBVIOUS
<1>2. PICK u : u = SubSeq(l, 1, n)
  OBVIOUS
<1>3. u \in Seq(S) /\ Len(u) = n /\ \A k \in 1 .. n : u[k] = l[k]
  <2>1. /\ u \in Seq(S) /\ Len(u) = n - 1 + 1
        /\ \A k \in 1 .. n - 1 + 1 : u[k] = l[k + 1 - 1]
    BY <1>1, <1>2, PartFacts
  <2> QED
    BY <2>1
<1>4. u = l
  BY <1>1, <1>3, SeqEqual
<1>5. ASSUME NEW i \in 1 .. n PROVE SubSeq(l, i, i) = <<l[i]>>
  <2>1. PICK w : w = SubSeq(l, i, i)
    OBVIOUS
  <2>2. /\ w \in Seq(S) /\ Len(w) = i - i + 1
        /\ \A k \in 1 .. i - i + 1 : w[k] = l[k + i - 1]
    BY <1>1, <2>1, PartFacts
  <2>3. Len(w) = 1 /\ w[1] = l[i]
    <3>1. i - i + 1 = 1 /\ 1 + i - 1 = i /\ 1 \in 1 .. 1
      OBVIOUS
    <3> QED
      BY <2>2, <3>1
  <2>4. PICK x \in S : x = l[i]
    BY <1>1
  <2>5. PICK v : v = <<x>>
    OBVIOUS
  <2>6. v \in Seq(S) /\ Len(v) = 1 /\ v[1] = x
    BY <2>5
  <2>7. \A k \in 1 .. 1 : w[k] = v[k]
    BY <2>3, <2>4, <2>6
  <2>8. w = v
    BY <2>2, <2>3, <2>6, <2>7, SeqEqual
  <2> QED
    BY <2>1, <2>4, <2>5, <2>8
<1> QED
  BY <1>1, <1>2, <1>4, <1>5

\* Taking as many as there are.
LEMMA TakeAll ==
    ASSUME NEW S, NEW l \in Seq(S)
    PROVE  TakeFront(l, Len(l)) = l
<1>1. Min({Len(l), Len(l)}) = Len(l)
  BY Extremes
<1> QED
  BY <1>1, WholeAndOne DEF TakeFront

\* What a sorted sequence lists.
LEMMA SortedRange ==
    ASSUME NEW l, NEW S, Sorts(l, S)
    PROVE  Range(l) = S
<1>1. \A i \in DOMAIN l : l[i] \in S
  BY DEF Sorts
<1>2. \A x \in S : \E i \in DOMAIN l : l[i] = x
  BY DEF Sorts
<1> QED
  BY <1>1, <1>2 DEF Range

\* A range of all positions, of one position, of one counted from the end.
LEMMA TrimRanges ==
    ASSUME NEW S, NEW l \in Seq(S), NEW n \in Nat, n = Len(l), n > 0
    PROVE  /\ Trim(l, 0, -1) = l
           /\ \A i \in 1 .. n : /\ Trim(l, i - 1, i - 1) = <<l[i]>>
                                /\ Trim(l, i - 1 - n, i - 1 - n) = <<l[i]>>
<1>1. l # <<>> /\ DOMAIN l = 1 .. n
  OBVIOUS
<1>2. ASSUME NEW i \in 0 .. n - 1
      PROVE  Clamp(n, i) = i /\ Clamp(n, i - n) = i
  <2>1. Min({i, n - 1}) = i
    BY Extremes
  <2>2. Max({i, 0}) = i
    <3>1. PICK zero \in Int, j \in Int : zero = 0 /\ j = i
      OBVIOUS
    <3>2. Max({j, zero}) = IF j <= zero THEN zero ELSE j
      BY Extremes
    <3> QED
      BY <3>1, <3>2
  <2>3. ~(i < 0) /\ i - n < 0 /\ n + (i - n) = i
    OBVIOUS
  <2> QED
    BY <2>1, <2>2, <2>3 DEF Clamp
<1>3. Clamp(n, 0) = 0 /\ Clamp(n, -1) = n - 1
  <2>1. 0 \in 0 .. n - 1 /\ n - 1 \in 0 .. n - 1 /\ (n - 1) - n = -1
    OBVIOUS
  <2> QED
    BY <1>2, <2>1
<1>4. Trim(l, 0, -1) = l
  <2>1. 0 + 1 = 1 /\ (n - 1) + 1 = n /\ ~(0 > n - 1)
    OBVIOUS
  <2>2. Trim(l, 0, -1) = SubSeq(l, 0 + 1, (n - 1) + 1)
    BY <1>1, <1>3, <2>1 DEF Trim
  <2> QED
    BY <2>1, <2>2, WholeAndOne
<1>5. ASSUME NEW i \in 1 .. n
      PROVE  Trim(l, i - 1, i - 1) = <<l[i]>> /\ Trim(l, i - 1 - n, i - 1 - n) = <<l[i]>>
  <2>1. PICK k \in 0 .. n - 1 : k = i - 1 /\ k + 1 = i
    <3>1. i - 1 \in 0 .. n - 1 /\ (i - 1) + 1 = i
      OBVIOUS
    <3> QED
      BY <3>1
  <2>2. Clamp(n, k) = k /\ Clamp(n, k - n) = k /\ ~(k > k)
    BY <1>2
  <2>3. Trim(l, k, k) = SubSeq(l, k + 1, k + 1) /\ Trim(l, k - n, k - n) = SubSeq(l, k + 1, k + 1)
    BY <1>1, <2>2 DEF Trim
  <2> QED
    BY <1>1, <2>1, <2>3, WholeAndOne
<1> QED
  BY <1>4, <1>5

\* Members and fields are numbers.
LEMMA MembersInt ==
    ASSUME NEW s, Members(s)
    PROVE  s \subseteq Int /\ IsFiniteSet(s)
  BY StorageAssumption DEF Members

\* FIRST of everything.
LEMMA FirstOfAll ==
    ASSUME NEW s, s \subseteq Int, IsFiniteSet(s)
    PROVE  FirstOf(s, Cardinality(s)) = Ascending(s)
<1>1. Ascending(s) \in Seq(s) /\ Len(Ascending(s)) = Cardinality(s)
  BY AscendingSorts
<1> QED
  BY <1>1, TakeAll DEF FirstOf

\* A hash that is not empty has a field, a sorted set a member.
LEMMA FieldsNotEmpty ==
    /\ \A h : Fields(h) /\ h # <<>> => Members(DOMAIN h) /\ DOMAIN h # {}
    /\ \A z : Agree(z) /\ z # EmptyZSet => Members(DOMAIN z.entries) /\ DOMAIN z.entries # {}
<1>1. ASSUME NEW h, Fields(h), DOMAIN h = {} PROVE h = <<>>
  BY <1>1 DEF Fields
<1>2. ASSUME NEW z, Agree(z), DOMAIN z.entries = {} PROVE z = EmptyZSet
  <2>1. z.entries = <<>>
    BY <1>1, <1>2 DEF Agree, Scores
  <2>2. z.index = {}
    BY <1>2 DEF Agree
  <2> QED
    BY <1>2, <2>1, <2>2 DEF Agree, EmptyZSet
<1>3. \A z : Agree(z) => Members(DOMAIN z.entries)
  BY DEF Agree, Scores, Fields
<1> QED
  BY <1>1, <1>2, <1>3 DEF Fields

\* GET and the size reads as they are dispatched.
LEMMA SizeReads ==
    ASSUME NEW d, NEW key
    PROVE  /\ dispatch_read_command(d, [op |-> "get", key |-> key]) = get(d, key)
           /\ dispatch_read_command(d, [op |-> "llen", key |-> key]) = llen(d, key)
           /\ dispatch_read_command(d, [op |-> "scard", key |-> key]) = scard(d, key)
           /\ dispatch_read_command(d, [op |-> "hlen", key |-> key]) = hlen(d, key)
           /\ dispatch_read_command(d, [op |-> "zcard", key |-> key]) = zcard(d, key)
<1> USE DEF dispatch_read_command, KeyReads, SetReads, SetScans, SetAlgebra, ListReads, FieldReads,
            HashReads, HashScans, ZSetReads, ZRankReads, ZScans
<1>1. dispatch_read_command(d, [op |-> "get", key |-> key]) = get(d, key)
  BY DEF KeyReadHandler
<1>2. dispatch_read_command(d, [op |-> "llen", key |-> key]) = llen(d, key)
  BY DEF ListReadHandler
<1>3. dispatch_read_command(d, [op |-> "scard", key |-> key]) = scard(d, key)
  BY DEF SetReadHandler
<1>4. dispatch_read_command(d, [op |-> "hlen", key |-> key]) = hlen(d, key)
  BY DEF HashReadHandler
<1>5. dispatch_read_command(d, [op |-> "zcard", key |-> key]) = zcard(d, key)
  BY DEF ZSetReadHandler
<1> QED
  BY <1>1, <1>2, <1>3, <1>4, <1>5

\* What they answer.
LEMMA SizeAnswers ==
    ASSUME NEW d, GoodDb(d), NEW key
    PROVE  /\ key \notin DOMAIN d => /\ get(d, key) = Ok(<<>>) /\ llen(d, key) = Ok(0)
                                     /\ scard(d, key) = Ok(0) /\ hlen(d, key) = Ok(0)
                                     /\ zcard(d, key) = Ok(0)
           /\ get(d, key) # WrongType <=> FreeFor(d, key, "str")
           /\ llen(d, key) # WrongType <=> FreeFor(d, key, "list")
           /\ scard(d, key) # WrongType <=> FreeFor(d, key, "set")
           /\ hlen(d, key) # WrongType <=> FreeFor(d, key, "hash")
           /\ zcard(d, key) # WrongType <=> FreeFor(d, key, "zset")
           /\ Holds(d, key, "str") => get(d, key)[2] # <<>>
           /\ Holds(d, key, "list") => llen(d, key)[2] > 0
           /\ Holds(d, key, "set") => scard(d, key)[2] > 0
           /\ Holds(d, key, "hash") => hlen(d, key)[2] > 0
           /\ Holds(d, key, "zset") => zcard(d, key)[2] > 0
<1>1. /\ get(d, key) = IF FreeFor(d, key, "str") THEN Ok(IF key \in DOMAIN d THEN <<d[key].str>> ELSE <<>>)
                       ELSE WrongType
      /\ llen(d, key) = IF FreeFor(d, key, "list") THEN Ok(Len(ContentOf(d, key, "list"))) ELSE WrongType
      /\ scard(d, key) = IF FreeFor(d, key, "set") THEN Ok(Cardinality(ContentOf(d, key, "set"))) ELSE WrongType
      /\ hlen(d, key) = IF FreeFor(d, key, "hash") THEN Ok(Cardinality(DOMAIN ContentOf(d, key, "hash")))
                        ELSE WrongType
      /\ zcard(d, key) = IF FreeFor(d, key, "zset")
                         THEN Ok(Cardinality(DOMAIN ContentOf(d, key, "zset").entries)) ELSE WrongType
  BY DEF get, llen, scard, hlen, zcard, Reply
<1>2. ASSUME key \notin DOMAIN d
      PROVE  /\ get(d, key) = Ok(<<>>) /\ llen(d, key) = Ok(0)
             /\ scard(d, key) = Ok(0) /\ hlen(d, key) = Ok(0) /\ zcard(d, key) = Ok(0)
  <2>1. /\ FreeFor(d, key, "str") /\ FreeFor(d, key, "list") /\ FreeFor(d, key, "set")
        /\ FreeFor(d, key, "hash") /\ FreeFor(d, key, "zset")
    BY <1>2 DEF FreeFor
  <2>2. /\ ContentOf(d, key, "list") = <<>> /\ ContentOf(d, key, "set") = {}
        /\ ContentOf(d, key, "hash") = <<>> /\ ContentOf(d, key, "zset") = EmptyZSet
    BY <1>2 DEF ContentOf, Holds, Empty
  <2>3. DOMAIN EmptyZSet.entries = {} /\ DOMAIN <<>> = {} /\ Len(<<>>) = 0
    BY DEF EmptyZSet
  <2> QED
    BY <1>1, <1>2, <2>1, <2>2, <2>3, FS_EmptySet
<1>3. \A s : Members(s) /\ s # {} => Cardinality(s) \in Nat /\ Cardinality(s) > 0
  <2>1. \A s : Members(s) /\ s # {} => Cardinality(s) \in Nat /\ Cardinality(s) # 0
    BY FS_CardinalityType, FS_EmptySet DEF Members
  <2> QED
    BY <2>1
<1>4. \A kind : Holds(d, key, kind) => FreeFor(d, key, kind) /\ ContentOf(d, key, kind) = d[key][kind] /\ key \in DOMAIN d
  BY DEF Holds, FreeFor, ContentOf
<1>5. Holds(d, key, "str") => get(d, key)[2] # <<>>
  BY <1>1, <1>4, Replies
<1>6. Holds(d, key, "list") => llen(d, key)[2] > 0
  <2>1. Holds(d, key, "list") => llen(d, key) = Ok(Len(d[key]["list"]))
    BY <1>1, <1>4
  <2>2. Holds(d, key, "list") => Len(d[key]["list"]) > 0
    BY HeldGood
  <2> QED
    BY <2>1, <2>2, Replies
<1>7. Holds(d, key, "set") => scard(d, key)[2] > 0
  <2>1. Holds(d, key, "set") => scard(d, key) = Ok(Cardinality(d[key]["set"]))
    BY <1>1, <1>4
  <2>2. Holds(d, key, "set") => Cardinality(d[key]["set"]) > 0
    BY <1>3, HeldGood
  <2> QED
    BY <2>1, <2>2, Replies
<1>8. Holds(d, key, "hash") => hlen(d, key)[2] > 0
  <2>1. Holds(d, key, "hash") => hlen(d, key) = Ok(Cardinality(DOMAIN d[key]["hash"]))
    BY <1>1, <1>4
  <2>2. Holds(d, key, "hash") => Cardinality(DOMAIN d[key]["hash"]) > 0
    BY <1>3, HeldGood, FieldsNotEmpty
  <2> QED
    BY <2>1, <2>2, Replies
<1>9. Holds(d, key, "zset") => zcard(d, key)[2] > 0
  <2>1. Holds(d, key, "zset") => zcard(d, key) = Ok(Cardinality(DOMAIN d[key]["zset"].entries))
    BY <1>1, <1>4
  <2>2. Holds(d, key, "zset") => Cardinality(DOMAIN d[key]["zset"].entries) > 0
    BY <1>3, HeldGood, FieldsNotEmpty
  <2> QED
    BY <2>1, <2>2, Replies
<1> QED
  BY <1>1, <1>2, <1>5, <1>6, <1>7, <1>8, <1>9, Replies

-----------------------------------------------------------------------------
(* Reads of the keys, of a set and of a hash. *)

\* Every key has one type, and the reads of the other types are refused.
LEMMA OneType ==
    ASSUME MapOK(map), NEW db \in Dbs, NEW key
    PROVE  KeysHaveOneType(db, key)
<1>1. PICK d : d = map[db] /\ GoodDb(d) /\ DOMAIN d \subseteq Int /\ IsFiniteSet(DOMAIN d)
  BY StorageAssumption DEF MapOK, GoodDb
<1>2. PICK ops : ops = <<"get", "llen", "scard", "hlen", "zcard">>
  OBVIOUS
<1>3. /\ DOMAIN ops = 1 .. 5 /\ ops[1] = "get" /\ ops[2] = "llen" /\ ops[3] = "scard"
      /\ ops[4] = "hlen" /\ ops[5] = "zcard"
  BY <1>2
<1>4. PICK replies :
         replies = read_tx_commands(map, db, [i \in DOMAIN ops |-> [op |-> ops[i], key |-> key]])
  OBVIOUS
<1>5. \A i \in 1 .. 5 : replies[i] = dispatch_read_command(d, [op |-> ops[i], key |-> key])
  BY <1>1, <1>3, <1>4 DEF read_tx_commands
<1>6. 1 .. 5 = {1, 2, 3, 4, 5}
  OBVIOUS
<1>7. /\ replies[1] = get(d, key) /\ replies[2] = llen(d, key) /\ replies[3] = scard(d, key)
      /\ replies[4] = hlen(d, key) /\ replies[5] = zcard(d, key)
  BY <1>3, <1>5, <1>6, SizeReads
<1>8. PICK answered : answered = {i \in DOMAIN ops : replies[i] # WrongType}
  OBVIOUS
<1>9. Range(first(map[db], Cardinality(DOMAIN map[db]))[2]) = DOMAIN d
  <2>1. first(d, Cardinality(DOMAIN d))[2] = Ascending(DOMAIN d)
    BY <1>1, FirstOfAll, Replies DEF first
  <2>2. Sorts(Ascending(DOMAIN d), DOMAIN d)
    BY <1>1, AscendingSorts
  <2> QED
    BY <1>1, <2>1, <2>2, SortedRange
<1>10. ASSUME key \notin DOMAIN d
       PROVE  /\ answered = DOMAIN ops
              /\ \A i \in DOMAIN ops : replies[i] = Ok(IF i = 1 THEN <<>> ELSE 0)
  <2>1. /\ replies[1] = Ok(<<>>) /\ replies[2] = Ok(0) /\ replies[3] = Ok(0)
        /\ replies[4] = Ok(0) /\ replies[5] = Ok(0)
    BY <1>1, <1>7, <1>10, SizeAnswers
  <2>2. \A i \in {1, 2, 3, 4, 5} : replies[i] = Ok(IF i = 1 THEN <<>> ELSE 0)
    BY <2>1
  <2>3. \A i \in {1, 2, 3, 4, 5} : replies[i] # WrongType
    BY <2>2, Replies
  <2> QED
    BY <1>3, <1>6, <1>8, <2>2, <2>3
<1>11. ASSUME key \in DOMAIN d
       PROVE  \E i \in DOMAIN ops :
                 answered = {i} /\ IF i = 1 THEN replies[i][2] # <<>> ELSE replies[i][2] > 0
  <2>1. PICK kind \in Kinds : DOMAIN d[key] = {kind}
    BY <1>1, <1>11 DEF GoodDb, GoodValue
  <2>2. Holds(d, key, kind) /\ \A k : FreeFor(d, key, k) <=> k = kind
    BY <1>11, <2>1 DEF Holds, FreeFor
  <2>3. /\ 1 \in answered <=> kind = "str"
        /\ 2 \in answered <=> kind = "list"
        /\ 3 \in answered <=> kind = "set"
        /\ 4 \in answered <=> kind = "hash"
        /\ 5 \in answered <=> kind = "zset"
    BY <1>1, <1>3, <1>6, <1>7, <1>8, <2>2, SizeAnswers
  <2>4. answered \subseteq {1, 2, 3, 4, 5}
    BY <1>3, <1>6, <1>8
  <2>5. CASE kind = "str"
    <3>1. answered = {1} /\ replies[1][2] # <<>>
      BY <1>1, <1>7, <2>2, <2>3, <2>4, <2>5, SizeAnswers
    <3> QED
      BY <1>3, <1>6, <3>1
  <2>6. CASE kind = "list"
    <3>1. answered = {2} /\ replies[2][2] > 0
      BY <1>1, <1>7, <2>2, <2>3, <2>4, <2>6, SizeAnswers
    <3> QED
      BY <1>3, <1>6, <3>1
  <2>7. CASE kind = "set"
    <3>1. answered = {3} /\ replies[3][2] > 0
      BY <1>1, <1>7, <2>2, <2>3, <2>4, <2>7, SizeAnswers
    <3> QED
      BY <1>3, <1>6, <3>1
  <2>8. CASE kind = "hash"
    <3>1. answered = {4} /\ replies[4][2] > 0
      BY <1>1, <1>7, <2>2, <2>3, <2>4, <2>8, SizeAnswers
    <3> QED
      BY <1>3, <1>6, <3>1
  <2>9. CASE kind = "zset"
    <3>1. answered = {5} /\ replies[5][2] > 0
      BY <1>1, <1>7, <2>2, <2>3, <2>4, <2>9, SizeAnswers
    <3> QED
      BY <1>3, <1>6, <3>1
  <2> QED
    BY <2>5, <2>6, <2>7, <2>8, <2>9 DEF Kinds
<1> QED
  BY <1>2, <1>4, <1>8, <1>9, <1>10, <1>11 DEF KeysHaveOneType

\* The answer for several members.
Contained(s, ms) == [i \in DOMAIN ms |-> ms[i] \in s]

\* ... of several fields.
LookedUp(h, fs) == [i \in DOMAIN fs |-> Optional(h, fs[i])]

\* The values of several fields.
ValuesOf(h, fs) == [i \in DOMAIN fs |-> h[fs[i]]]

\* The answers of the reads of a set that is there.
LEMMA SetAnswers ==
    ASSUME NEW d, NEW key, Holds(d, key, "set"), NEW s, s = d[key]["set"]
    PROVE  /\ smembers(d, key) = Ok(Ascending(s))
           /\ scard(d, key) = Ok(Cardinality(s))
           /\ \A ms : smismember(d, key, ms) = Ok(Contained(s, ms))
           /\ \A m : sismember(d, key, m) = Ok(m \in s)
           /\ \A n : slast(d, key, n) = IF n = 0 THEN Ok(<<>>) ELSE Ok(LastOf(s, n))
           /\ \A n : sfirst(d, key, n) = IF n = 0 THEN Ok(<<>>) ELSE Ok(FirstOf(s, n))
<1>1. FreeFor(d, key, "set") /\ ContentOf(d, key, "set") = s
  BY DEF Holds, FreeFor, ContentOf
<1> QED
  BY <1>1 DEF smembers, scard, smismember, sismember, slast, sfirst, PageReply, Reply, Contained

\* ... of a hash.
LEMMA HashAnswers ==
    ASSUME NEW d, NEW key, Holds(d, key, "hash"), NEW h, h = d[key]["hash"]
    PROVE  /\ hkeys(d, key) = Ok(Ascending(DOMAIN h))
           /\ hlen(d, key) = Ok(Cardinality(DOMAIN h))
           /\ hvals(d, key) = Ok(ValuesOf(h, Ascending(DOMAIN h)))
           /\ hgetall(d, key) = Ok(WithValues(h, Ascending(DOMAIN h)))
           /\ \A fs : hmget(d, key, fs) = Ok(LookedUp(h, fs))
           /\ \A n : hfirst(d, key, n) = IF n = 0 THEN Ok(<<>>) ELSE Ok(WithValues(h, FirstOf(DOMAIN h, n)))
           /\ \A f : hexists(d, key, f) = Ok(f \in DOMAIN h)
           /\ \A f : hget(d, key, f) = Ok(Optional(h, f))
           /\ \A f : hstrlen(d, key, f) = Ok(IF f \in DOMAIN h THEN Len(h[f]) ELSE 0)
<1>1. FreeFor(d, key, "hash") /\ ContentOf(d, key, "hash") = h
  BY DEF Holds, FreeFor, ContentOf
<1> QED
  BY <1>1 DEF hkeys, hlen, hvals, hgetall, hmget, hfirst, hexists, hget, hstrlen, PageReply, Reply,
                LookedUp, ValuesOf

\* The reads of a set and of a hash agree.
LEMMA MembershipHolds ==
    ASSUME MapOK(map), NEW db \in Dbs, NEW key
    PROVE  MembershipAgrees(db, key)
<1>1. PICK d : d = map[db] /\ GoodDb(d)
  BY DEF MapOK
<1>2. ASSUME Holds(d, key, "set"), NEW members, members = smembers(d, key)[2]
      PROVE  /\ scard(d, key) = Ok(Len(members))
             /\ smismember(d, key, members) = Ok([i \in DOMAIN members |-> TRUE])
             /\ slast(d, key, Len(members)) = Ok(Reverse(members))
  <2>1. PICK s : s = d[key]["set"] /\ Members(s) /\ s # {}
    BY <1>1, <1>2, HeldGood
  <2>2. members = Ascending(s)
    BY <1>2, <2>1, SetAnswers, Replies
  <2>3. PICK n \in Nat : n = Cardinality(s) /\ n # 0
    BY <2>1, MembersSort, FS_EmptySet DEF Members
  <2>4. members \in Seq(s) /\ Len(members) = n
    BY <2>1, <2>2, <2>3, MembersSort
  <2>5. scard(d, key) = Ok(Len(members))
    BY <1>2, <2>1, <2>3, <2>4, SetAnswers
  <2>6. Contained(s, members) = [i \in DOMAIN members |-> TRUE]
    <3>1. \A i \in DOMAIN members : (members[i] \in s) = TRUE
      BY <2>4
    <3> QED
      BY <3>1 DEF Contained
  <2>7. TakeFront(Reverse(members), n) = Reverse(members)
    <3>1. Reverse(members) \in Seq(s) /\ Len(Reverse(members)) = n
      BY <2>4 DEF Reverse
    <3> QED
      BY <3>1, TakeAll
  <2>8. slast(d, key, n) = Ok(Reverse(members))
    BY <1>2, <2>1, <2>2, <2>3, <2>7, SetAnswers DEF LastOf
  <2> QED
    BY <1>2, <2>1, <2>4, <2>5, <2>6, <2>8, SetAnswers
<1>3. ASSUME Holds(d, key, "hash"), NEW fields, fields = hkeys(d, key)[2]
      PROVE  /\ hlen(d, key) = Ok(Len(fields))
             /\ hmget(d, key, fields) = Ok([i \in DOMAIN fields |-> <<hvals(d, key)[2][i]>>])
             /\ hfirst(d, key, Len(fields)) = hgetall(d, key)
             /\ \A f \in Range(fields) :
                   /\ hexists(d, key, f) = Ok(TRUE)
                   /\ hstrlen(d, key, f) = Ok(Len(hget(d, key, f)[2][1]))
  <2>1. PICK h : h = d[key]["hash"] /\ Fields(h) /\ h # <<>>
    BY <1>1, <1>3, HeldGood
  <2>2. PICK F : F = DOMAIN h /\ Members(F) /\ F # {}
    BY <2>1, FieldsNotEmpty
  <2>3. fields = Ascending(F)
    BY <1>3, <2>1, <2>2, HashAnswers, Replies
  <2>4. PICK n \in Nat : n = Cardinality(F) /\ n # 0
    BY <2>2, MembersSort, FS_EmptySet DEF Members
  <2>5. fields \in Seq(F) /\ Len(fields) = n /\ Sorts(fields, F)
    BY <2>2, <2>3, <2>4, MembersSort
  <2>6. hlen(d, key) = Ok(Len(fields))
    BY <1>3, <2>1, <2>2, <2>4, <2>5, HashAnswers
  <2>7. PICK vals : vals = ValuesOf(h, fields) /\ \A i \in DOMAIN fields : vals[i] = h[fields[i]]
    <3>1. \A i \in DOMAIN fields : ValuesOf(h, fields)[i] = h[fields[i]]
      BY DEF ValuesOf
    <3> QED
      BY <3>1
  <2>8. hvals(d, key)[2] = vals
    BY <1>3, <2>1, <2>2, <2>3, <2>7, HashAnswers, Replies
  <2>9. ASSUME NEW i \in DOMAIN fields PROVE Optional(h, fields[i]) = <<vals[i]>>
    <3>1. fields[i] \in F
      BY <2>5
    <3> QED
      BY <2>2, <2>7, <3>1 DEF Optional
  <2>10. hmget(d, key, fields) = Ok([i \in DOMAIN fields |-> <<hvals(d, key)[2][i]>>])
    <3>1. LookedUp(h, fields) = [i \in DOMAIN fields |-> <<vals[i]>>]
      BY <2>9 DEF LookedUp
    <3>2. hmget(d, key, fields) = Ok(LookedUp(h, fields))
      BY <1>3, <2>1, HashAnswers
    <3> QED
      BY <2>8, <3>1, <3>2
  <2>11. FirstOf(F, n) = fields
    <3>1. F \subseteq Int /\ IsFiniteSet(F)
      BY <2>2, MembersInt
    <3> QED
      BY <2>3, <2>4, <3>1, FirstOfAll
  <2>12. hfirst(d, key, Len(fields)) = hgetall(d, key)
    BY <1>3, <2>1, <2>2, <2>3, <2>4, <2>5, <2>11, HashAnswers
  <2>13. ASSUME NEW f \in Range(fields)
         PROVE  /\ hexists(d, key, f) = Ok(TRUE)
                /\ hstrlen(d, key, f) = Ok(Len(hget(d, key, f)[2][1]))
    <3>1. f \in F
      BY <2>5, SortedRange
    <3>2. (f \in F) = TRUE
      BY <3>1
    <3>3. hexists(d, key, f) = Ok(TRUE)
      <4>1. hexists(d, key, f) = Ok(f \in DOMAIN h)
        BY <1>3, <2>1, HashAnswers
      <4> QED
        BY <2>2, <3>2, <4>1
    <3>4. hget(d, key, f)[2] = <<h[f]>>
      <4>1. hget(d, key, f) = Ok(Optional(h, f))
        BY <1>3, <2>1, HashAnswers
      <4>2. Optional(h, f) = <<h[f]>>
        BY <2>2, <3>1 DEF Optional
      <4> QED
        BY <4>1, <4>2, Replies
    <3>5. hstrlen(d, key, f) = Ok(Len(h[f]))
      BY <1>3, <2>1, <2>2, <3>1, HashAnswers
    <3>6. <<h[f]>>[1] = h[f]
      OBVIOUS
    <3> QED
      BY <3>3, <3>4, <3>5, <3>6
  <2> QED
    BY <2>6, <2>10, <2>12, <2>13
<1> QED
  BY <1>1, <1>2, <1>3 DEF MembershipAgrees

-----------------------------------------------------------------------------
(* Reads of a sorted set. *)

\* The members of pairs of a score and a member.
MemberList(pairs) == [i \in DOMAIN pairs |-> pairs[i][2]]

\* The pairs of an index with a score in a range.
Scored(z, min, max) == {p \in z.index : min <= p[1] /\ p[1] <= max}

\* The sorted set under a key.
ZSetAt(d, key) == d[key]["zset"]

\* A sorted set that is there is what its reads are given.
LEMMA ZSetContent ==
    ASSUME NEW d, NEW key, Holds(d, key, "zset")
    PROVE  FreeFor(d, key, "zset") /\ ContentOf(d, key, "zset") = ZSetAt(d, key)
  BY DEF Holds, FreeFor, ContentOf, ZSetAt

\* What ZCARD answers for it.
LEMMA ZCardAnswer ==
    ASSUME NEW d, NEW key, Holds(d, key, "zset")
    PROVE  zcard(d, key) = Ok(Cardinality(DOMAIN ZSetAt(d, key).entries))
  BY ZSetContent DEF zcard, Reply

\* What ZSCORE, ZRANK and ZREVRANK answer for one of its members.
LEMMA ZMemberAnswers ==
    ASSUME NEW d, NEW key, NEW m, Holds(d, key, "zset"), m \in DOMAIN ZSetAt(d, key).entries
    PROVE  /\ zscore(d, key, m) = Ok(<<ZSetAt(d, key).entries[m]>>)
           /\ zrank(d, key, m) = Ok(<<RankOf(ZSetAt(d, key), ZSetAt(d, key).entries[m], m)>>)
           /\ zrevrank(d, key, m)
                = Ok(<<Cardinality(DOMAIN ZSetAt(d, key).entries) - 1
                         - RankOf(ZSetAt(d, key), ZSetAt(d, key).entries[m], m)>>)
  BY ZSetContent DEF zscore, zrank, zrevrank, Reply, Optional

\* What ZRANGE answers.
LEMMA ZRangeAnswers ==
    ASSUME NEW d, NEW key, NEW a, NEW b, Holds(d, key, "zset")
    PROVE  /\ zrange(d, key, a, b, FALSE) = Ok(MemberList(Trim(Ranked(ZSetAt(d, key)), a, b)))
           /\ zrange(d, key, a, b, TRUE) = Ok(Swapped(Trim(Ranked(ZSetAt(d, key)), a, b)))
  BY ZSetContent DEF zrange, Reply, Listed, MemberList

\* What ZRANGEBYSCORE answers.
LEMMA ZRangeByScoreAnswer ==
    ASSUME NEW d, NEW key, NEW a, NEW b, Holds(d, key, "zset")
    PROVE  zrangebyscore(d, key, a, b, FALSE) = Ok(MemberList(Ordered(Scored(ZSetAt(d, key), a, b))))
<1>1. FreeFor(d, key, "zset") /\ ContentOf(d, key, "zset") = ZSetAt(d, key)
  BY ZSetContent
<1> QED
  BY <1>1 DEF zrangebyscore, Reply, Listed, MemberList, Scored

\* What ZCOUNT answers.
LEMMA ZCountAnswer ==
    ASSUME NEW d, NEW key, NEW a, NEW b, Holds(d, key, "zset")
    PROVE  zcount(d, key, a, b) = Ok(Max({RankAbove(ZSetAt(d, key), b) - RankBelow(ZSetAt(d, key), a), 0}))
  BY ZSetContent DEF zcount, Reply

\* The length of a listing of pairs or members.
LEMMA MemberListFacts ==
    ASSUME NEW S, NEW l \in Seq(S)
    PROVE  /\ Len(MemberList(l)) = Len(l) /\ DOMAIN MemberList(l) = DOMAIN l
           /\ \A i \in DOMAIN l : MemberList(l)[i] = l[i][2]
  BY DEF MemberList

\* A page of one pair.
LEMMA OnePair ==
    ASSUME NEW s, NEW m
    PROVE  /\ Swapped(<< <<s, m>> >>) = << <<m, s>> >>
           /\ MemberList(<< <<s, m>> >>) = <<m>>
<1>1. PICK l : l = << <<s, m>> >>
  OBVIOUS
<1>2. DOMAIN l = {1} /\ l[1] = <<s, m>>
  BY <1>1
<1>3. l[1][1] = s /\ l[1][2] = m
  BY <1>2
<1>4. Swapped(l) = [i \in {1} |-> <<m, s>>]
  BY <1>2, <1>3 DEF Swapped
<1>5. MemberList(l) = [i \in {1} |-> m]
  BY <1>2, <1>3 DEF MemberList
<1>6. \A x : <<x>> = [i \in {1} |-> x]
  OBVIOUS
<1> QED
  BY <1>1, <1>4, <1>5, <1>6

\* Parts of a finite set that one counts apart.
LEMMA CountRange ==
    ASSUME NEW z, PairSet(z.index), NEW min \in Int, NEW max \in Int
    PROVE  /\ PairSet(Scored(z, min, max)) /\ Cardinality(Scored(z, min, max)) \in Nat
           /\ Max({RankAbove(z, max) - RankBelow(z, min), 0})
                = IF min <= max THEN Cardinality(Scored(z, min, max)) ELSE 0
<1>1. PICK I : I = z.index /\ IsFiniteSet(I) /\ \A p \in I : p[1] \in Int
  BY DEF PairSet
<1>2. PICK A, B, C : /\ A = {p \in I : p[1] <= max} /\ B = {p \in I : p[1] < min}
                     /\ C = {p \in I : min <= p[1] /\ p[1] <= max}
  OBVIOUS
<1>3. IsFiniteSet(A) /\ IsFiniteSet(B) /\ IsFiniteSet(C)
  BY <1>1, <1>2, FS_Subset
<1>4. PICK a \in Nat, b \in Nat, c \in Nat :
         a = Cardinality(A) /\ b = Cardinality(B) /\ c = Cardinality(C)
  BY <1>3, FS_CardinalityType
<1>5. RankAbove(z, max) = a /\ RankBelow(z, min) = b /\ Scored(z, min, max) = C
  BY <1>1, <1>2, <1>4 DEF RankAbove, RankBelow, Scored
<1>6. PairSet(C)
  BY <1>1, <1>2, <1>3 DEF PairSet
<1>7. CASE min <= max
  <2>1. B \subseteq A /\ C = A \ B /\ A \cap B = B
    BY <1>1, <1>2, <1>7
  <2>2. c = a - b
    <3>1. Cardinality(A \ B) = Cardinality(A) - Cardinality(A \cap B)
      BY <1>3, FS_Difference
    <3> QED
      BY <1>4, <2>1, <3>1
  <2>3. PICK zero \in Int, j \in Int : zero = 0 /\ j = a - b
    OBVIOUS
  <2>4. Max({j, zero}) = c
    BY <2>2, <2>3, Extremes
  <2> QED
    BY <1>4, <1>5, <1>6, <1>7, <2>3, <2>4
<1>8. CASE ~(min <= max)
  <2>1. A \subseteq B
    BY <1>1, <1>2, <1>8
  <2>2. a <= b
    BY <1>3, <1>4, <2>1, FS_Subset
  <2>3. PICK zero \in Int, j \in Int : zero = 0 /\ j = a - b
    OBVIOUS
  <2>4. Max({j, zero}) = 0
    BY <2>2, <2>3, Extremes
  <2> QED
    BY <1>4, <1>5, <1>6, <1>8, <2>3, <2>4
<1> QED
  BY <1>7, <1>8

\* The member at a rank, and the rank of a member.
LEMMA RankReads ==
    ASSUME NEW z, Agree(z), NEW m \in DOMAIN z.entries, NEW n \in Nat, n = Cardinality(DOMAIN z.entries)
    PROVE  \E rank \in 0 .. n - 1 :
              /\ RankOf(z, z.entries[m], m) = rank
              /\ Trim(Ranked(z), rank, rank) = << <<z.entries[m], m>> >>
              /\ Trim(Ranked(z), rank - n, rank - n) = << <<z.entries[m], m>> >>
<1>1. PICK I, r : I = z.index /\ r = Ranked(z) /\ r = Ordered(I)
  BY DEF Ranked
<1>2. PairSet(I) /\ Cardinality(I) = n
  BY <1>1, IndexGood
<1>3. r \in Seq(I) /\ Len(r) = n
  BY <1>1, <1>2, OrderedSorts
<1>4. PICK p : p = <<z.entries[m], m>> /\ p \in I
  <2>1. <<z.entries[m], m>> \in I
    BY <1>1 DEF Agree
  <2> QED
    BY <2>1
<1>5. Rank(I, p) \in 0 .. n - 1 /\ r[Rank(I, p) + 1] = p
  BY <1>1, <1>2, <1>4, OrderedSorts
<1>6. PICK rank \in 0 .. n - 1, i \in 1 .. n : rank = Rank(I, p) /\ i = rank + 1 /\ rank = i - 1 /\ r[i] = p /\ n > 0
  <2>1. PICK rank \in 0 .. n - 1 : rank = Rank(I, p) /\ r[rank + 1] = p
    BY <1>5
  <2>2. rank + 1 \in 1 .. n /\ rank = (rank + 1) - 1 /\ n > 0
    OBVIOUS
  <2> QED
    BY <2>1, <2>2
<1>7. RankOf(z, z.entries[m], m) = rank
  BY <1>1, <1>4, <1>6 DEF RankOf, Rank
<1>8. Trim(r, i - 1, i - 1) = <<r[i]>> /\ Trim(r, i - 1 - n, i - 1 - n) = <<r[i]>>
  BY <1>3, <1>6, TrimRanges
<1>9. Trim(r, rank, rank) = <<p>> /\ Trim(r, rank - n, rank - n) = <<p>>
  BY <1>6, <1>8
<1> QED
  BY <1>1, <1>4, <1>7, <1>9

\* The reads of a sorted set agree.
LEMMA RanksHold ==
    ASSUME MapOK(map), NEW db \in Dbs, NEW key
    PROVE  RanksAgree(db, key)
<1>1. PICK d : d = map[db] /\ GoodDb(d)
  BY DEF MapOK
<1> SUFFICES ASSUME Holds(d, key, "zset")
             PROVE  /\ Len(zrange(d, key, 0, -1, FALSE)[2]) = zcard(d, key)[2]
                    /\ \A m \in Range(zrange(d, key, 0, -1, FALSE)[2]) :
                          LET rank == zrank(d, key, m)[2][1]
                          IN /\ zrange(d, key, rank, rank, TRUE)
                                  = Ok(<< <<m, zscore(d, key, m)[2][1]>> >>)
                             /\ zrevrank(d, key, m) = Ok(<<zcard(d, key)[2] - 1 - rank>>)
                             /\ zrange(d, key, rank - zcard(d, key)[2], rank - zcard(d, key)[2], FALSE)
                                  = Ok(<<m>>)
                    /\ \A min, max \in -1 .. MaxScore + 1 :
                          zcount(d, key, min, max)
                            = Ok(IF min <= max THEN Len(zrangebyscore(d, key, min, max, FALSE)[2]) ELSE 0)
  BY <1>1 DEF RanksAgree
<1>2. PICK z : z = ZSetAt(d, key) /\ Agree(z) /\ z # EmptyZSet
  BY <1>1, HeldGood DEF ZSetAt
<1>3. PICK M : M = DOMAIN z.entries /\ Members(M) /\ M # {}
  BY <1>2, FieldsNotEmpty
<1>4. PICK n \in Nat : n = Cardinality(M) /\ n # 0
  BY <1>3, MembersSort, FS_EmptySet DEF Members
<1>5. zcard(d, key)[2] = n
  <2>1. zcard(d, key) = Ok(Cardinality(DOMAIN z.entries))
    BY <1>2, ZCardAnswer
  <2> QED
    BY <1>3, <1>4, <2>1, Replies
<1>6. PICK I, r : I = z.index /\ r = Ranked(z) /\ r = Ordered(I)
  BY DEF Ranked
<1>7. PairSet(I) /\ Cardinality(I) = n
  BY <1>2, <1>3, <1>4, <1>6, IndexGood
<1>8. r \in Seq(I) /\ Len(r) = n
  BY <1>6, <1>7, OrderedSorts
<1>9. zrange(d, key, 0, -1, FALSE)[2] = MemberList(r)
  <2>1. Trim(r, 0, -1) = r
    BY <1>4, <1>8, TrimRanges
  <2>2. zrange(d, key, 0, -1, FALSE) = Ok(MemberList(Trim(Ranked(z), 0, -1)))
    BY <1>2, ZRangeAnswers
  <2> QED
    BY <1>6, <2>1, <2>2, Replies
<1>10. Len(MemberList(r)) = n
  BY <1>8, MemberListFacts
<1>11. ASSUME NEW m \in Range(MemberList(r)), NEW rank, rank = zrank(d, key, m)[2][1]
       PROVE  /\ zrange(d, key, rank, rank, TRUE) = Ok(<< <<m, zscore(d, key, m)[2][1]>> >>)
              /\ zrevrank(d, key, m) = Ok(<<n - 1 - rank>>)
              /\ zrange(d, key, rank - n, rank - n, FALSE) = Ok(<<m>>)
  <2>1. m \in M
    <3>1. PICK i \in DOMAIN r : m = r[i][2]
      BY <1>8, <1>11, MemberListFacts DEF Range
    <3>2. r[i] \in I
      BY <1>8
    <3>3. I = {<<z.entries[x], x>> : x \in M}
      BY <1>2, <1>3, <1>6 DEF Agree
    <3>4. PICK x \in M : r[i] = <<z.entries[x], x>>
      BY <3>2, <3>3
    <3> QED
      BY <3>1, <3>4
  <2>2. PICK s : s = z.entries[m]
    OBVIOUS
  <2>3. PICK k \in 0 .. n - 1 :
           /\ RankOf(z, s, m) = k
           /\ Trim(Ranked(z), k, k) = << <<s, m>> >>
           /\ Trim(Ranked(z), k - n, k - n) = << <<s, m>> >>
    BY <1>2, <1>3, <1>4, <2>1, <2>2, RankReads
  <2>4. zrank(d, key, m) = Ok(<<k>>) /\ zrevrank(d, key, m) = Ok(<<n - 1 - k>>)
    <3>1. /\ zrank(d, key, m) = Ok(<<RankOf(z, z.entries[m], m)>>)
          /\ zrevrank(d, key, m) = Ok(<<Cardinality(DOMAIN z.entries) - 1 - RankOf(z, z.entries[m], m)>>)
      <4>1. Holds(d, key, "zset") /\ m \in DOMAIN ZSetAt(d, key).entries
        BY <1>2, <1>3, <2>1
      <4>2. /\ zrank(d, key, m) = Ok(<<RankOf(ZSetAt(d, key), ZSetAt(d, key).entries[m], m)>>)
            /\ zrevrank(d, key, m)
                 = Ok(<<Cardinality(DOMAIN ZSetAt(d, key).entries) - 1
                          - RankOf(ZSetAt(d, key), ZSetAt(d, key).entries[m], m)>>)
        BY <4>1, ZMemberAnswers, Zenon
      <4> QED
        BY <1>2, <4>2
    <3> QED
      BY <1>3, <1>4, <2>2, <2>3, <3>1
  <2>5. rank = k
    BY <1>11, <2>4, Replies
  <2>6. zscore(d, key, m)[2][1] = s
    <3>1. zscore(d, key, m) = Ok(<<s>>)
      BY <1>2, <1>3, <2>1, <2>2, ZMemberAnswers
    <3>2. zscore(d, key, m)[2] = <<s>>
      BY <3>1, Replies
    <3> QED
      BY <3>2
  <2>7. zrange(d, key, k, k, TRUE) = Ok(<< <<m, s>> >>)
    <3>1. zrange(d, key, k, k, TRUE) = Ok(Swapped(Trim(Ranked(z), k, k)))
      BY <1>2, ZRangeAnswers
    <3> QED
      BY <2>3, <3>1, OnePair
  <2>8. zrange(d, key, k - n, k - n, FALSE) = Ok(<<m>>)
    <3>1. PICK j : j = k - n
      OBVIOUS
    <3>2. zrange(d, key, j, j, FALSE) = Ok(MemberList(Trim(Ranked(z), j, j)))
      BY <1>2, ZRangeAnswers
    <3>3. MemberList(Trim(Ranked(z), j, j)) = <<m>>
      BY <2>3, <3>1, OnePair
    <3> QED
      BY <3>1, <3>2, <3>3
  <2> QED
    BY <2>4, <2>5, <2>6, <2>7, <2>8
<1>12. ASSUME NEW min \in -1 .. MaxScore + 1, NEW max \in -1 .. MaxScore + 1
       PROVE  zcount(d, key, min, max)
                = Ok(IF min <= max THEN Len(zrangebyscore(d, key, min, max, FALSE)[2]) ELSE 0)
  <2>1. min \in Int /\ max \in Int
    BY StorageAssumption
  <2>2. PICK C : C = Scored(z, min, max)
    OBVIOUS
  <2>3. /\ PairSet(C) /\ Cardinality(C) \in Nat
        /\ Max({RankAbove(z, max) - RankBelow(z, min), 0}) = IF min <= max THEN Cardinality(C) ELSE 0
    BY <1>6, <1>7, <2>1, <2>2, CountRange
  <2>4. zcount(d, key, min, max) = Ok(Max({RankAbove(z, max) - RankBelow(z, min), 0}))
    BY <1>2, ZCountAnswer
  <2>5. zrangebyscore(d, key, min, max, FALSE) = Ok(MemberList(Ordered(C)))
    BY <1>2, <2>2, ZRangeByScoreAnswer
  <2>6. Ordered(C) \in Seq(C) /\ Len(Ordered(C)) = Cardinality(C)
    BY <2>3, OrderedSorts
  <2>7. Len(zrangebyscore(d, key, min, max, FALSE)[2]) = Cardinality(C)
    BY <2>5, <2>6, MemberListFacts, Replies
  <2> QED
    BY <2>3, <2>4, <2>7
<1> QED
  BY <1>5, <1>9, <1>10, <1>11, <1>12

\* Reads that overlap agree in every state a sequence of commands can reach: a
\* key has one type for all of them, a set or a hash one membership, a sorted set
\* one order, whether a read consults the index, the map or both.
THEOREM StorageReadsAgree == Spec => []ReadsAgree
<1>1. MapOK(map) => ReadsAgree
  BY OneType, MembershipHolds, RanksHold DEF ReadsAgree
<1> QED
  BY <1>1, StorageInductive, PTL

-----------------------------------------------------------------------------
(* Walks that go on in another set. *)

\* The elements of S, one after the other in the order R.
Runs(l, S, R) ==
    /\ l \in Seq(S)
    /\ \A i, j \in DOMAIN l : i < j => <<l[i], l[j]>> \in R
    /\ \A x \in S : \E i \in DOMAIN l : l[i] = x

\* What lies beyond x.
Beyond(T, R, x) == {y \in T : <<x, y>> \in R}

\* The numbers that follow each other going up.
Upward == {p \in Int \X Int : p[1] < p[2]}

\* The numbers that follow each other going down.
Downward == {p \in Int \X Int : p[1] > p[2]}

\* The first k elements of l and then v.
Joined(l, k, v) == SubSeq(l, 1, k) \o v

\* It returns what S and T share, in the order R.
Passes(up, S, T, R) ==
    /\ S \cap T \subseteq Range(up)
    /\ \A i \in 1 .. Len(up) - 1 : <<up[i], up[i + 1]>> \in R

\* A walk that goes on in another set from where it stands passes everything
\* the two sets share, and never turns back.
LEMMA WalkCovers ==
    ASSUME NEW S, NEW T, NEW R, NEW l, NEW v, NEW c, c \in 1 .. Len(l),
           Runs(l, S, R), Runs(v, Beyond(T, R, l[c]), R)
    PROVE  Passes(Joined(l, c, v), S, T, R)
<1> PICK k \in Int : k = c /\ 1 <= k /\ k <= Len(l)
  <2>1. c \in Int /\ 1 <= c /\ c <= Len(l)
    BY DEF Runs
  <2> QED
    BY <2>1
<1> PICK up : up = SubSeq(l, 1, k) \o v /\ up = Joined(l, c, v)
  BY DEF Joined
<1>1. PICK n \in Nat : n = Len(l) /\ DOMAIN l = 1 .. n /\ l \in Seq(S)
  BY DEF Runs
<1>2. PICK U : U = Beyond(T, R, l[k]) /\ v \in Seq(U)
  BY DEF Runs
<1>3. PICK m \in Nat : m = Len(v) /\ DOMAIN v = 1 .. m
  BY <1>2
<1>4. PICK u : u = SubSeq(l, 1, k)
  OBVIOUS
<1>5. u \in Seq(S) /\ Len(u) = k /\ \A i \in 1 .. k : u[i] = l[i]
  <2>1. /\ u \in Seq(S) /\ Len(u) = k - 1 + 1
        /\ \A i \in 1 .. k - 1 + 1 : u[i] = l[i + 1 - 1]
    BY <1>1, <1>4, PartFacts
  <2> QED
    BY <2>1
<1>6. PICK W : W = S \cup U
  OBVIOUS
<1>7. u \in Seq(W) /\ v \in Seq(W)
  <2>1. S \subseteq W /\ U \subseteq W
    BY <1>6
  <2> QED
    BY <1>2, <1>5, <2>1
<1>8. /\ Len(up) = k + m /\ up \in Seq(W)
      /\ \A i \in 1 .. k + m : up[i] = IF i <= k THEN u[i] ELSE v[i - k]
  BY <1>3, <1>4, <1>5, <1>7, ConcatProperties
<1>9. DOMAIN up = 1 .. k + m
  BY <1>8
<1>10. \A i \in 1 .. k : i \in 1 .. k + m /\ up[i] = l[i]
  BY <1>5, <1>8
<1>11. \A i \in 1 .. m : k + i \in 1 .. k + m /\ up[k + i] = v[i]
  <2>1. ASSUME NEW i \in 1 .. m PROVE k + i \in 1 .. k + m /\ ~(k + i <= k) /\ (k + i) - k = i
    OBVIOUS
  <2> QED
    BY <1>8, <2>1
<1>12. ASSUME NEW x \in S, x \in T PROVE x \in Range(up)
  <2>1. PICK i \in 1 .. n : l[i] = x
    BY <1>1 DEF Runs
  <2>2. CASE i <= k
    <3>1. i \in DOMAIN up /\ up[i] = x
      BY <1>9, <1>10, <2>1, <2>2
    <3> QED
      BY <3>1 DEF Range
  <2>3. CASE ~(i <= k)
    <3>1. k \in DOMAIN l /\ i \in DOMAIN l /\ k < i
      BY <1>1, <2>3
    <3>2. <<l[k], x>> \in R
      BY <2>1, <3>1 DEF Runs
    <3>3. x \in Beyond(T, R, l[k])
      BY <1>12, <3>2 DEF Beyond
    <3>4. PICK j \in DOMAIN v : v[j] = x
      BY <3>3 DEF Runs
    <3>5. k + j \in DOMAIN up /\ up[k + j] = x
      BY <1>3, <1>9, <1>11, <3>4
    <3> QED
      BY <3>5 DEF Range
  <2> QED
    BY <2>2, <2>3
<1>13. ASSUME NEW i \in 1 .. k + m - 1 PROVE <<up[i], up[i + 1]>> \in R
  <2>1. CASE i < k
    <3>1. i \in 1 .. k /\ i + 1 \in 1 .. k /\ i \in 1 .. n /\ i + 1 \in 1 .. n /\ i < i + 1
      BY <1>1, <2>1
    <3>2. up[i] = l[i] /\ up[i + 1] = l[i + 1]
      BY <1>10, <3>1
    <3>3. <<l[i], l[i + 1]>> \in R
      BY <1>1, <3>1 DEF Runs
    <3> QED
      BY <3>2, <3>3
  <2>2. CASE i = k
    <3>1. k \in 1 .. k /\ 1 \in 1 .. m
      BY <2>2
    <3>2. up[i] = l[k] /\ up[i + 1] = v[1]
      BY <1>10, <1>11, <2>2, <3>1
    <3>3. v[1] \in U
      BY <1>2, <1>3, <3>1
    <3> QED
      BY <1>2, <3>2, <3>3 DEF Beyond
  <2>3. CASE i > k
    <3>1. PICK j \in 1 .. m : i = k + j /\ j + 1 \in 1 .. m /\ i + 1 = k + (j + 1) /\ j < j + 1
      <4>1. i - k \in 1 .. m /\ i = k + (i - k) /\ (i - k) + 1 \in 1 .. m
            /\ i + 1 = k + ((i - k) + 1) /\ i - k < (i - k) + 1
        BY <2>3
      <4> QED
        BY <4>1
    <3>2. up[i] = v[j] /\ up[i + 1] = v[j + 1]
      BY <1>11, <3>1
    <3>3. <<v[j], v[j + 1]>> \in R
      BY <1>3, <3>1 DEF Runs
    <3> QED
      BY <3>2, <3>3
  <2>4. i < k \/ i = k \/ i > k
    OBVIOUS
  <2> QED
    BY <2>1, <2>2, <2>3, <2>4
<1>14. S \cap T \subseteq Range(up)
  BY <1>12
<1>15. \A i \in 1 .. Len(up) - 1 : <<up[i], up[i + 1]>> \in R
  <2>1. Len(up) - 1 = k + m - 1
    BY <1>8
  <2> QED
    BY <1>13, <2>1
<1> QED
  BY <1>14, <1>15 DEF Passes

\* A sequence over a part is one over the whole.
LEMMA Widened ==
    ASSUME NEW A, NEW B, A \subseteq B, NEW l \in Seq(A)
    PROVE  l \in Seq(B)
  OBVIOUS

\* A set of numbers listed going up, and going down.
LEMMA NumbersRun ==
    ASSUME NEW S, S \subseteq Int, IsFiniteSet(S)
    PROVE  /\ Cardinality(S) \in Nat
           /\ Runs(Ascending(S), S, Upward) /\ Len(Ascending(S)) = Cardinality(S)
           /\ Runs(Reverse(Ascending(S)), S, Downward) /\ Len(Reverse(Ascending(S))) = Cardinality(S)
<1>1. PICK a : a = Ascending(S)
  OBVIOUS
<1>2. Sorts(a, S) /\ Cardinality(S) \in Nat /\ Len(a) = Cardinality(S)
  BY <1>1, AscendingSorts
<1>3. PICK n \in Nat : n = Cardinality(S) /\ n = Len(a) /\ a \in Seq(S) /\ DOMAIN a = 1 .. n
  BY <1>2 DEF Sorts
<1>4. ASSUME NEW i \in 1 .. n, NEW j \in 1 .. n, i < j
      PROVE  <<a[i], a[j]>> \in Upward /\ <<a[j], a[i]>> \in Downward
  <2>1. a[i] \in Int /\ a[j] \in Int
    <3>1. a[i] \in S /\ a[j] \in S
      BY <1>3
    <3> QED
      BY <3>1
  <2>2. a[i] < a[j]
    BY <1>2, <1>3, <1>4 DEF Sorts
  <2> QED
    BY <2>1, <2>2 DEF Upward, Downward
<1>5. Runs(a, S, Upward)
  BY <1>2, <1>3, <1>4 DEF Runs, Sorts
<1>6. PICK r : r = Reverse(a)
  OBVIOUS
<1>7. /\ r \in Seq(S) /\ Len(r) = n /\ DOMAIN r = 1 .. n
      /\ \A i \in 1 .. n : r[i] = a[(n - i) + 1]
  BY <1>3, <1>6 DEF Reverse
<1>8. ASSUME NEW i \in 1 .. n, NEW j \in 1 .. n, i < j PROVE <<r[i], r[j]>> \in Downward
  <2>1. (n - i) + 1 \in 1 .. n /\ (n - j) + 1 \in 1 .. n /\ (n - j) + 1 < (n - i) + 1
    BY <1>8
  <2> QED
    BY <1>4, <1>7, <2>1
<1>9. ASSUME NEW x \in S PROVE \E i \in DOMAIN r : r[i] = x
  <2>1. PICK i \in 1 .. n : a[i] = x
    BY <1>2, <1>3 DEF Sorts
  <2>2. PICK j \in 1 .. n : (n - j) + 1 = i
    <3>1. (n - i) + 1 \in 1 .. n /\ (n - ((n - i) + 1)) + 1 = i
      OBVIOUS
    <3> QED
      BY <3>1
  <2> QED
    BY <1>7, <2>1, <2>2
<1>10. Runs(r, S, Downward)
  BY <1>7, <1>8, <1>9 DEF Runs
<1> QED
  BY <1>1, <1>3, <1>5, <1>6, <1>7, <1>10

\* Taking from the front.
LEMMA TakeFacts ==
    ASSUME NEW S, NEW l \in Seq(S), NEW count \in Nat
    PROVE  /\ TakeFront(l, count) \in Seq(S)
           /\ l # <<>> /\ count > 0 =>
                 \E k \in 1 .. Len(l) : /\ TakeFront(l, count) = SubSeq(l, 1, k)
                                        /\ TakeFront(l, count) # <<>>
                                        /\ Last(TakeFront(l, count)) = l[k]
           /\ Len(l) <= count => TakeFront(l, count) = l
           /\ count = 0 => TakeFront(l, count) = <<>>
<1>1. PICK n \in Nat : n = Len(l)
  OBVIOUS
<1>2. PICK k \in Nat : k = Min({count, n}) /\ k <= n /\ k <= count /\ (k = n \/ k = count)
  <2>1. Min({count, n}) = IF count <= n THEN count ELSE n
    BY Extremes
  <2> QED
    BY <2>1
<1>3. PICK u : u = TakeFront(l, count) /\ u = SubSeq(l, 1, k)
  BY <1>1, <1>2 DEF TakeFront
<1>4. u \in Seq(S) /\ Len(u) = k /\ \A i \in 1 .. k : u[i] = l[i]
  <2>1. /\ u \in Seq(S) /\ Len(u) = k - 1 + 1
        /\ \A i \in 1 .. k - 1 + 1 : u[i] = l[i + 1 - 1]
    <3>1. k \in Int /\ 1 \in Int /\ 1 <= 1 /\ 1 <= k + 1 /\ k <= Len(l)
      BY <1>1, <1>2
    <3>2. /\ SubSeq(l, 1, k) \in Seq(S) /\ Len(SubSeq(l, 1, k)) = k - 1 + 1
          /\ \A i \in 1 .. k - 1 + 1 : SubSeq(l, 1, k)[i] = l[i + 1 - 1]
      BY <3>1, PartFacts
    <3> QED
      BY <1>3, <3>2
  <2> QED
    BY <2>1
<1>5. ASSUME l # <<>>, count > 0
      PROVE  k \in 1 .. n /\ u # <<>> /\ Last(u) = l[k]
  <2>1. n > 0
    BY <1>1, <1>5
  <2>2. k \in 1 .. n /\ k \in 1 .. k
    BY <1>2, <1>5, <2>1
  <2>3. u # <<>>
    BY <1>4, <2>2
  <2>4. Last(u) = l[k]
    BY <1>4, <2>2 DEF Last
  <2> QED
    BY <2>2, <2>3, <2>4
<1>6. n <= count => u = l
  <2>1. n <= count => k = n
    BY <1>2
  <2> QED
    BY <1>1, <1>3, <2>1, WholeAndOne
<1>7. count = 0 => u = <<>>
  <2>1. count = 0 => k = 0
    BY <1>2
  <2> QED
    BY <1>4, <2>1
<1> QED
  BY <1>1, <1>3, <1>4, <1>5, <1>6, <1>7

\* Everything beyond is on the page that has room for it.
LEMMA RestOfAll ==
    ASSUME NEW T, T \subseteq Int, IsFiniteSet(T), NEW x \in Int
    PROVE  /\ Runs(After(T, x, Cardinality(T)), Beyond(T, Upward, x), Upward)
           /\ Runs(Before(T, x, Cardinality(T)), Beyond(T, Downward, x), Downward)
<1>1. PICK U, D : U = {y \in T : y > x} /\ D = {y \in T : y < x}
  OBVIOUS
<1>2. Beyond(T, Upward, x) = U /\ Beyond(T, Downward, x) = D
  <2>1. \A y \in T : y \in Int
    OBVIOUS
  <2>2. \A y \in Int : (<<x, y>> \in Upward <=> y > x) /\ (<<x, y>> \in Downward <=> y < x)
    BY DEF Upward, Downward
  <2> QED
    BY <1>1, <2>1, <2>2 DEF Beyond
<1>3. /\ U \subseteq Int /\ IsFiniteSet(U) /\ Cardinality(U) <= Cardinality(T)
      /\ D \subseteq Int /\ IsFiniteSet(D) /\ Cardinality(D) <= Cardinality(T)
  <2>1. U \in SUBSET T /\ D \in SUBSET T
    BY <1>1
  <2> QED
    BY <2>1, FS_Subset
<1>4. PICK t \in Nat : t = Cardinality(T)
  BY FS_CardinalityType
<1>5. After(T, x, t) = TakeFront(Ascending(U), t) /\ Before(T, x, t) = TakeFront(Reverse(Ascending(D)), t)
  BY <1>1 DEF After, Before, FirstOf, LastOf
<1>6. PICK a : a = Ascending(U) /\ Runs(a, U, Upward) /\ Len(a) <= t
  BY <1>3, <1>4, NumbersRun
<1>7. PICK r : r = Reverse(Ascending(D)) /\ Runs(r, D, Downward) /\ Len(r) <= t
  BY <1>3, <1>4, NumbersRun
<1>8. a \in Seq(U) /\ r \in Seq(D)
  BY <1>6, <1>7 DEF Runs
<1>9. TakeFront(a, t) = a /\ TakeFront(r, t) = r
  BY <1>6, <1>7, <1>8, TakeFacts
<1> QED
  BY <1>2, <1>4, <1>5, <1>6, <1>7, <1>9

\* A first page of S and the rest of T.
PagedUp(S, T, count) ==
    LET page == FirstOf(S, count)
    IN IF page = <<>> THEN <<>> ELSE page \o After(T, Last(page), Cardinality(T))

\* ... from the end.
PagedDown(S, T, count) ==
    LET page == LastOf(S, count)
    IN IF page = <<>> THEN <<>> ELSE page \o Before(T, Last(page), Cardinality(T))

\* The two pages return what S and T share, once and in order.
LEMMA PagesCover ==
    ASSUME NEW S, S \subseteq Int, IsFiniteSet(S), NEW T, T \subseteq Int, IsFiniteSet(T),
           NEW count \in Nat, count > 0
    PROVE  /\ S \cap T \subseteq Range(PagedUp(S, T, count)) \cap Range(PagedDown(S, T, count))
           /\ \A i \in 1 .. Len(PagedUp(S, T, count)) - 1 :
                 PagedUp(S, T, count)[i] < PagedUp(S, T, count)[i + 1]
           /\ \A i \in 1 .. Len(PagedDown(S, T, count)) - 1 :
                 PagedDown(S, T, count)[i] > PagedDown(S, T, count)[i + 1]
<1>1. PICK up, down : up = PagedUp(S, T, count) /\ down = PagedDown(S, T, count)
  OBVIOUS
<1>2. PICK a, r : a = Ascending(S) /\ r = Reverse(Ascending(S))
  OBVIOUS
<1>3. PICK n \in Nat : /\ n = Cardinality(S) /\ Runs(a, S, Upward) /\ Len(a) = n
                       /\ Runs(r, S, Downward) /\ Len(r) = n
  BY <1>2, NumbersRun
<1>4. a \in Seq(S) /\ r \in Seq(S)
  BY <1>3 DEF Runs
<1>5. FirstOf(S, count) = TakeFront(a, count) /\ LastOf(S, count) = TakeFront(r, count)
  BY <1>2 DEF FirstOf, LastOf
<1>6. CASE S = {}
  <2>1. TakeFront(a, count) = <<>> /\ TakeFront(r, count) = <<>>
    <3>1. TakeFront(a, count) \in Seq({}) /\ TakeFront(r, count) \in Seq({})
      BY <1>4, <1>6, TakeFacts
    <3>2. \A l \in Seq({}) : l = <<>>
      OBVIOUS
    <3> QED
      BY <3>1, <3>2
  <2>2. up = <<>> /\ down = <<>>
    BY <1>1, <1>5, <2>1 DEF PagedUp, PagedDown
  <2>3. 1 .. Len(<<>>) - 1 = {}
    OBVIOUS
  <2> QED
    BY <1>1, <1>6, <2>2, <2>3
<1>7. CASE S # {}
  <2>1. a # <<>> /\ r # <<>>
    <3>1. PICK x \in S : TRUE
      BY <1>7
    <3>2. (\E i \in DOMAIN a : a[i] = x) /\ (\E i \in DOMAIN r : r[i] = x)
      BY <1>3 DEF Runs
    <3>3. DOMAIN <<>> = {}
      OBVIOUS
    <3> QED
      BY <3>2, <3>3
  <2>2. PICK k \in 1 .. n : /\ TakeFront(a, count) = SubSeq(a, 1, k) /\ TakeFront(a, count) # <<>>
                            /\ Last(TakeFront(a, count)) = a[k]
    BY <1>3, <1>4, <2>1, TakeFacts
  <2>3. PICK h \in 1 .. n : /\ TakeFront(r, count) = SubSeq(r, 1, h) /\ TakeFront(r, count) # <<>>
                            /\ Last(TakeFront(r, count)) = r[h]
    BY <1>3, <1>4, <2>1, TakeFacts
  <2>4. a[k] \in Int /\ r[h] \in Int
    <3>1. a[k] \in S /\ r[h] \in S
      BY <1>3, <1>4
    <3> QED
      BY <3>1
  <2>5. PICK v : v = After(T, a[k], Cardinality(T)) /\ Runs(v, Beyond(T, Upward, a[k]), Upward)
    BY <2>4, RestOfAll
  <2>6. PICK w : w = Before(T, r[h], Cardinality(T)) /\ Runs(w, Beyond(T, Downward, r[h]), Downward)
    BY <2>4, RestOfAll
  <2>7. up = SubSeq(a, 1, k) \o v
    BY <1>1, <1>5, <2>2, <2>5 DEF PagedUp
  <2>8. down = SubSeq(r, 1, h) \o w
    BY <1>1, <1>5, <2>3, <2>6 DEF PagedDown
  <2>9. S \cap T \subseteq Range(up) /\ \A i \in 1 .. Len(up) - 1 : <<up[i], up[i + 1]>> \in Upward
    <3>1. Passes(Joined(a, k, v), S, T, Upward)
      BY <1>3, <2>5, WalkCovers
    <3> QED
      BY <2>7, <3>1 DEF Joined, Passes
  <2>10. S \cap T \subseteq Range(down) /\ \A i \in 1 .. Len(down) - 1 : <<down[i], down[i + 1]>> \in Downward
    <3>1. Passes(Joined(r, h, w), S, T, Downward)
      BY <1>3, <2>6, WalkCovers
    <3> QED
      BY <2>8, <3>1 DEF Joined, Passes
  <2>11. \A x, y : (<<x, y>> \in Upward => x < y) /\ (<<x, y>> \in Downward => x > y)
    BY DEF Upward, Downward
  <2> QED
    BY <1>1, <2>9, <2>10, <2>11
<1> QED
  BY <1>6, <1>7

-----------------------------------------------------------------------------
(* The pages of the scans. *)

\* The command of a page of the keys.
KeyPage(op, x, n) == [op |-> op, key |-> x, count |-> n]

\* ... of a page of the members of a key.
MemberPage(op, key, x, n) == [op |-> op, key |-> key, member |-> x, count |-> n]

\* The scans of the keys as they are dispatched.
LEMMA KeyScansDispatch ==
    ASSUME NEW d, NEW x, NEW n
    PROVE  /\ dispatch_read_command(d, KeyPage("first", x, n)) = first(d, n)
           /\ dispatch_read_command(d, KeyPage("last", x, n)) = last(d, n)
           /\ dispatch_read_command(d, KeyPage("next", x, n)) = next(d, x, n)
           /\ dispatch_read_command(d, KeyPage("prev", x, n)) = prev(d, x, n)
<1>1. \A op : /\ KeyPage(op, x, n).op = op /\ KeyPage(op, x, n).key = x /\ KeyPage(op, x, n).count = n
  BY DEF KeyPage
<1> USE DEF dispatch_read_command, KeyReads, SetReads, SetScans, SetAlgebra, ListReads, FieldReads,
                HashReads, HashScans, ZSetReads, ZRankReads, ZScans, KeyReadHandler
<1>2. dispatch_read_command(d, KeyPage("first", x, n)) = first(d, n)
  BY <1>1
<1>3. dispatch_read_command(d, KeyPage("last", x, n)) = last(d, n)
  BY <1>1
<1>4. dispatch_read_command(d, KeyPage("next", x, n)) = next(d, x, n)
  BY <1>1
<1>5. dispatch_read_command(d, KeyPage("prev", x, n)) = prev(d, x, n)
  BY <1>1
<1> QED
  BY <1>2, <1>3, <1>4, <1>5

\* The scans of a set as they are dispatched.
LEMMA SetScansDispatch ==
    ASSUME NEW d, NEW key, NEW x, NEW n
    PROVE  /\ dispatch_read_command(d, MemberPage("sfirst", key, x, n)) = sfirst(d, key, n)
           /\ dispatch_read_command(d, MemberPage("slast", key, x, n)) = slast(d, key, n)
           /\ dispatch_read_command(d, MemberPage("snext", key, x, n)) = snext(d, key, x, n)
           /\ dispatch_read_command(d, MemberPage("sprev", key, x, n)) = sprev(d, key, x, n)
<1>1. \A op : /\ MemberPage(op, key, x, n).op = op /\ MemberPage(op, key, x, n).key = key
              /\ MemberPage(op, key, x, n).member = x /\ MemberPage(op, key, x, n).count = n
  BY DEF MemberPage
<1> USE DEF dispatch_read_command, KeyReads, SetReads, SetScans, SetAlgebra, ListReads, FieldReads,
                HashReads, HashScans, ZSetReads, ZRankReads, ZScans, SetScanHandler
<1>2. dispatch_read_command(d, MemberPage("sfirst", key, x, n)) = sfirst(d, key, n)
  BY <1>1
<1>3. dispatch_read_command(d, MemberPage("slast", key, x, n)) = slast(d, key, n)
  BY <1>1
<1>4. dispatch_read_command(d, MemberPage("snext", key, x, n)) = snext(d, key, x, n)
  BY <1>1
<1>5. dispatch_read_command(d, MemberPage("sprev", key, x, n)) = sprev(d, key, x, n)
  BY <1>1
<1> QED
  BY <1>2, <1>3, <1>4, <1>5

\* The scans of a hash as they are dispatched.
LEMMA HashScansDispatch ==
    ASSUME NEW d, NEW key, NEW x, NEW n
    PROVE  /\ dispatch_read_command(d, MemberPage("hfirst", key, x, n)) = hfirst(d, key, n)
           /\ dispatch_read_command(d, MemberPage("hlast", key, x, n)) = hlast(d, key, n)
           /\ dispatch_read_command(d, MemberPage("hnext", key, x, n)) = hnext(d, key, x, n)
           /\ dispatch_read_command(d, MemberPage("hprev", key, x, n)) = hprev(d, key, x, n)
<1>1. \A op : /\ MemberPage(op, key, x, n).op = op /\ MemberPage(op, key, x, n).key = key
              /\ MemberPage(op, key, x, n).member = x /\ MemberPage(op, key, x, n).count = n
  BY DEF MemberPage
<1> USE DEF dispatch_read_command, KeyReads, SetReads, SetScans, SetAlgebra, ListReads, FieldReads,
                HashReads, HashScans, ZSetReads, ZRankReads, ZScans, HashScanHandler
<1>2. dispatch_read_command(d, MemberPage("hfirst", key, x, n)) = hfirst(d, key, n)
  BY <1>1
<1>3. dispatch_read_command(d, MemberPage("hlast", key, x, n)) = hlast(d, key, n)
  BY <1>1
<1>4. dispatch_read_command(d, MemberPage("hnext", key, x, n)) = hnext(d, key, x, n)
  BY <1>1
<1>5. dispatch_read_command(d, MemberPage("hprev", key, x, n)) = hprev(d, key, x, n)
  BY <1>1
<1> QED
  BY <1>2, <1>3, <1>4, <1>5

\* The scans of a sorted set as they are dispatched.
LEMMA ZSetScansDispatch ==
    ASSUME NEW d, NEW key, NEW x, NEW n
    PROVE  /\ dispatch_read_command(d, MemberPage("zfirst", key, x, n)) = zfirst(d, key, n)
           /\ dispatch_read_command(d, MemberPage("zlast", key, x, n)) = zlast(d, key, n)
           /\ dispatch_read_command(d, MemberPage("znext", key, x, n)) = znext(d, key, x, n)
           /\ dispatch_read_command(d, MemberPage("zprev", key, x, n)) = zprev(d, key, x, n)
<1>1. \A op : /\ MemberPage(op, key, x, n).op = op /\ MemberPage(op, key, x, n).key = key
              /\ MemberPage(op, key, x, n).member = x /\ MemberPage(op, key, x, n).count = n
  BY DEF MemberPage
<1> USE DEF dispatch_read_command, KeyReads, SetReads, SetScans, SetAlgebra, ListReads, FieldReads,
                HashReads, HashScans, ZSetReads, ZRankReads, ZScans, ZScanHandler
<1>2. dispatch_read_command(d, MemberPage("zfirst", key, x, n)) = zfirst(d, key, n)
  BY <1>1
<1>3. dispatch_read_command(d, MemberPage("zlast", key, x, n)) = zlast(d, key, n)
  BY <1>1
<1>4. dispatch_read_command(d, MemberPage("znext", key, x, n)) = znext(d, key, x, n)
  BY <1>1
<1>5. dispatch_read_command(d, MemberPage("zprev", key, x, n)) = zprev(d, key, x, n)
  BY <1>1
<1> QED
  BY <1>2, <1>3, <1>4, <1>5

\* The page of an answer.
LEMMA KeyPageAnswer ==
    ASSUME NEW d, NEW op, op \in {"first", "last", "next", "prev"}, NEW key, NEW x, NEW n, NEW p,
           dispatch_read_command(d, KeyPage(op, x, n)) = Ok(p)
    PROVE  Page(d, op, key, x, n) = p
<1>1. op \in KeyReads
  BY DEF KeyReads
<1>2. Cursors(op, p) = p
  BY DEF Cursors, KeyReads, SetScans, HashScans, ZScans
<1> QED
  BY <1>1, <1>2, Replies DEF Page, KeyPage

\* ... and of the cursors on it.
LEMMA MemberPageAnswer ==
    ASSUME NEW d, NEW op, op \notin KeyReads, NEW key, NEW x, NEW n, NEW p,
           dispatch_read_command(d, MemberPage(op, key, x, n)) = Ok(p)
    PROVE  Page(d, op, key, x, n) = Cursors(op, p)
  BY Replies DEF Page, MemberPage

\* The cursors on a page are what was listed.
LEMMA CursorsBack ==
    ASSUME NEW S, NEW p \in Seq(S)
    PROVE  /\ \A op \in SetScans : Cursors(op, p) = p
           /\ \A op \in {"hfirst", "hlast", "hnext", "hprev"} : \A h : Cursors(op, WithValues(h, p)) = p
           /\ \A op \in ZScans : \A z : Cursors(op, ByMember(z, p)) = p
           /\ p = <<>> => \A op \in SetScans \cup HashScans \cup ZScans : Cursors(op, p) = <<>>
<1>1. p = [i \in DOMAIN p |-> p[i]]
  OBVIOUS
<1>2. \A op \in SetScans : Cursors(op, p) = p
  BY DEF Cursors, KeyReads, SetScans, HashScans, ZScans
<1>3. ASSUME NEW op \in {"hfirst", "hlast", "hnext", "hprev"}, NEW h
      PROVE  Cursors(op, WithValues(h, p)) = p
  <2>2. PICK q : q = WithValues(h, p)
    OBVIOUS
  <2>3. DOMAIN q = DOMAIN p /\ \A i \in DOMAIN p : q[i][1] = p[i]
    BY <2>2 DEF WithValues
  <2>4. Cursors(op, q) = [i \in DOMAIN q |-> q[i][1]]
    BY DEF Cursors, KeyReads, SetScans, HashScans, ZScans
  <2> QED
    BY <1>1, <2>2, <2>3, <2>4
<1>4. ASSUME NEW op \in ZScans, NEW z
      PROVE  Cursors(op, ByMember(z, p)) = p
  <2>2. PICK q : q = ByMember(z, p)
    OBVIOUS
  <2>3. DOMAIN q = DOMAIN p /\ \A i \in DOMAIN p : q[i][2] = p[i]
    BY <2>2 DEF ByMember
  <2>4. Cursors(op, q) = [i \in DOMAIN q |-> q[i][2]]
    BY DEF Cursors, KeyReads, SetScans, HashScans, ZScans
  <2> QED
    BY <1>1, <2>2, <2>3, <2>4
<1>5. ASSUME NEW op \in SetScans \cup HashScans \cup ZScans, p = <<>> PROVE Cursors(op, p) = <<>>
  <2>1. DOMAIN p = {}
    BY <1>5
  <2>2. [i \in DOMAIN p |-> p[i][1]] = <<>> /\ [i \in DOMAIN p |-> p[i][2]] = <<>>
    BY <2>1
  <2> QED
    BY <1>5, <2>2 DEF Cursors, KeyReads, SetScans, HashScans, ZScans
<1> QED
  BY <1>2, <1>3, <1>4, <1>5

\* A page is a sequence, and none when nothing is asked for.
LEMMA PagesAre ==
    ASSUME NEW S, S \subseteq Int, IsFiniteSet(S), NEW x, NEW n \in Nat
    PROVE  /\ FirstOf(S, n) \in Seq(S) /\ LastOf(S, n) \in Seq(S)
           /\ After(S, x, n) \in Seq(S) /\ Before(S, x, n) \in Seq(S)
           /\ n = 0 => /\ FirstOf(S, n) = <<>> /\ LastOf(S, n) = <<>>
                       /\ After(S, x, n) = <<>> /\ Before(S, x, n) = <<>>
<1>1. ASSUME NEW U, U \subseteq S
      PROVE  /\ FirstOf(U, n) \in Seq(S) /\ LastOf(U, n) \in Seq(S)
             /\ n = 0 => FirstOf(U, n) = <<>> /\ LastOf(U, n) = <<>>
  <2>1. U \subseteq Int /\ IsFiniteSet(U)
    BY <1>1, FS_Subset
  <2>2. PICK a, r : a = Ascending(U) /\ r = Reverse(Ascending(U)) /\ a \in Seq(U) /\ r \in Seq(U)
    BY <2>1, NumbersRun DEF Runs
  <2>3. a \in Seq(S) /\ r \in Seq(S)
    BY <1>1, <2>2, Widened
  <2>4. /\ TakeFront(a, n) \in Seq(S) /\ TakeFront(r, n) \in Seq(S)
        /\ n = 0 => TakeFront(a, n) = <<>> /\ TakeFront(r, n) = <<>>
    BY <2>3, TakeFacts
  <2> QED
    BY <2>2, <2>4 DEF FirstOf, LastOf
<1>2. {y \in S : y > x} \subseteq S /\ {y \in S : y < x} \subseteq S /\ S \subseteq S
  OBVIOUS
<1> QED
  BY <1>1, <1>2 DEF After, Before

\* The pages a scan makes of what it walks over.
PagesOf(d, scan, S) ==
    /\ \A n \in Nat : /\ Page(d, scan.first, scan.key, 0, n) = FirstOf(S, n)
                       /\ Page(d, scan.last, scan.key, 0, n) = LastOf(S, n)
    /\ \A n \in Nat : \A x :
          /\ Page(d, scan.next, scan.key, x, n) = After(S, x, n)
          /\ Page(d, scan.prev, scan.key, x, n) = Before(S, x, n)

\* The scan of the keys pages over the keys.
LEMMA KeyPages ==
    ASSUME NEW d, NEW scan, scan.first = "first", scan.last = "last", scan.next = "next", scan.prev = "prev"
    PROVE  PagesOf(d, scan, DOMAIN d)
<1>1. PICK key : key = scan.key
  OBVIOUS
<1>2. ASSUME NEW n, NEW x
      PROVE  /\ Page(d, "first", key, x, n) = FirstOf(DOMAIN d, n)
             /\ Page(d, "last", key, x, n) = LastOf(DOMAIN d, n)
             /\ Page(d, "next", key, x, n) = After(DOMAIN d, x, n)
             /\ Page(d, "prev", key, x, n) = Before(DOMAIN d, x, n)
  <2>1. /\ dispatch_read_command(d, KeyPage("first", x, n)) = Ok(FirstOf(DOMAIN d, n))
        /\ dispatch_read_command(d, KeyPage("last", x, n)) = Ok(LastOf(DOMAIN d, n))
        /\ dispatch_read_command(d, KeyPage("next", x, n)) = Ok(After(DOMAIN d, x, n))
        /\ dispatch_read_command(d, KeyPage("prev", x, n)) = Ok(Before(DOMAIN d, x, n))
    BY KeyScansDispatch DEF first, last, next, prev
  <2> QED
    BY <2>1, KeyPageAnswer
<1> QED
  BY <1>1, <1>2 DEF PagesOf

\* The scan of a set pages over its members.
LEMMA SetPages ==
    ASSUME NEW d, NEW scan, GoodDb(d), Holds(d, scan.key, "set"),
           scan.first = "sfirst", scan.last = "slast", scan.next = "snext", scan.prev = "sprev"
    PROVE  PagesOf(d, scan, d[scan.key]["set"])
<1>1. PICK key : key = scan.key
  OBVIOUS
<1>2. PICK c : c = d[key]["set"] /\ Members(c)
  BY <1>1, HeldGood
<1>3. PICK S : S = c /\ S \subseteq Int /\ IsFiniteSet(S)
  BY <1>2, FieldsNotEmpty, MembersInt
<1>4. FreeFor(d, key, "set") /\ ContentOf(d, key, "set") = c
  BY <1>1, <1>2 DEF Holds, FreeFor, ContentOf
<1>5. ASSUME NEW n \in Nat, NEW x
      PROVE  /\ sfirst(d, key, n) = Ok(IF n = 0 THEN <<>> ELSE FirstOf(S, n))
             /\ slast(d, key, n) = Ok(IF n = 0 THEN <<>> ELSE LastOf(S, n))
             /\ snext(d, key, x, n) = Ok(IF n = 0 THEN <<>> ELSE After(S, x, n))
             /\ sprev(d, key, x, n) = Ok(IF n = 0 THEN <<>> ELSE Before(S, x, n))
  BY <1>3, <1>4 DEF sfirst, slast, snext, sprev, PageReply, Reply
<1>6. /\ "sfirst" \in SetScans /\ "slast" \in SetScans /\ "snext" \in SetScans /\ "sprev" \in SetScans
      /\ "sfirst" \notin KeyReads /\ "slast" \notin KeyReads /\ "snext" \notin KeyReads
      /\ "sprev" \notin KeyReads
  BY DEF SetScans, KeyReads
<1>7. ASSUME NEW n \in Nat, NEW x
      PROVE  /\ Page(d, "sfirst", key, x, n) = FirstOf(S, n) /\ Page(d, "slast", key, x, n) = LastOf(S, n)
             /\ Page(d, "snext", key, x, n) = After(S, x, n) /\ Page(d, "sprev", key, x, n) = Before(S, x, n)
  <2>1. /\ FirstOf(S, n) \in Seq(S) /\ LastOf(S, n) \in Seq(S)
        /\ After(S, x, n) \in Seq(S) /\ Before(S, x, n) \in Seq(S)
        /\ n = 0 => /\ FirstOf(S, n) = <<>> /\ LastOf(S, n) = <<>>
                    /\ After(S, x, n) = <<>> /\ Before(S, x, n) = <<>>
    BY <1>3, PagesAre
  <2>2. <<>> \in Seq(S)
    OBVIOUS
  <2>3. Page(d, "sfirst", key, x, n) = FirstOf(S, n)
    <3>1. dispatch_read_command(d, MemberPage("sfirst", key, x, n)) = Ok(IF n = 0 THEN <<>> ELSE FirstOf(S, n))
      BY <1>5, SetScansDispatch
    <3>2. Page(d, "sfirst", key, x, n) = Cursors("sfirst", IF n = 0 THEN <<>> ELSE FirstOf(S, n))
      BY <1>6, <3>1, MemberPageAnswer
    <3>3. CASE n = 0
      <4>1. Cursors("sfirst", <<>>) = <<>>
        BY <1>6, <2>2, CursorsBack
      <4> QED
        BY <2>1, <3>2, <3>3, <4>1
    <3>4. CASE n # 0
      <4>1. Cursors("sfirst", FirstOf(S, n)) = FirstOf(S, n)
        BY <1>6, <2>1, CursorsBack
      <4> QED
        BY <3>2, <3>4, <4>1
    <3> QED
      BY <3>3, <3>4
  <2>4. Page(d, "slast", key, x, n) = LastOf(S, n)
    <3>1. dispatch_read_command(d, MemberPage("slast", key, x, n)) = Ok(IF n = 0 THEN <<>> ELSE LastOf(S, n))
      BY <1>5, SetScansDispatch
    <3>2. Page(d, "slast", key, x, n) = Cursors("slast", IF n = 0 THEN <<>> ELSE LastOf(S, n))
      BY <1>6, <3>1, MemberPageAnswer
    <3>3. CASE n = 0
      <4>1. Cursors("slast", <<>>) = <<>>
        BY <1>6, <2>2, CursorsBack
      <4> QED
        BY <2>1, <3>2, <3>3, <4>1
    <3>4. CASE n # 0
      <4>1. Cursors("slast", LastOf(S, n)) = LastOf(S, n)
        BY <1>6, <2>1, CursorsBack
      <4> QED
        BY <3>2, <3>4, <4>1
    <3> QED
      BY <3>3, <3>4
  <2>5. Page(d, "snext", key, x, n) = After(S, x, n)
    <3>1. dispatch_read_command(d, MemberPage("snext", key, x, n)) = Ok(IF n = 0 THEN <<>> ELSE After(S, x, n))
      BY <1>5, SetScansDispatch
    <3>2. Page(d, "snext", key, x, n) = Cursors("snext", IF n = 0 THEN <<>> ELSE After(S, x, n))
      BY <1>6, <3>1, MemberPageAnswer
    <3>3. CASE n = 0
      <4>1. Cursors("snext", <<>>) = <<>>
        BY <1>6, <2>2, CursorsBack
      <4> QED
        BY <2>1, <3>2, <3>3, <4>1
    <3>4. CASE n # 0
      <4>1. Cursors("snext", After(S, x, n)) = After(S, x, n)
        BY <1>6, <2>1, CursorsBack
      <4> QED
        BY <3>2, <3>4, <4>1
    <3> QED
      BY <3>3, <3>4
  <2>6. Page(d, "sprev", key, x, n) = Before(S, x, n)
    <3>1. dispatch_read_command(d, MemberPage("sprev", key, x, n)) = Ok(IF n = 0 THEN <<>> ELSE Before(S, x, n))
      BY <1>5, SetScansDispatch
    <3>2. Page(d, "sprev", key, x, n) = Cursors("sprev", IF n = 0 THEN <<>> ELSE Before(S, x, n))
      BY <1>6, <3>1, MemberPageAnswer
    <3>3. CASE n = 0
      <4>1. Cursors("sprev", <<>>) = <<>>
        BY <1>6, <2>2, CursorsBack
      <4> QED
        BY <2>1, <3>2, <3>3, <4>1
    <3>4. CASE n # 0
      <4>1. Cursors("sprev", Before(S, x, n)) = Before(S, x, n)
        BY <1>6, <2>1, CursorsBack
      <4> QED
        BY <3>2, <3>4, <4>1
    <3> QED
      BY <3>3, <3>4
  <2> QED
    BY <2>3, <2>4, <2>5, <2>6
<1> QED
  BY <1>1, <1>2, <1>3, <1>7 DEF PagesOf

\* The scan of a hash pages over its fields.
LEMMA HashPages ==
    ASSUME NEW d, NEW scan, GoodDb(d), Holds(d, scan.key, "hash"),
           scan.first = "hfirst", scan.last = "hlast", scan.next = "hnext", scan.prev = "hprev"
    PROVE  PagesOf(d, scan, DOMAIN d[scan.key]["hash"])
<1>1. PICK key : key = scan.key
  OBVIOUS
<1>2. PICK c : c = d[key]["hash"] /\ Fields(c) /\ c # <<>>
  BY <1>1, HeldGood
<1>3. PICK S : S = DOMAIN c /\ S \subseteq Int /\ IsFiniteSet(S)
  BY <1>2, FieldsNotEmpty, MembersInt
<1>4. FreeFor(d, key, "hash") /\ ContentOf(d, key, "hash") = c
  BY <1>1, <1>2 DEF Holds, FreeFor, ContentOf
<1>5. ASSUME NEW n \in Nat, NEW x
      PROVE  /\ hfirst(d, key, n) = Ok(IF n = 0 THEN <<>> ELSE WithValues(c, FirstOf(S, n)))
             /\ hlast(d, key, n) = Ok(IF n = 0 THEN <<>> ELSE WithValues(c, LastOf(S, n)))
             /\ hnext(d, key, x, n) = Ok(IF n = 0 THEN <<>> ELSE WithValues(c, After(S, x, n)))
             /\ hprev(d, key, x, n) = Ok(IF n = 0 THEN <<>> ELSE WithValues(c, Before(S, x, n)))
  BY <1>3, <1>4 DEF hfirst, hlast, hnext, hprev, PageReply, Reply
<1>6. /\ "hfirst" \in HashScans /\ "hlast" \in HashScans /\ "hnext" \in HashScans /\ "hprev" \in HashScans
      /\ "hfirst" \notin KeyReads /\ "hlast" \notin KeyReads /\ "hnext" \notin KeyReads
      /\ "hprev" \notin KeyReads
  BY DEF HashScans, KeyReads
<1>7. ASSUME NEW n \in Nat, NEW x
      PROVE  /\ Page(d, "hfirst", key, x, n) = FirstOf(S, n) /\ Page(d, "hlast", key, x, n) = LastOf(S, n)
             /\ Page(d, "hnext", key, x, n) = After(S, x, n) /\ Page(d, "hprev", key, x, n) = Before(S, x, n)
  <2>1. /\ FirstOf(S, n) \in Seq(S) /\ LastOf(S, n) \in Seq(S)
        /\ After(S, x, n) \in Seq(S) /\ Before(S, x, n) \in Seq(S)
        /\ n = 0 => /\ FirstOf(S, n) = <<>> /\ LastOf(S, n) = <<>>
                    /\ After(S, x, n) = <<>> /\ Before(S, x, n) = <<>>
    BY <1>3, PagesAre
  <2>2. <<>> \in Seq(S)
    OBVIOUS
  <2>3. Page(d, "hfirst", key, x, n) = FirstOf(S, n)
    <3>1. dispatch_read_command(d, MemberPage("hfirst", key, x, n)) = Ok(IF n = 0 THEN <<>> ELSE WithValues(c, FirstOf(S, n)))
      BY <1>5, HashScansDispatch
    <3>2. Page(d, "hfirst", key, x, n) = Cursors("hfirst", IF n = 0 THEN <<>> ELSE WithValues(c, FirstOf(S, n)))
      BY <1>6, <3>1, MemberPageAnswer
    <3>3. CASE n = 0
      <4>1. Cursors("hfirst", <<>>) = <<>>
        BY <1>6, <2>2, CursorsBack
      <4> QED
        BY <2>1, <3>2, <3>3, <4>1
    <3>4. CASE n # 0
      <4>1. Cursors("hfirst", WithValues(c, FirstOf(S, n))) = FirstOf(S, n)
        BY <1>6, <2>1, CursorsBack
      <4> QED
        BY <3>2, <3>4, <4>1
    <3> QED
      BY <3>3, <3>4
  <2>4. Page(d, "hlast", key, x, n) = LastOf(S, n)
    <3>1. dispatch_read_command(d, MemberPage("hlast", key, x, n)) = Ok(IF n = 0 THEN <<>> ELSE WithValues(c, LastOf(S, n)))
      BY <1>5, HashScansDispatch
    <3>2. Page(d, "hlast", key, x, n) = Cursors("hlast", IF n = 0 THEN <<>> ELSE WithValues(c, LastOf(S, n)))
      BY <1>6, <3>1, MemberPageAnswer
    <3>3. CASE n = 0
      <4>1. Cursors("hlast", <<>>) = <<>>
        BY <1>6, <2>2, CursorsBack
      <4> QED
        BY <2>1, <3>2, <3>3, <4>1
    <3>4. CASE n # 0
      <4>1. Cursors("hlast", WithValues(c, LastOf(S, n))) = LastOf(S, n)
        BY <1>6, <2>1, CursorsBack
      <4> QED
        BY <3>2, <3>4, <4>1
    <3> QED
      BY <3>3, <3>4
  <2>5. Page(d, "hnext", key, x, n) = After(S, x, n)
    <3>1. dispatch_read_command(d, MemberPage("hnext", key, x, n)) = Ok(IF n = 0 THEN <<>> ELSE WithValues(c, After(S, x, n)))
      BY <1>5, HashScansDispatch
    <3>2. Page(d, "hnext", key, x, n) = Cursors("hnext", IF n = 0 THEN <<>> ELSE WithValues(c, After(S, x, n)))
      BY <1>6, <3>1, MemberPageAnswer
    <3>3. CASE n = 0
      <4>1. Cursors("hnext", <<>>) = <<>>
        BY <1>6, <2>2, CursorsBack
      <4> QED
        BY <2>1, <3>2, <3>3, <4>1
    <3>4. CASE n # 0
      <4>1. Cursors("hnext", WithValues(c, After(S, x, n))) = After(S, x, n)
        BY <1>6, <2>1, CursorsBack
      <4> QED
        BY <3>2, <3>4, <4>1
    <3> QED
      BY <3>3, <3>4
  <2>6. Page(d, "hprev", key, x, n) = Before(S, x, n)
    <3>1. dispatch_read_command(d, MemberPage("hprev", key, x, n)) = Ok(IF n = 0 THEN <<>> ELSE WithValues(c, Before(S, x, n)))
      BY <1>5, HashScansDispatch
    <3>2. Page(d, "hprev", key, x, n) = Cursors("hprev", IF n = 0 THEN <<>> ELSE WithValues(c, Before(S, x, n)))
      BY <1>6, <3>1, MemberPageAnswer
    <3>3. CASE n = 0
      <4>1. Cursors("hprev", <<>>) = <<>>
        BY <1>6, <2>2, CursorsBack
      <4> QED
        BY <2>1, <3>2, <3>3, <4>1
    <3>4. CASE n # 0
      <4>1. Cursors("hprev", WithValues(c, Before(S, x, n))) = Before(S, x, n)
        BY <1>6, <2>1, CursorsBack
      <4> QED
        BY <3>2, <3>4, <4>1
    <3> QED
      BY <3>3, <3>4
  <2> QED
    BY <2>3, <2>4, <2>5, <2>6
<1> QED
  BY <1>1, <1>2, <1>3, <1>7 DEF PagesOf

\* The scan of a sorted set pages over its members, whatever their scores.
LEMMA ZSetPages ==
    ASSUME NEW d, NEW scan, GoodDb(d), Holds(d, scan.key, "zset"),
           scan.first = "zfirst", scan.last = "zlast", scan.next = "znext", scan.prev = "zprev"
    PROVE  PagesOf(d, scan, DOMAIN d[scan.key]["zset"].entries)
<1>1. PICK key : key = scan.key
  OBVIOUS
<1>2. PICK c : c = d[key]["zset"] /\ Agree(c) /\ c # EmptyZSet
  BY <1>1, HeldGood
<1>3. PICK S : S = DOMAIN c.entries /\ S \subseteq Int /\ IsFiniteSet(S)
  BY <1>2, FieldsNotEmpty, MembersInt
<1>4. FreeFor(d, key, "zset") /\ ContentOf(d, key, "zset") = c
  BY <1>1, <1>2 DEF Holds, FreeFor, ContentOf
<1>5. ASSUME NEW n \in Nat, NEW x
      PROVE  /\ zfirst(d, key, n) = Ok(IF n = 0 THEN <<>> ELSE ByMember(c, FirstOf(S, n)))
             /\ zlast(d, key, n) = Ok(IF n = 0 THEN <<>> ELSE ByMember(c, LastOf(S, n)))
             /\ znext(d, key, x, n) = Ok(IF n = 0 THEN <<>> ELSE ByMember(c, After(S, x, n)))
             /\ zprev(d, key, x, n) = Ok(IF n = 0 THEN <<>> ELSE ByMember(c, Before(S, x, n)))
  BY <1>3, <1>4 DEF zfirst, zlast, znext, zprev, PageReply, Reply
<1>6. /\ "zfirst" \in ZScans /\ "zlast" \in ZScans /\ "znext" \in ZScans /\ "zprev" \in ZScans
      /\ "zfirst" \notin KeyReads /\ "zlast" \notin KeyReads /\ "znext" \notin KeyReads
      /\ "zprev" \notin KeyReads
  BY DEF ZScans, KeyReads
<1>7. ASSUME NEW n \in Nat, NEW x
      PROVE  /\ Page(d, "zfirst", key, x, n) = FirstOf(S, n) /\ Page(d, "zlast", key, x, n) = LastOf(S, n)
             /\ Page(d, "znext", key, x, n) = After(S, x, n) /\ Page(d, "zprev", key, x, n) = Before(S, x, n)
  <2>1. /\ FirstOf(S, n) \in Seq(S) /\ LastOf(S, n) \in Seq(S)
        /\ After(S, x, n) \in Seq(S) /\ Before(S, x, n) \in Seq(S)
        /\ n = 0 => /\ FirstOf(S, n) = <<>> /\ LastOf(S, n) = <<>>
                    /\ After(S, x, n) = <<>> /\ Before(S, x, n) = <<>>
    BY <1>3, PagesAre
  <2>2. <<>> \in Seq(S)
    OBVIOUS
  <2>3. Page(d, "zfirst", key, x, n) = FirstOf(S, n)
    <3>1. dispatch_read_command(d, MemberPage("zfirst", key, x, n)) = Ok(IF n = 0 THEN <<>> ELSE ByMember(c, FirstOf(S, n)))
      BY <1>5, ZSetScansDispatch
    <3>2. Page(d, "zfirst", key, x, n) = Cursors("zfirst", IF n = 0 THEN <<>> ELSE ByMember(c, FirstOf(S, n)))
      BY <1>6, <3>1, MemberPageAnswer
    <3>3. CASE n = 0
      <4>1. Cursors("zfirst", <<>>) = <<>>
        BY <1>6, <2>2, CursorsBack
      <4> QED
        BY <2>1, <3>2, <3>3, <4>1
    <3>4. CASE n # 0
      <4>1. Cursors("zfirst", ByMember(c, FirstOf(S, n))) = FirstOf(S, n)
        BY <1>6, <2>1, CursorsBack
      <4> QED
        BY <3>2, <3>4, <4>1
    <3> QED
      BY <3>3, <3>4
  <2>4. Page(d, "zlast", key, x, n) = LastOf(S, n)
    <3>1. dispatch_read_command(d, MemberPage("zlast", key, x, n)) = Ok(IF n = 0 THEN <<>> ELSE ByMember(c, LastOf(S, n)))
      BY <1>5, ZSetScansDispatch
    <3>2. Page(d, "zlast", key, x, n) = Cursors("zlast", IF n = 0 THEN <<>> ELSE ByMember(c, LastOf(S, n)))
      BY <1>6, <3>1, MemberPageAnswer
    <3>3. CASE n = 0
      <4>1. Cursors("zlast", <<>>) = <<>>
        BY <1>6, <2>2, CursorsBack
      <4> QED
        BY <2>1, <3>2, <3>3, <4>1
    <3>4. CASE n # 0
      <4>1. Cursors("zlast", ByMember(c, LastOf(S, n))) = LastOf(S, n)
        BY <1>6, <2>1, CursorsBack
      <4> QED
        BY <3>2, <3>4, <4>1
    <3> QED
      BY <3>3, <3>4
  <2>5. Page(d, "znext", key, x, n) = After(S, x, n)
    <3>1. dispatch_read_command(d, MemberPage("znext", key, x, n)) = Ok(IF n = 0 THEN <<>> ELSE ByMember(c, After(S, x, n)))
      BY <1>5, ZSetScansDispatch
    <3>2. Page(d, "znext", key, x, n) = Cursors("znext", IF n = 0 THEN <<>> ELSE ByMember(c, After(S, x, n)))
      BY <1>6, <3>1, MemberPageAnswer
    <3>3. CASE n = 0
      <4>1. Cursors("znext", <<>>) = <<>>
        BY <1>6, <2>2, CursorsBack
      <4> QED
        BY <2>1, <3>2, <3>3, <4>1
    <3>4. CASE n # 0
      <4>1. Cursors("znext", ByMember(c, After(S, x, n))) = After(S, x, n)
        BY <1>6, <2>1, CursorsBack
      <4> QED
        BY <3>2, <3>4, <4>1
    <3> QED
      BY <3>3, <3>4
  <2>6. Page(d, "zprev", key, x, n) = Before(S, x, n)
    <3>1. dispatch_read_command(d, MemberPage("zprev", key, x, n)) = Ok(IF n = 0 THEN <<>> ELSE ByMember(c, Before(S, x, n)))
      BY <1>5, ZSetScansDispatch
    <3>2. Page(d, "zprev", key, x, n) = Cursors("zprev", IF n = 0 THEN <<>> ELSE ByMember(c, Before(S, x, n)))
      BY <1>6, <3>1, MemberPageAnswer
    <3>3. CASE n = 0
      <4>1. Cursors("zprev", <<>>) = <<>>
        BY <1>6, <2>2, CursorsBack
      <4> QED
        BY <2>1, <3>2, <3>3, <4>1
    <3>4. CASE n # 0
      <4>1. Cursors("zprev", ByMember(c, Before(S, x, n))) = Before(S, x, n)
        BY <1>6, <2>1, CursorsBack
      <4> QED
        BY <3>2, <3>4, <4>1
    <3> QED
      BY <3>3, <3>4
  <2> QED
    BY <2>3, <2>4, <2>5, <2>6
<1> QED
  BY <1>1, <1>2, <1>3, <1>7 DEF PagesOf

-----------------------------------------------------------------------------
(* Scans that a command overtakes. *)

\* What a scan walks over, before and after the command.
LEMMA ScanSets ==
    ASSUME NEW d, GoodDb(d), DOMAIN d \subseteq Int, NEW e, GoodDb(e), DOMAIN e \subseteq Int,
           NEW scan \in ChangedScans(d, e)
    PROVE  \E S, T : /\ S = Scanned(d, scan) /\ S \subseteq Int /\ IsFiniteSet(S) /\ PagesOf(d, scan, S)
                     /\ T = Scanned(e, scan) /\ T \subseteq Int /\ IsFiniteSet(T) /\ PagesOf(e, scan, T)
<1>1. \/ /\ scan.first = "first" /\ scan.last = "last" /\ scan.next = "next" /\ scan.prev = "prev"
      \/ /\ scan.first = "sfirst" /\ scan.last = "slast" /\ scan.next = "snext" /\ scan.prev = "sprev"
         /\ Holds(d, scan.key, "set") /\ Holds(e, scan.key, "set")
      \/ /\ scan.first = "hfirst" /\ scan.last = "hlast" /\ scan.next = "hnext" /\ scan.prev = "hprev"
         /\ Holds(d, scan.key, "hash") /\ Holds(e, scan.key, "hash")
      \/ /\ scan.first = "zfirst" /\ scan.last = "zlast" /\ scan.next = "znext" /\ scan.prev = "zprev"
         /\ Holds(d, scan.key, "zset") /\ Holds(e, scan.key, "zset")
  BY DEF ChangedScans
<1>2. CASE /\ scan.first = "first" /\ scan.last = "last" /\ scan.next = "next" /\ scan.prev = "prev"
  <2>1. Scanned(d, scan) = DOMAIN d /\ Scanned(e, scan) = DOMAIN e
    BY <1>2 DEF Scanned
  <2>2. PagesOf(d, scan, DOMAIN d) /\ PagesOf(e, scan, DOMAIN e)
    BY <1>2, KeyPages
  <2>3. IsFiniteSet(DOMAIN d) /\ IsFiniteSet(DOMAIN e)
    BY DEF GoodDb
  <2> QED
    BY <2>1, <2>2, <2>3
<1>3. \A c, kind : Holds(c, scan.key, kind) => ContentOf(c, scan.key, kind) = c[scan.key][kind]
  BY DEF Holds, ContentOf
<1>4. ASSUME NEW c, GoodDb(c), Holds(c, scan.key, "set"), scan.first = "sfirst", scan.last = "slast",
             scan.next = "snext", scan.prev = "sprev", NEW S, S = Scanned(c, scan)
      PROVE  S \subseteq Int /\ IsFiniteSet(S) /\ PagesOf(c, scan, S)
  <2>1. S = c[scan.key]["set"]
    BY <1>3, <1>4 DEF Scanned
  <2>2. PagesOf(c, scan, c[scan.key]["set"])
    BY <1>4, SetPages
  <2>3. Members(S)
    BY <1>4, <2>1, HeldGood
  <2> QED
    BY <2>1, <2>2, <2>3, MembersInt
<1>5. ASSUME NEW c, GoodDb(c), Holds(c, scan.key, "hash"), scan.first = "hfirst", scan.last = "hlast",
             scan.next = "hnext", scan.prev = "hprev", NEW S, S = Scanned(c, scan)
      PROVE  S \subseteq Int /\ IsFiniteSet(S) /\ PagesOf(c, scan, S)
  <2>1. S = DOMAIN c[scan.key]["hash"]
    BY <1>3, <1>5 DEF Scanned
  <2>2. PagesOf(c, scan, DOMAIN c[scan.key]["hash"])
    BY <1>5, HashPages
  <2>3. Members(S)
    BY <1>5, <2>1, HeldGood, FieldsNotEmpty
  <2> QED
    BY <2>1, <2>2, <2>3, MembersInt
<1>6. ASSUME NEW c, GoodDb(c), Holds(c, scan.key, "zset"), scan.first = "zfirst", scan.last = "zlast",
             scan.next = "znext", scan.prev = "zprev", NEW S, S = Scanned(c, scan)
      PROVE  S \subseteq Int /\ IsFiniteSet(S) /\ PagesOf(c, scan, S)
  <2>1. S = DOMAIN c[scan.key]["zset"].entries
    BY <1>3, <1>6 DEF Scanned
  <2>2. PagesOf(c, scan, DOMAIN c[scan.key]["zset"].entries)
    BY <1>6, ZSetPages
  <2>3. Members(S)
    BY <1>6, <2>1, HeldGood, FieldsNotEmpty
  <2> QED
    BY <2>1, <2>2, <2>3, MembersInt
<1> QED
  BY <1>1, <1>2, <1>4, <1>5, <1>6

\* A scan survives any change between two good databases.
LEMMA ScansHold ==
    ASSUME NEW d, GoodDb(d), DOMAIN d \subseteq Int, NEW e, GoodDb(e), DOMAIN e \subseteq Int,
           NEW scan \in ChangedScans(d, e)
    PROVE  ScanSurvives(d, e, scan)
<1>1. PICK S, T :
         /\ S = Scanned(d, scan) /\ S \subseteq Int /\ IsFiniteSet(S) /\ PagesOf(d, scan, S)
         /\ T = Scanned(e, scan) /\ T \subseteq Int /\ IsFiniteSet(T) /\ PagesOf(e, scan, T)
  BY ScanSets
<1>2. PICK rest \in Nat : rest = Cardinality(T)
  BY <1>1, FS_CardinalityType
<1>3. ASSUME NEW count \in {1, 2}
      PROVE  /\ Walk(d, e, scan.first, scan.next, scan.key, count, rest) = PagedUp(S, T, count)
             /\ Walk(d, e, scan.last, scan.prev, scan.key, count, rest) = PagedDown(S, T, count)
  <2>1. count \in Nat
    OBVIOUS
  <2>2. /\ Page(d, scan.first, scan.key, 0, count) = FirstOf(S, count)
        /\ Page(d, scan.last, scan.key, 0, count) = LastOf(S, count)
    BY <1>1, <2>1 DEF PagesOf
  <2>3. \A x : /\ Page(e, scan.next, scan.key, x, rest) = After(T, x, rest)
               /\ Page(e, scan.prev, scan.key, x, rest) = Before(T, x, rest)
    BY <1>1 DEF PagesOf
  <2> QED
    BY <1>2, <2>2, <2>3 DEF Walk, PagedUp, PagedDown
<1>4. ASSUME NEW count \in {1, 2}, NEW up, up = PagedUp(S, T, count), NEW down, down = PagedDown(S, T, count)
      PROVE  /\ S \cap T \subseteq Range(up) \cap Range(down)
             /\ \A i \in 1 .. Len(up) - 1 : up[i] < up[i + 1]
             /\ \A i \in 1 .. Len(down) - 1 : down[i] > down[i + 1]
  <2>1. count \in Nat /\ count > 0
    OBVIOUS
  <2> QED
    BY <1>1, <1>4, <2>1, PagesCover
<1>5. ASSUME NEW count \in {1, 2}
      PROVE  LET up == Walk(d, e, scan.first, scan.next, scan.key, count, Cardinality(Scanned(e, scan)))
                 down == Walk(d, e, scan.last, scan.prev, scan.key, count, Cardinality(Scanned(e, scan)))
             IN /\ Scanned(d, scan) \cap Scanned(e, scan) \subseteq Range(up) \cap Range(down)
                /\ \A i \in 1 .. Len(up) - 1 : up[i] < up[i + 1]
                /\ \A i \in 1 .. Len(down) - 1 : down[i] > down[i + 1]
  <2>1. rest = Cardinality(Scanned(e, scan))
    BY <1>1, <1>2
  <2>2. PICK up, down : up = PagedUp(S, T, count) /\ down = PagedDown(S, T, count)
    OBVIOUS
  <2>3. /\ up = Walk(d, e, scan.first, scan.next, scan.key, count, Cardinality(Scanned(e, scan)))
        /\ down = Walk(d, e, scan.last, scan.prev, scan.key, count, Cardinality(Scanned(e, scan)))
    BY <1>3, <2>1, <2>2
  <2>4. /\ Scanned(d, scan) \cap Scanned(e, scan) \subseteq Range(up) \cap Range(down)
        /\ \A i \in 1 .. Len(up) - 1 : up[i] < up[i + 1]
        /\ \A i \in 1 .. Len(down) - 1 : down[i] > down[i + 1]
    BY <1>1, <1>4, <2>2
  <2> QED
    BY <2>3, <2>4
<1> QED
  BY <1>5, Zenon DEF ScanSurvives

\* A scan with first and next, or last and prev, that a replicated command
\* overtakes between two pages returns everything that stays, once and in order.
THEOREM StorageScansSurviveWrites == Spec => ScansSurviveWrites
<1>1. ASSUME MapOK(map), MapOK(map'), NEW db \in Dbs, NEW scan \in ChangedScans(map[db], map'[db])
      PROVE  ScanSurvives(map[db], map'[db], scan)
  <2>1. /\ GoodDb(map[db]) /\ DOMAIN map[db] \subseteq Int
        /\ GoodDb(map'[db]) /\ DOMAIN map'[db] \subseteq Int
    BY <1>1, StorageAssumption DEF MapOK
  <2> QED
    BY <2>1, ScansHold
<1>2. MapOK(map) /\ MapOK(map)' =>
         [\A db \in Dbs : map[db] # map'[db] =>
            \A scan \in ChangedScans(map[db], map'[db]) : ScanSurvives(map[db], map'[db], scan)]_vars
  BY <1>1
<1> QED
  BY <1>2, StorageInductive, PTL DEF ScansSurviveWrites

-----------------------------------------------------------------------------
(* Answers on their way through Lua. *)

\* A list without holes.
NoHoles(x) == \E n \in Nat : DOMAIN x = 1 .. n /\ x = [i \in 1 .. n |-> x[i]]

\* Every sequence is one.
LEMMA SeqsAreLists ==
    ASSUME NEW S, NEW x \in Seq(S)
    PROVE  NoHoles(x)
<1>1. PICK n \in Nat : n = Len(x) /\ DOMAIN x = 1 .. n /\ x = [i \in 1 .. n |-> x[i]]
  OBVIOUS
<1> QED
  BY <1>1 DEF NoHoles

\* Its length is the only border.
LEMMA OneBorder ==
    ASSUME NEW x, NEW n \in Nat, DOMAIN x = 1 .. n
    PROVE  Borders(x) = {n}
<1>1. n \in {0} \cup 1 .. n /\ n + 1 \notin 1 .. n
  OBVIOUS
<1>2. ASSUME NEW m \in {0} \cup 1 .. n, m + 1 \notin 1 .. n PROVE m = n
  BY <1>2
<1> QED
  BY <1>1, <1>2 DEF Borders

\* A list comes back from Lua as it is.
LEMMA ListFromLua ==
    ASSUME NEW x, NoHoles(x), x # <<>>, NEW term \in lua_value_to_term(ArrayTable(x))
    PROVE  term = [list |-> x]
<1>1. PICK n \in Nat : DOMAIN x = 1 .. n /\ x = [i \in 1 .. n |-> x[i]]
  BY DEF NoHoles
<1>2. n # 0
  <2>1. n = 0 => DOMAIN x = {}
    BY <1>1
  <2>2. DOMAIN x = {} => x = <<>>
    BY <1>1
  <2> QED
    BY <2>1, <2>2
<1>3. PICK t : t = ArrayTable(x) /\ "array" \in DOMAIN t /\ t.array = x
  BY DEF ArrayTable
<1>4. Borders(x) = {n}
  BY <1>1, OneBorder
<1>5. term = lua_table_to_term(t, n)
  BY <1>3, <1>4 DEF lua_value_to_term
<1>6. lua_table_to_term(t, n) = [list |-> [i \in 1 .. n |-> x[i]]]
  <2>1. n > 0 /\ 1 .. n \subseteq DOMAIN t.array
    BY <1>1, <1>2, <1>3
  <2>2. lua_table_to_term(t, n) = [list |-> [i \in 1 .. n |-> t.array[i]]]
    BY <2>1 DEF lua_table_to_term
  <2> QED
    BY <1>3, <2>2
<1> QED
  BY <1>1, <1>5, <1>6

\* A list of optional values that are all there comes back as the list of them.
LEMMA SparseFromLua ==
    ASSUME NEW x, NoHoles(x), <<>> \notin Range(x), x # <<>>, NEW term \in lua_value_to_term(SparseTable(x))
    PROVE  term = [list |-> [i \in DOMAIN x |-> x[i][1]]]
<1>1. PICK n \in Nat : DOMAIN x = 1 .. n /\ x = [i \in 1 .. n |-> x[i]]
  BY DEF NoHoles
<1>2. {j \in DOMAIN x : x[j] # <<>>} = DOMAIN x
  BY DEF Range
<1>3. PICK y : y = [i \in 1 .. n |-> x[i][1]]
  OBVIOUS
<1>4. SparseTable(x) = ArrayTable(y)
  BY <1>1, <1>2, <1>3 DEF SparseTable, ArrayTable
<1>5. NoHoles(y)
  <2>1. DOMAIN y = 1 .. n /\ y = [i \in 1 .. n |-> y[i]]
    BY <1>3
  <2> QED
    BY <2>1 DEF NoHoles
<1>6. y # <<>>
  <2>1. n = 0 => x = <<>>
    <3>1. n = 0 => DOMAIN x = {}
      BY <1>1
    <3>2. DOMAIN x = {} => x = <<>>
      BY <1>1
    <3> QED
      BY <3>1, <3>2
  <2>2. y = <<>> => DOMAIN y = {}
    OBVIOUS
  <2>3. DOMAIN y = 1 .. n
    BY <1>3
  <2>4. n # 0 => 1 \in 1 .. n
    OBVIOUS
  <2> QED
    BY <2>1, <2>2, <2>3, <2>4
<1>7. term = [list |-> y]
  BY <1>4, <1>5, <1>6, ListFromLua
<1> QED
  BY <1>1, <1>3, <1>7

\* The pairs of a hash come back as the map they list.
LEMMA FieldsFromLua ==
    ASSUME NEW h, Fields(h), NEW term \in lua_value_to_term(FieldTable(WithValues(h, Ascending(DOMAIN h))))
    PROVE  term = [map |-> [array |-> <<>>, keyed |-> h]]
<1>1. PICK F : F = DOMAIN h /\ h = [f \in F |-> h[f]] /\ Members(F)
  BY DEF Fields
<1>2. PICK a : a = Ascending(F) /\ Sorts(a, F)
  BY <1>1, MembersSort
<1>3. PICK x : x = WithValues(h, a)
  OBVIOUS
<1>4. DOMAIN x = DOMAIN a /\ \A i \in DOMAIN a : x[i] = <<a[i], h[a[i]]>>
  BY <1>3 DEF WithValues
<1>5. Range(x) = {<<f, h[f]>> : f \in F}
  <2>1. ASSUME NEW i \in DOMAIN x PROVE x[i] \in {<<f, h[f]>> : f \in F}
    <3>1. a[i] \in F
      BY <1>2, <1>4 DEF Sorts
    <3> QED
      BY <1>4, <3>1
  <2>2. ASSUME NEW f \in F PROVE \E i \in DOMAIN x : x[i] = <<f, h[f]>>
    <3>1. PICK i \in DOMAIN a : a[i] = f
      BY <1>2 DEF Sorts
    <3> QED
      BY <1>4, <3>1
  <2> QED
    BY <2>1, <2>2 DEF Range
<1>6. {p[1] : p \in Range(x)} = F
  <2>1. \A p \in Range(x) : p[1] \in F
    BY <1>5
  <2>2. ASSUME NEW f \in F PROVE \E p \in Range(x) : p[1] = f
    <3>1. <<f, h[f]>> \in Range(x) /\ <<f, h[f]>>[1] = f
      BY <1>5
    <3> QED
      BY <3>1
  <2> QED
    BY <2>1, <2>2
<1>7. ASSUME NEW f \in F PROVE (CHOOSE p \in Range(x) : p[1] = f)[2] = h[f]
  <2>1. <<f, h[f]>> \in Range(x) /\ <<f, h[f]>>[1] = f
    BY <1>5
  <2>2. PICK q : q = CHOOSE p \in Range(x) : p[1] = f
    OBVIOUS
  <2>3. q \in Range(x) /\ q[1] = f
    BY <2>1, <2>2
  <2>4. PICK g \in F : q = <<g, h[g]>>
    BY <1>5, <2>3
  <2>5. g = f /\ q[2] = h[g]
    BY <2>3, <2>4
  <2> QED
    BY <2>2, <2>5
<1>8. [f \in {p[1] : p \in Range(x)} |-> (CHOOSE p \in Range(x) : p[1] = f)[2]] = [f \in F |-> h[f]]
  BY <1>6, <1>7
<1>9. PICK t : t = FieldTable(x) /\ t = [array |-> <<>>, keyed |-> h]
  BY <1>1, <1>8 DEF FieldTable
<1>10. "array" \in DOMAIN t /\ t.array = <<>>
  BY <1>9
<1>11. Borders(<<>>) = {0}
  <2>1. DOMAIN <<>> = 1 .. 0
    OBVIOUS
  <2> QED
    BY <2>1, OneBorder
<1>12. term = lua_table_to_term(t, 0)
  BY <1>1, <1>2, <1>3, <1>9, <1>10, <1>11 DEF lua_value_to_term
<1>13. lua_table_to_term(t, 0) = [map |-> t]
  BY DEF lua_table_to_term
<1> QED
  BY <1>9, <1>12, <1>13

\* ts functions that ask for the scores anyway.
LEMMA BindingSame ==
    ASSUME NEW key, NEW c \in ReadCommands(key)
    PROVE  BindingCommand(c) = c
<1>1. CASE "with_scores" \notin DOMAIN c
  BY <1>1 DEF BindingCommand
<1>2. CASE "with_scores" \in DOMAIN c
  <2>1. c \in [op : {"zrange", "lrange"}, key : {key}, start : {0}, stop : {0, -1}, with_scores : {TRUE}]
    <3>1. c \notin [op : {"get", "llen", "scard", "hlen", "zcard", "smembers", "hkeys", "hvals", "hgetall"},
                    key : {key}]
      BY <1>2
    <3>2. c \notin [op : {"hmget", "smismember"}, key : {key}, members : Bytes \X Bytes]
      BY <1>2
    <3>3. c \notin [op : {"hget", "zrank", "zrevrank", "zscore", "sismember", "hexists"}, key : {key},
                    member : Bytes]
      BY <1>2
    <3>4. c \notin [op : {"hfirst", "hlast", "zfirst", "zlast", "sfirst", "slast"}, key : {key},
                    count : {0, 2}]
      BY <1>2
    <3>5. c \notin [op : {"sunion", "sinter", "sdiff", "sintercard"}, keys : {<<key, a>> : a \in Keys}]
      BY <1>2
    <3> QED
      BY <3>1, <3>2, <3>3, <3>4, <3>5 DEF ReadCommands
  <2>2. c.with_scores = TRUE
    BY <2>1
  <2>3. [c EXCEPT !.with_scores = TRUE] = c
    BY <2>1, <2>2
  <2> QED
    BY <1>2, <2>3 DEF BindingCommand
<1> QED
  BY <1>1, <1>2

-----------------------------------------------------------------------------
(* Answers that are lists. *)

\* A range of a sequence is a sequence.
LEMMA TrimSeq ==
    ASSUME NEW S, NEW l \in Seq(S), NEW start \in Int, NEW stop \in Int
    PROVE  Trim(l, start, stop) \in Seq(S)
<1>1. PICK n \in Nat : n = Len(l)
  OBVIOUS
<1>2. <<>> \in Seq(S)
  OBVIOUS
<1>3. CASE n > 0
  <2>1. PICK i \in 0 .. n - 1, j \in 0 .. n - 1 : i = Clamp(n, start) /\ j = Clamp(n, stop)
    BY <1>3, ClampRange
  <2>2. CASE i > j
    BY <1>1, <1>2, <2>1, <2>2 DEF Trim
  <2>3. CASE ~(i > j)
    <3>1. PICK a \in Int, b \in Int : a = i + 1 /\ b = j + 1
      OBVIOUS
    <3>2. 1 <= a /\ a <= b + 1 /\ b <= Len(l)
      BY <1>1, <2>3, <3>1
    <3>3. SubSeq(l, a, b) \in Seq(S)
      BY <3>2, PartFacts
    <3> QED
      BY <1>1, <1>2, <2>1, <3>1, <3>3 DEF Trim
  <2> QED
    BY <2>2, <2>3
<1>4. CASE n = 0
  <2>1. l = <<>>
    BY <1>1, <1>4, EmptySeq
  <2> QED
    BY <1>2, <2>1 DEF Trim
<1> QED
  BY <1>3, <1>4

\* What is listed with something else has no holes either.
LEMMA ListsOfLists ==
    ASSUME NEW p, NoHoles(p)
    PROVE  /\ \A h : NoHoles(WithValues(h, p)) /\ NoHoles(ValuesOf(h, p)) /\ NoHoles(LookedUp(h, p))
           /\ \A z : NoHoles(ByMember(z, p))
           /\ \A s : NoHoles(Contained(s, p))
           /\ NoHoles(Swapped(p)) /\ NoHoles(MemberList(p))
           /\ NoHoles(<<>>)
<1>1. PICK n \in Nat : DOMAIN p = 1 .. n
  BY DEF NoHoles
<1>2. ASSUME NEW q, DOMAIN q = 1 .. n, q = [i \in 1 .. n |-> q[i]] PROVE NoHoles(q)
  BY <1>2 DEF NoHoles
<1>3. ASSUME NEW h, NEW q, q = WithValues(h, p) PROVE NoHoles(q)
  <2>1. DOMAIN q = 1 .. n /\ q = [i \in 1 .. n |-> q[i]]
    BY <1>1, <1>3 DEF WithValues
  <2> QED
    BY <1>2, <2>1
<1>4. ASSUME NEW h, NEW q, q = ValuesOf(h, p) PROVE NoHoles(q)
  <2>1. DOMAIN q = 1 .. n /\ q = [i \in 1 .. n |-> q[i]]
    BY <1>1, <1>4 DEF ValuesOf
  <2> QED
    BY <1>2, <2>1
<1>5. ASSUME NEW h, NEW q, q = LookedUp(h, p) PROVE NoHoles(q)
  <2>1. DOMAIN q = 1 .. n /\ q = [i \in 1 .. n |-> q[i]]
    BY <1>1, <1>5 DEF LookedUp
  <2> QED
    BY <1>2, <2>1
<1>6. ASSUME NEW z, NEW q, q = ByMember(z, p) PROVE NoHoles(q)
  <2>1. DOMAIN q = 1 .. n /\ q = [i \in 1 .. n |-> q[i]]
    BY <1>1, <1>6 DEF ByMember
  <2> QED
    BY <1>2, <2>1
<1>7. ASSUME NEW s, NEW q, q = Contained(s, p) PROVE NoHoles(q)
  <2>1. DOMAIN q = 1 .. n /\ q = [i \in 1 .. n |-> q[i]]
    BY <1>1, <1>7 DEF Contained
  <2> QED
    BY <1>2, <2>1
<1>8. ASSUME NEW q, q = Swapped(p) PROVE NoHoles(q)
  <2>1. DOMAIN q = 1 .. n /\ q = [i \in 1 .. n |-> q[i]]
    BY <1>1, <1>8 DEF Swapped
  <2> QED
    BY <1>2, <2>1
<1>9. ASSUME NEW q, q = MemberList(p) PROVE NoHoles(q)
  <2>1. DOMAIN q = 1 .. n /\ q = [i \in 1 .. n |-> q[i]]
    BY <1>1, <1>9 DEF MemberList
  <2> QED
    BY <1>2, <2>1
<1>10. NoHoles(<<>>)
  <2>1. <<>> \in Seq({})
    OBVIOUS
  <2> QED
    BY <2>1, SeqsAreLists
<1> QED
  BY <1>3, <1>4, <1>5, <1>6, <1>7, <1>8, <1>9, <1>10

\* The reads that answer with a list, as they are dispatched.
LEMMA ListDispatch ==
    ASSUME NEW d, NEW c
    PROVE  /\ c.op = "smembers" => dispatch_read_command(d, c) = smembers(d, c.key)
           /\ c.op = "smismember" => dispatch_read_command(d, c) = smismember(d, c.key, c.members)
           /\ c.op = "hkeys" => dispatch_read_command(d, c) = hkeys(d, c.key)
           /\ c.op = "hvals" => dispatch_read_command(d, c) = hvals(d, c.key)
           /\ c.op = "hgetall" => dispatch_read_command(d, c) = hgetall(d, c.key)
           /\ c.op = "hmget" => dispatch_read_command(d, c) = hmget(d, c.key, c.members)
           /\ c.op = "lrange" => dispatch_read_command(d, c) = lrange(d, c.key, c.start, c.stop)
           /\ c.op = "zrange" => dispatch_read_command(d, c) = zrange(d, c.key, c.start, c.stop, c.with_scores)
           /\ c.op = "sfirst" => dispatch_read_command(d, c) = sfirst(d, c.key, c.count)
           /\ c.op = "slast" => dispatch_read_command(d, c) = slast(d, c.key, c.count)
           /\ c.op = "hfirst" => dispatch_read_command(d, c) = hfirst(d, c.key, c.count)
           /\ c.op = "hlast" => dispatch_read_command(d, c) = hlast(d, c.key, c.count)
           /\ c.op = "zfirst" => dispatch_read_command(d, c) = zfirst(d, c.key, c.count)
           /\ c.op = "zlast" => dispatch_read_command(d, c) = zlast(d, c.key, c.count)
           /\ c.op = "sunion" => dispatch_read_command(d, c) = sunion(d, c.keys)
           /\ c.op = "sinter" => dispatch_read_command(d, c) = sinter(d, c.keys)
           /\ c.op = "sdiff" => dispatch_read_command(d, c) = sdiff(d, c.keys)
<1> USE DEF dispatch_read_command, KeyReads, SetReads, SetScans, SetAlgebra, ListReads, FieldReads,
            HashReads, HashScans, ZSetReads, ZRankReads, ZScans
<1>1. c.op = "smembers" => dispatch_read_command(d, c) = smembers(d, c.key)
  BY DEF SetReadHandler
<1>2. c.op = "smismember" => dispatch_read_command(d, c) = smismember(d, c.key, c.members)
  BY DEF SetReadHandler
<1>3. c.op = "hkeys" => dispatch_read_command(d, c) = hkeys(d, c.key)
  BY DEF HashReadHandler
<1>4. c.op = "hvals" => dispatch_read_command(d, c) = hvals(d, c.key)
  BY DEF HashReadHandler
<1>5. c.op = "hgetall" => dispatch_read_command(d, c) = hgetall(d, c.key)
  BY DEF FieldReadHandler
<1>6. c.op = "hmget" => dispatch_read_command(d, c) = hmget(d, c.key, c.members)
  BY DEF FieldReadHandler
<1>7. c.op = "lrange" => dispatch_read_command(d, c) = lrange(d, c.key, c.start, c.stop)
  BY DEF ListReadHandler
<1>8. c.op = "zrange" => dispatch_read_command(d, c) = zrange(d, c.key, c.start, c.stop, c.with_scores)
  BY DEF ZSetReadHandler
<1>9. c.op = "sfirst" => dispatch_read_command(d, c) = sfirst(d, c.key, c.count)
  BY DEF SetScanHandler
<1>10. c.op = "slast" => dispatch_read_command(d, c) = slast(d, c.key, c.count)
  BY DEF SetScanHandler
<1>11. c.op = "hfirst" => dispatch_read_command(d, c) = hfirst(d, c.key, c.count)
  BY DEF HashScanHandler
<1>12. c.op = "hlast" => dispatch_read_command(d, c) = hlast(d, c.key, c.count)
  BY DEF HashScanHandler
<1>13. c.op = "zfirst" => dispatch_read_command(d, c) = zfirst(d, c.key, c.count)
  BY DEF ZScanHandler
<1>14. c.op = "zlast" => dispatch_read_command(d, c) = zlast(d, c.key, c.count)
  BY DEF ZScanHandler
<1>15. c.op = "sunion" => dispatch_read_command(d, c) = sunion(d, c.keys)
  BY DEF SetAlgebraHandler
<1>16. c.op = "sinter" => dispatch_read_command(d, c) = sinter(d, c.keys)
  BY DEF SetAlgebraHandler
<1>17. c.op = "sdiff" => dispatch_read_command(d, c) = sdiff(d, c.keys)
  BY DEF SetAlgebraHandler
<1> QED
  BY <1>1, <1>2, <1>3, <1>4, <1>5, <1>6, <1>7, <1>8, <1>9,
     <1>10, <1>11, <1>12, <1>13, <1>14, <1>15, <1>16, <1>17

\* The lists that are read from one key.
LEMMA KeyLists ==
    ASSUME NEW d, GoodDb(d), NEW k
    PROVE  /\ smembers(d, k) # WrongType => NoHoles(smembers(d, k)[2])
           /\ hkeys(d, k) # WrongType => NoHoles(hkeys(d, k)[2])
           /\ hvals(d, k) # WrongType => NoHoles(hvals(d, k)[2])
           /\ \A ms : NoHoles(ms) /\ smismember(d, k, ms) # WrongType => NoHoles(smismember(d, k, ms)[2])
<1>1. PICK s, h : s = ContentOf(d, k, "set") /\ h = ContentOf(d, k, "hash") /\ Members(s) /\ Members(DOMAIN h)
  BY ContentGood DEF Fields
<1>2. PICK a, f : a = Ascending(s) /\ f = Ascending(DOMAIN h) /\ NoHoles(a) /\ NoHoles(f)
  BY <1>1, MembersSort, SeqsAreLists
<1>3. smembers(d, k) # WrongType => smembers(d, k) = Ok(a)
  BY <1>1, <1>2 DEF smembers, Reply
<1>4. hkeys(d, k) # WrongType => hkeys(d, k) = Ok(f)
  BY <1>1, <1>2 DEF hkeys, Reply
<1>5. hvals(d, k) # WrongType => hvals(d, k) = Ok(ValuesOf(h, f))
  BY <1>1, <1>2 DEF hvals, Reply, ValuesOf
<1>6. \A ms : smismember(d, k, ms) # WrongType => smismember(d, k, ms) = Ok(Contained(s, ms))
  BY <1>1 DEF smismember, Reply, Contained
<1> QED
  BY <1>2, <1>3, <1>4, <1>5, <1>6, ListsOfLists, Replies

\* The ranges.
LEMMA RangeLists ==
    ASSUME NEW d, GoodDb(d), NEW k, NEW start \in Int, NEW stop \in Int
    PROVE  /\ lrange(d, k, start, stop) # WrongType => NoHoles(lrange(d, k, start, stop)[2])
           /\ \A w : zrange(d, k, start, stop, w) # WrongType => NoHoles(zrange(d, k, start, stop, w)[2])
<1>1. PICK l, z : l = ContentOf(d, k, "list") /\ z = ContentOf(d, k, "zset") /\ l \in Seq(Bytes) /\ Agree(z)
  BY ContentGood
<1>2. PICK p : p = Trim(l, start, stop) /\ NoHoles(p)
  <2>1. Trim(l, start, stop) \in Seq(Bytes)
    BY <1>1, TrimSeq
  <2> QED
    BY <2>1, SeqsAreLists
<1>3. PICK q : q = Trim(Ranked(z), start, stop) /\ NoHoles(q)
  <2>1. PairSet(z.index)
    BY <1>1, IndexGood
  <2>2. Ranked(z) \in Seq(z.index)
    BY <2>1, OrderedSorts DEF Ranked
  <2>3. Trim(Ranked(z), start, stop) \in Seq(z.index)
    BY <2>2, TrimSeq
  <2> QED
    BY <2>3, SeqsAreLists
<1>4. lrange(d, k, start, stop) # WrongType => lrange(d, k, start, stop) = Ok(p)
  BY <1>1, <1>2 DEF lrange, Reply
<1>5. \A w : zrange(d, k, start, stop, w) # WrongType => zrange(d, k, start, stop, w) = Ok(Listed(q, w))
  BY <1>1, <1>3 DEF zrange, Reply
<1>6. \A w : Listed(q, w) = Swapped(q) \/ Listed(q, w) = MemberList(q)
  BY DEF Listed, MemberList
<1>7. \A w : NoHoles(Listed(q, w))
  BY <1>3, <1>6, ListsOfLists
<1> QED
  BY <1>2, <1>4, <1>5, <1>7, Replies

\* The pages.
LEMMA PageLists ==
    ASSUME NEW d, GoodDb(d), NEW k, NEW n \in Nat
    PROVE  /\ sfirst(d, k, n) # WrongType => NoHoles(sfirst(d, k, n)[2])
           /\ slast(d, k, n) # WrongType => NoHoles(slast(d, k, n)[2])
           /\ hfirst(d, k, n) # WrongType => NoHoles(hfirst(d, k, n)[2])
           /\ hlast(d, k, n) # WrongType => NoHoles(hlast(d, k, n)[2])
           /\ zfirst(d, k, n) # WrongType => NoHoles(zfirst(d, k, n)[2])
           /\ zlast(d, k, n) # WrongType => NoHoles(zlast(d, k, n)[2])
<1>1. PICK s, h, z : /\ s = ContentOf(d, k, "set") /\ h = ContentOf(d, k, "hash") /\ z = ContentOf(d, k, "zset")
                     /\ Members(s) /\ Members(DOMAIN h) /\ Members(DOMAIN z.entries)
  BY ContentGood DEF Fields, Agree, Scores
<1>2. ASSUME NEW S, Members(S) PROVE NoHoles(FirstOf(S, n)) /\ NoHoles(LastOf(S, n))
  <2>1. S \subseteq Int /\ IsFiniteSet(S)
    BY <1>2, MembersInt
  <2>2. FirstOf(S, n) \in Seq(S) /\ LastOf(S, n) \in Seq(S)
    BY <2>1, PagesAre
  <2> QED
    BY <2>2, SeqsAreLists
<1>3. NoHoles(<<>>)
  <2>1. <<>> \in Seq({})
    OBVIOUS
  <2> QED
    BY <2>1, SeqsAreLists

<1>4. sfirst(d, k, n) # WrongType => NoHoles(sfirst(d, k, n)[2])
  <2>1. sfirst(d, k, n) # WrongType => sfirst(d, k, n) = Ok(<<>>) \/ sfirst(d, k, n) = Ok(FirstOf(s, n))
    BY <1>1 DEF sfirst, PageReply, Reply
  <2>2. NoHoles(FirstOf(s, n))
    BY <1>1, <1>2, ListsOfLists
  <2> QED
    BY <1>3, <2>1, <2>2, Replies
<1>5. slast(d, k, n) # WrongType => NoHoles(slast(d, k, n)[2])
  <2>1. slast(d, k, n) # WrongType => slast(d, k, n) = Ok(<<>>) \/ slast(d, k, n) = Ok(LastOf(s, n))
    BY <1>1 DEF slast, PageReply, Reply
  <2>2. NoHoles(LastOf(s, n))
    BY <1>1, <1>2, ListsOfLists
  <2> QED
    BY <1>3, <2>1, <2>2, Replies
<1>6. hfirst(d, k, n) # WrongType => NoHoles(hfirst(d, k, n)[2])
  <2>1. hfirst(d, k, n) # WrongType => hfirst(d, k, n) = Ok(<<>>) \/ hfirst(d, k, n) = Ok(WithValues(h, FirstOf(DOMAIN h, n)))
    BY <1>1 DEF hfirst, PageReply, Reply
  <2>2. NoHoles(WithValues(h, FirstOf(DOMAIN h, n)))
    BY <1>1, <1>2, ListsOfLists
  <2> QED
    BY <1>3, <2>1, <2>2, Replies
<1>7. hlast(d, k, n) # WrongType => NoHoles(hlast(d, k, n)[2])
  <2>1. hlast(d, k, n) # WrongType => hlast(d, k, n) = Ok(<<>>) \/ hlast(d, k, n) = Ok(WithValues(h, LastOf(DOMAIN h, n)))
    BY <1>1 DEF hlast, PageReply, Reply
  <2>2. NoHoles(WithValues(h, LastOf(DOMAIN h, n)))
    BY <1>1, <1>2, ListsOfLists
  <2> QED
    BY <1>3, <2>1, <2>2, Replies
<1>8. zfirst(d, k, n) # WrongType => NoHoles(zfirst(d, k, n)[2])
  <2>1. zfirst(d, k, n) # WrongType => zfirst(d, k, n) = Ok(<<>>) \/ zfirst(d, k, n) = Ok(ByMember(z, FirstOf(DOMAIN z.entries, n)))
    BY <1>1 DEF zfirst, PageReply, Reply
  <2>2. NoHoles(ByMember(z, FirstOf(DOMAIN z.entries, n)))
    BY <1>1, <1>2, ListsOfLists
  <2> QED
    BY <1>3, <2>1, <2>2, Replies
<1>9. zlast(d, k, n) # WrongType => NoHoles(zlast(d, k, n)[2])
  <2>1. zlast(d, k, n) # WrongType => zlast(d, k, n) = Ok(<<>>) \/ zlast(d, k, n) = Ok(ByMember(z, LastOf(DOMAIN z.entries, n)))
    BY <1>1 DEF zlast, PageReply, Reply
  <2>2. NoHoles(ByMember(z, LastOf(DOMAIN z.entries, n)))
    BY <1>1, <1>2, ListsOfLists
  <2> QED
    BY <1>3, <2>1, <2>2, Replies
<1> QED
  BY <1>4, <1>5, <1>6, <1>7, <1>8, <1>9

\* The algebra of two sets.
LEMMA AlgebraLists ==
    ASSUME NEW d, GoodDb(d), NEW k, NEW l, NEW ks, ks = <<k, l>>
    PROVE  /\ sunion(d, ks) # WrongType => NoHoles(sunion(d, ks)[2])
           /\ sinter(d, ks) # WrongType => NoHoles(sinter(d, ks)[2])
           /\ sdiff(d, ks) # WrongType => NoHoles(sdiff(d, ks)[2])
<1>1. PICK A, B : A = ContentOf(d, k, "set") /\ B = ContentOf(d, l, "set") /\ Members(A) /\ Members(B)
  BY ContentGood
<1>3. /\ sunion(d, ks) = IF Refused(d, k, l) THEN WrongType ELSE Ok(Ascending(A \cup B))
      /\ sdiff(d, ks) = IF Refused(d, k, l) THEN WrongType ELSE Ok(Ascending(A \ B))
      /\ sinter(d, ks) = IF Refused(d, k, l) THEN WrongType ELSE Ok(Ascending(A \cap B))
  BY <1>1, TwoReads
<1>5. Members(A \cup B) /\ Members(A \ B) /\ Members(A \cap B)
  <2>1. IsFiniteSet(A \cup B)
    BY <1>1, FS_Union DEF Members
  <2>2. Members(A \cup B)
    BY <1>1, <2>1 DEF Members
  <2> QED
    BY <1>1, <2>2, PartGood
<1>6. NoHoles(Ascending(A \cup B)) /\ NoHoles(Ascending(A \ B)) /\ NoHoles(Ascending(A \cap B))
  BY <1>5, MembersSort, SeqsAreLists
<1> QED
  BY <1>3, <1>6, Replies

-----------------------------------------------------------------------------
(* Scripts of one read. *)

\* The reads that answer with a list.
ListOps == {"smembers", "smismember", "hkeys", "hvals", "lrange", "zrange", "sfirst", "slast",
            "hfirst", "hlast", "zfirst", "zlast", "sunion", "sinter", "sdiff"}

\* The arguments of the reads a script makes.
Shaped(key, c) ==
    /\ c.op \in ScalarReads \cup OptionalReads \cup {"hgetall", "hmget"} \cup ListOps
    /\ c.op = "hgetall" => c.key = key
    /\ c.op \in {"hmget", "smismember"} => c.members \in Seq(Bytes) /\ Len(c.members) = 2
    /\ c.op \in {"zrange", "lrange"} => c.start \in Int /\ c.stop \in Int
    /\ c.op \in {"hfirst", "hlast", "zfirst", "zlast", "sfirst", "slast"} => c.count \in Nat
    /\ c.op \in {"sunion", "sinter", "sdiff"} => \E a : c.keys = <<key, a>>

\* Every read a script makes has such arguments.
LEMMA CommandsShaped ==
    ASSUME NEW key, NEW c \in ReadCommands(key)
    PROVE  Shaped(key, c)
<1> USE DEF ScalarReads, OptionalReads, ListOps
<1>1. ASSUME c \in [op : {"get", "llen", "scard", "hlen", "zcard", "smembers", "hkeys", "hvals", "hgetall"},
                    key : {key}]
      PROVE  Shaped(key, c)
  <2>1. /\ c.op \in {"get", "llen", "scard", "hlen", "zcard", "smembers", "hkeys", "hvals", "hgetall"}
        /\ c.key = key
    BY <1>1
  <2> QED
    BY <2>1 DEF Shaped
<1>2. ASSUME c \in [op : {"hmget", "smismember"}, key : {key}, members : Bytes \X Bytes]
      PROVE  Shaped(key, c)
  <2>1. c.op \in {"hmget", "smismember"} /\ c.members \in Bytes \X Bytes
    BY <1>2
  <2>2. PICK m : m = c.members
    OBVIOUS
  <2>3. m \in Seq(Bytes) /\ Len(m) = 2
    <3>1. PICK a \in Bytes, b \in Bytes : m = <<a, b>>
      BY <2>1, <2>2
    <3> QED
      BY <3>1
  <2> QED
    BY <2>1, <2>2, <2>3 DEF Shaped
<1>3. ASSUME c \in [op : {"hget", "zrank", "zrevrank", "zscore", "sismember", "hexists"}, key : {key},
                    member : Bytes]
      PROVE  Shaped(key, c)
  <2>1. c.op \in {"hget", "zrank", "zrevrank", "zscore", "sismember", "hexists"}
    BY <1>3
  <2> QED
    BY <2>1 DEF Shaped
<1>4. ASSUME c \in [op : {"zrange", "lrange"}, key : {key}, start : {0}, stop : {0, -1}, with_scores : {TRUE}]
      PROVE  Shaped(key, c)
  <2>1. c.op \in {"zrange", "lrange"} /\ c.start \in Int /\ c.stop \in Int
    BY <1>4
  <2> QED
    BY <2>1 DEF Shaped
<1>5. ASSUME c \in [op : {"hfirst", "hlast", "zfirst", "zlast", "sfirst", "slast"}, key : {key}, count : {0, 2}]
      PROVE  Shaped(key, c)
  <2>1. c.op \in {"hfirst", "hlast", "zfirst", "zlast", "sfirst", "slast"} /\ c.count \in Nat
    BY <1>5
  <2> QED
    BY <2>1 DEF Shaped
<1>6. ASSUME c \in [op : {"sunion", "sinter", "sdiff", "sintercard"}, keys : {<<key, a>> : a \in Keys}]
      PROVE  Shaped(key, c)
  <2>1. c.op \in {"sunion", "sinter", "sdiff", "sintercard"} /\ c.keys \in {<<key, a>> : a \in Keys}
    BY <1>6
  <2> QED
    BY <2>1 DEF Shaped
<1> QED
  BY <1>1, <1>2, <1>3, <1>4, <1>5, <1>6 DEF ReadCommands

\* They all answer with a list without holes.
LEMMA AnswersAreLists ==
    ASSUME NEW d, GoodDb(d), NEW key, NEW c, Shaped(key, c), c.op \in ListOps,
           NEW reply, reply = dispatch_read_command(d, c), reply # WrongType
    PROVE  NoHoles(reply[2])
<1>1. CASE c.op \in {"smembers", "hkeys", "hvals"}
  BY <1>1, ListDispatch, KeyLists
<1>2. CASE c.op = "smismember"
  <2>1. NoHoles(c.members)
    BY <1>2, SeqsAreLists DEF Shaped
  <2> QED
    BY <1>2, <2>1, ListDispatch, KeyLists
<1>3. CASE c.op = "lrange"
  <2>1. c.start \in Int /\ c.stop \in Int
    BY <1>3 DEF Shaped
  <2> QED
    BY <1>3, <2>1, ListDispatch, RangeLists
<1>4. CASE c.op = "zrange"
  <2>1. c.start \in Int /\ c.stop \in Int
    BY <1>4 DEF Shaped
  <2>2. reply = zrange(d, c.key, c.start, c.stop, c.with_scores)
    BY <1>4, ListDispatch
  <2> QED
    BY <2>1, <2>2, RangeLists
<1>5. CASE c.op \in {"sfirst", "slast", "hfirst", "hlast", "zfirst", "zlast"}
  <2>1. c.count \in Nat
    BY <1>5 DEF Shaped
  <2> QED
    BY <1>5, <2>1, ListDispatch, PageLists
<1>6. CASE c.op \in {"sunion", "sinter", "sdiff"}
  <2>1. PICK a : c.keys = <<key, a>>
    BY <1>6 DEF Shaped
  <2>2. PICK ks : ks = c.keys
    OBVIOUS
  <2> QED
    BY <1>6, <2>1, <2>2, ListDispatch, AlgebraLists
<1> QED
  BY <1>1, <1>2, <1>3, <1>4, <1>5, <1>6 DEF ListOps

\* The Lua values of the answers, by kind of read.
LEMMA Bindings ==
    ASSUME NEW op, NEW x
    PROVE  /\ op \in ScalarReads => Binding(op, x) = [scalar |-> x]
           /\ op \in OptionalReads => Binding(op, x) = OptionalValue(x)
           /\ op = "hmget" => Binding(op, x) = SparseTable(x)
           /\ op = "hgetall" => Binding(op, x) = FieldTable(x)
           /\ op \in ListOps => Binding(op, x) = ArrayTable(x)
  BY DEF Binding, ScalarReads, OptionalReads, ListOps

\* A value that is no table comes back as it is.
LEMMA ScalarsFromLua ==
    ASSUME NEW x
    PROVE  /\ lua_value_to_term([scalar |-> x]) = {[scalar |-> x]}
           /\ lua_value_to_term([nil |-> TRUE]) = {[nil |-> TRUE]}
<1>1. "array" \notin DOMAIN [scalar |-> x] /\ "array" \notin DOMAIN [nil |-> TRUE]
  OBVIOUS
<1> QED
  BY <1>1 DEF lua_value_to_term

\* What a script gives for an answer.
LuaSays(d, key, op, x, term) ==
    CASE op \in ScalarReads -> term = [scalar |-> x]
      [] op \in OptionalReads -> term = IF x = <<>> THEN [nil |-> TRUE] ELSE [scalar |-> x[1]]
      [] op = "hgetall" -> term = [map |-> [array |-> <<>>, keyed |-> ContentOf(d, key, "hash")]]
      [] op = "hmget" -> <<>> \notin Range(x) => term = [list |-> [i \in DOMAIN x |-> x[i][1]]]
      [] OTHER -> x # <<>> => term = [list |-> x]

\* It is what the property asks for, for every kind of read.
LEMMA LuaHolds ==
    ASSUME NEW d, GoodDb(d), NEW key, NEW c, Shaped(key, c),
           NEW reply, reply = dispatch_read_command(d, c), reply # WrongType,
           NEW term \in lua_value_to_term(Binding(c.op, reply[2]))
    PROVE  LuaSays(d, key, c.op, reply[2], term)
<1>1. PICK x, op : x = reply[2] /\ op = c.op /\ term \in lua_value_to_term(Binding(op, x))
  OBVIOUS
<1> USE DEF ScalarReads, OptionalReads, ListOps
<1>2. CASE op \in ScalarReads
  <2>1. Binding(op, x) = [scalar |-> x]
    BY <1>2, Bindings
  <2>2. term = [scalar |-> x]
    BY <1>1, <2>1, ScalarsFromLua
  <2> QED
    BY <1>1, <1>2, <2>2 DEF LuaSays
<1>3. CASE op \in OptionalReads
  <2>1. Binding(op, x) = OptionalValue(x)
    BY <1>3, Bindings
  <2>2. term = IF x = <<>> THEN [nil |-> TRUE] ELSE [scalar |-> x[1]]
    BY <1>1, <2>1, ScalarsFromLua DEF OptionalValue
  <2> QED
    BY <1>1, <1>3, <2>2 DEF LuaSays
<1>4. CASE op = "hgetall"
  <2>1. PICK h : h = ContentOf(d, key, "hash") /\ Fields(h)
    BY ContentGood
  <2>2. reply = hgetall(d, key)
    BY <1>1, <1>4, ListDispatch DEF Shaped
  <2>3. x = WithValues(h, Ascending(DOMAIN h))
    BY <1>1, <2>1, <2>2, Replies DEF hgetall, Reply
  <2>4. Binding(op, x) = FieldTable(x)
    BY <1>4, Bindings
  <2>5. term = [map |-> [array |-> <<>>, keyed |-> h]]
    BY <1>1, <2>1, <2>3, <2>4, FieldsFromLua
  <2> QED
    BY <1>1, <1>4, <2>1, <2>5 DEF LuaSays
<1>5. CASE op = "hmget"
  <2>1. PICK ms : ms = c.members /\ ms \in Seq(Bytes) /\ Len(ms) = 2
    BY <1>1, <1>5 DEF Shaped
  <2>2. reply = hmget(d, c.key, ms)
    BY <1>1, <1>5, <2>1, ListDispatch
  <2>3. PICK h : h = ContentOf(d, c.key, "hash")
    OBVIOUS
  <2>4. x = LookedUp(h, ms)
    BY <1>1, <2>2, <2>3, Replies DEF hmget, Reply, LookedUp
  <2>5. NoHoles(x)
    BY <2>1, <2>4, SeqsAreLists, ListsOfLists
  <2>6. x # <<>>
    <3>1. DOMAIN x = 1 .. 2
      BY <2>1, <2>4 DEF LookedUp
    <3>2. 1 \in 1 .. 2 /\ DOMAIN <<>> = {}
      OBVIOUS
    <3> QED
      BY <3>1, <3>2
  <2>7. Binding(op, x) = SparseTable(x)
    BY <1>5, Bindings
  <2>8. <<>> \notin Range(x) => term = [list |-> [i \in DOMAIN x |-> x[i][1]]]
    BY <1>1, <2>5, <2>6, <2>7, SparseFromLua
  <2> QED
    BY <1>1, <1>5, <2>8 DEF LuaSays
<1>6. CASE op \in ListOps
  <2>1. Binding(op, x) = ArrayTable(x)
    BY <1>6, Bindings
  <2>2. NoHoles(x)
    BY <1>1, <1>6, AnswersAreLists
  <2>3. x # <<>> => term = [list |-> x]
    BY <1>1, <2>1, <2>2, ListFromLua
  <2> QED
    BY <1>1, <1>6, <2>3 DEF LuaSays
<1> QED
  BY <1>1, <1>2, <1>3, <1>4, <1>5, <1>6 DEF Shaped

\* A script that returns the value of one ts function gives what the direct
\* read gives, but for a map for HGETALL, an empty map for an empty list and a
\* list with missing values, in every state of the storage.
THEOREM StorageLuaMatchesReads == Spec => []LuaMatchesReads
<1>1. ASSUME MapOK(map), NEW db \in Dbs, NEW key \in Keys, NEW c \in ReadCommands(key),
             NEW term \in tx(map, db, c), NEW reply, reply = dispatch_read_command(map[db], c)
      PROVE  IF reply = WrongType THEN term = [error |-> TRUE]
             ELSE LuaSays(map[db], key, c.op, reply[2], term)
  <2>1. BindingCommand(c) = c
    BY BindingSame
  <2>2. tx(map, db, c) = IF reply = WrongType THEN {[error |-> TRUE]}
                         ELSE lua_value_to_term(Binding(c.op, reply[2]))
    BY <1>1, <2>1 DEF tx
  <2>3. CASE reply = WrongType
    BY <2>2, <2>3
  <2>4. CASE reply # WrongType
    <3>1. GoodDb(map[db])
      BY <1>1 DEF MapOK
    <3>2. Shaped(key, c)
      BY CommandsShaped
    <3>3. term \in lua_value_to_term(Binding(c.op, reply[2]))
      BY <2>2, <2>4
    <3> QED
      BY <1>1, <2>4, <3>1, <3>2, <3>3, LuaHolds
  <2> QED
    BY <2>3, <2>4
<1>2. MapOK(map) => LuaMatchesReads
  BY <1>1 DEF LuaMatchesReads, LuaSays
<1> QED
  BY <1>2, StorageInductive, PTL
=============================================================================
