--------------------------- MODULE MailboxLemmas ---------------------------
(***************************************************************************)
(* What the operations on a mailbox do to the messages in it.  A mailbox   *)
(* is a sequence; a proof seldom cares where a message is, only whether it *)
(* is there.                                                               *)
(***************************************************************************)
EXTENDS Naturals, Sequences, SequencesExt, TLAPS, WellFoundedInduction, NaturalsInduction

\* The mailbox box holds message m.
In(box, m) == \E k \in 1..Len(box) : box[k] = m

\* Every message of new is a message of old, each at a place of its own.
Within(new, old) ==
    \E at \in [1..Len(new) -> 1..Len(old)] :
       /\ \A k \in 1..Len(new) : new[k] = old[at[k]]
       /\ \A k, l \in 1..Len(new) : at[k] = at[l] => k = l

\* A non-empty set of numbers has a smallest one.
LEMMA LeastNumber ==
    ASSUME NEW T \in SUBSET Nat, T # {}
    PROVE  /\ Min(T) \in T
           /\ \A n \in T : Min(T) <= n
<1>1. PICK x \in T : \A y \in T : ~ (<<y, x>> \in OpToRel(<, Nat))
  BY NatLessThanWellFounded, WFMin, Zenon
<1>2. \A y \in T : ~(y < x)
  BY <1>1, Zenon DEF OpToRel
<1>3. \E z \in T : \A y \in T : z <= y
  BY <1>2
<1> QED
  BY <1>3 DEF Min

\* Receiving takes the oldest message and keeps the others in their order.
LEMMA TailIn ==
    ASSUME NEW S, NEW box \in Seq(S), box # <<>>
    PROVE  /\ Head(box) \in S
           /\ Tail(box) \in Seq(S)
           /\ In(box, Head(box)) /\ Within(Tail(box), box)
           /\ \A m : In(Tail(box), m) => In(box, m)
           /\ \A m : In(box, m) /\ m # Head(box) => In(Tail(box), m)
<1>1. /\ Tail(box) \in Seq(S) /\ Len(Tail(box)) = Len(box) - 1 /\ Len(box) \in Nat
      /\ Len(box) >= 1 /\ Head(box) = box[1] /\ box[1] \in S
  OBVIOUS
<1>2. \A k \in 1..Len(Tail(box)) : k + 1 \in 1..Len(box) /\ Tail(box)[k] = box[k + 1]
  BY <1>1
<1>3. \A k \in 1..Len(box) : k # 1 => k - 1 \in 1..Len(Tail(box)) /\ Tail(box)[k - 1] = box[k]
  BY <1>1
<1>4. Within(Tail(box), box)
  <2> DEFINE at == [k \in 1..Len(Tail(box)) |-> k + 1]
  <2>1. at \in [1..Len(Tail(box)) -> 1..Len(box)]
    BY <1>2
  <2>2. \A k \in 1..Len(Tail(box)) : Tail(box)[k] = box[at[k]]
    BY <1>2
  <2>3. \A k, l \in 1..Len(Tail(box)) : at[k] = at[l] => k = l
    OBVIOUS
  <2> QED
    BY <2>1, <2>2, <2>3, Zenon DEF Within
<1>5. \A m : In(Tail(box), m) => In(box, m)
  BY <1>2 DEF In
<1>6. \A m : In(box, m) /\ m # Head(box) => In(Tail(box), m)
  BY <1>1, <1>3 DEF In
<1>7. In(box, Head(box))
  BY <1>1 DEF In
<1> QED
  BY <1>1, <1>4, <1>5, <1>6, <1>7, Zenon

\* Sending adds one message behind the others.
LEMMA AppendIn ==
    ASSUME NEW S, NEW box \in Seq(S), NEW new \in S
    PROVE  /\ Append(box, new) \in Seq(S)
           /\ \A m : In(Append(box, new), m) <=> In(box, m) \/ m = new
<1>1. /\ Append(box, new) \in Seq(S) /\ Len(Append(box, new)) = Len(box) + 1
      /\ Len(box) \in Nat /\ Append(box, new)[Len(box) + 1] = new
  OBVIOUS
<1>2. \A k \in 1..Len(box) : Append(box, new)[k] = box[k]
  OBVIOUS
<1>3. \A k \in 1..Len(Append(box, new)) : k \in 1..Len(box) \/ k = Len(box) + 1
  BY <1>1
<1> QED
  BY <1>1, <1>2, <1>3 DEF In

\* The messages of two mailboxes in a row.
LEMMA ConcatFacts ==
    ASSUME NEW S, NEW f \in Seq(S), NEW b \in Seq(S)
    PROVE  /\ f \o b \in Seq(S)
           /\ Len(f \o b) = Len(f) + Len(b)
           /\ \A k \in 1..Len(f) : (f \o b)[k] = f[k]
           /\ \A k \in 1..(Len(f) + Len(b)) : k > Len(f) => (f \o b)[k] = b[k - Len(f)]
  OBVIOUS

\* Where the messages of a mailbox are after one of them has been taken out.
LEMMA RemoveAtFacts ==
    ASSUME NEW S, NEW box \in Seq(S), NEW i \in 1..Len(box)
    PROVE  /\ RemoveAt(box, i) \in Seq(S)
           /\ Len(RemoveAt(box, i)) = Len(box) - 1
           /\ \A k \in 1..Len(box) - 1 :
                 RemoveAt(box, i)[k] = IF k < i THEN box[k] ELSE box[k + 1]
<1> DEFINE front == SubSeq(box, 1, i - 1)
           back == SubSeq(box, i + 1, Len(box))
<1>1. front \in Seq(S) /\ Len(front) = i - 1 /\ \A k \in 1..(i - 1) : front[k] = box[k]
  OBVIOUS
<1>2. /\ back \in Seq(S) /\ Len(back) = Len(box) - i
      /\ \A k \in 1..(Len(box) - i) : back[k] = box[i + k]
  OBVIOUS
<1> HIDE DEF front, back
<1>3. /\ front \o back \in Seq(S)
      /\ Len(front \o back) = Len(front) + Len(back)
      /\ \A k \in 1..Len(front) : (front \o back)[k] = front[k]
      /\ \A k \in 1..(Len(front) + Len(back)) :
            k > Len(front) => (front \o back)[k] = back[k - Len(front)]
  BY <1>1, <1>2, ConcatFacts
<1>4. Len(front \o back) = Len(box) - 1
  BY <1>1, <1>2, <1>3
<1>5. ASSUME NEW k \in 1..Len(box) - 1
      PROVE  (front \o back)[k] = IF k < i THEN box[k] ELSE box[k + 1]
  <2>0. k \in Nat /\ i \in Nat
    OBVIOUS
  <2>1. CASE k < i
    BY <2>1, <1>1, <1>3
  <2>2. CASE ~(k < i)
    <3>1. /\ k \in 1..(Len(front) + Len(back)) /\ k > Len(front)
          /\ k - Len(front) \in 1..(Len(box) - i) /\ i + (k - Len(front)) = k + 1
      BY <2>0, <2>2, <1>1, <1>2
    <3>2. (front \o back)[k] = back[k - Len(front)]
      BY <3>1, <1>3
    <3>3. back[k - Len(front)] = box[k + 1]
      BY <1>2, <3>1
    <3> QED
      BY <2>0, <2>2, <3>2, <3>3
  <2> QED
    BY <2>1, <2>2, Zenon
<1> QED
  BY <1>3, <1>4, <1>5 DEF RemoveAt, front, back

\* demonitor with :flush takes a message out, and no other.
LEMMA RemoveFirstIn ==
    ASSUME NEW S, NEW box \in Seq(S), NEW e
    PROVE  /\ RemoveFirst(box, e) \in Seq(S)
           /\ Within(RemoveFirst(box, e), box)
           /\ \A m : In(RemoveFirst(box, e), m) => In(box, m)
           /\ \A m : In(box, m) /\ m # e => In(RemoveFirst(box, e), m)
<1>1. CASE ~\E i \in 1..Len(box) : box[i] = e
  <2>1. RemoveFirst(box, e) = box
    BY <1>1 DEF RemoveFirst
  <2>2. Within(box, box)
    <3> DEFINE at == [k \in 1..Len(box) |-> k]
    <3>1. at \in [1..Len(box) -> 1..Len(box)]
      OBVIOUS
    <3>2. \A k \in 1..Len(box) : box[k] = box[at[k]]
      OBVIOUS
    <3>3. \A k, l \in 1..Len(box) : at[k] = at[l] => k = l
      OBVIOUS
    <3> QED
      BY <3>1, <3>2, <3>3, Zenon DEF Within
  <2> QED
    BY <2>1, <2>2, Zenon
<1>2. CASE \E i \in 1..Len(box) : box[i] = e
  <2> DEFINE I == {i \in 1..Len(box) : box[i] = e}
             i == Min(I)
  <2>1. i \in 1..Len(box) /\ box[i] = e
    <3>1. I \in SUBSET Nat /\ I # {}
      BY <1>2
    <3>2. i \in I
      BY <3>1, LeastNumber
    <3> QED
      BY <3>2
  <2>2. RemoveFirst(box, e) = RemoveAt(box, i)
    BY <1>2 DEF RemoveFirst, SelectInSeq
  <2> HIDE DEF I, i
  <2>3. /\ RemoveAt(box, i) \in Seq(S)
        /\ Len(RemoveAt(box, i)) = Len(box) - 1
        /\ \A k \in 1..Len(box) - 1 :
              RemoveAt(box, i)[k] = IF k < i THEN box[k] ELSE box[k + 1]
    BY <2>1, RemoveAtFacts
  <2>4. ASSUME NEW m, In(RemoveAt(box, i), m)
        PROVE  In(box, m)
    BY <2>4, <2>3, <2>1 DEF In
  <2>5. ASSUME NEW m, In(box, m), m # e
        PROVE  In(RemoveAt(box, i), m)
    <3>1. PICK k \in 1..Len(box) : box[k] = m
      BY <2>5 DEF In
    <3>2. k # i
      BY <3>1, <2>1, <2>5
    <3>3. CASE k < i
      <4>1. k \in 1..Len(box) - 1 /\ RemoveAt(box, i)[k] = m
        BY <3>3, <3>1, <2>1, <2>3
      <4> QED
        BY <4>1, <2>3 DEF In
    <3>4. CASE k > i
      <4>1. k - 1 \in 1..Len(box) - 1 /\ ~(k - 1 < i) /\ (k - 1) + 1 = k
        BY <3>4, <2>1
      <4>2. RemoveAt(box, i)[k - 1] = m
        BY <4>1, <2>3, <3>1
      <4> QED
        BY <4>1, <4>2, <2>3 DEF In
    <3> QED
      BY <3>2, <3>3, <3>4, <2>1
  <2>6. Within(RemoveAt(box, i), box)
    <3> DEFINE at == [k \in 1..Len(RemoveAt(box, i)) |-> IF k < i THEN k ELSE k + 1]
    <3>1. at \in [1..Len(RemoveAt(box, i)) -> 1..Len(box)]
      BY <2>1, <2>3
    <3>2. \A k \in 1..Len(RemoveAt(box, i)) : RemoveAt(box, i)[k] = box[at[k]]
      BY <2>3
    <3>3. \A k, l \in 1..Len(RemoveAt(box, i)) : at[k] = at[l] => k = l
      BY <2>1
    <3> QED
      BY <3>1, <3>2, <3>3 DEF Within
  <2> QED
    BY <2>2, <2>3, <2>4, <2>5, <2>6
<1> QED
  BY <1>1, <1>2
=============================================================================
