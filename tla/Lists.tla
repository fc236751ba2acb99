------------------------------- MODULE Lists -------------------------------
(***************************************************************************)
(* What the list commands do to one list (storage/lists.rs), written the   *)
(* way the code computes it: scans with a counter, indices clamped into    *)
(* the list, one pop or push after another.  A list is a sequence; the     *)
(* code's positions count from 0.                                          *)
(***************************************************************************)
EXTENDS Integers, Sequences, SequencesExt

\* push_front of each value in turn: the last one becomes the head.
PushFront(l, values) == Reverse(values) \o l

\* push_back of each value in turn.
PushBack(l, values) == l \o values

\* Remove up to count elements from the front.
SkipFront(l, count) == SubSeq(l, 1 + Min({count, Len(l)}), Len(l))

\* Remove up to count elements from the back.
DropBack(l, count) == SubSeq(l, 1, Len(l) - Min({count, Len(l)}))

\* How many numbers of the set are smaller.
Below(s, x) == Cardinality({y \in s : y < x})

\* The numbers of a set in ascending order: the i-th one has i - 1 below it.
Ascending(s) == [i \in 1 .. Cardinality(s) |-> CHOOSE x \in s : Below(s, x) = i - 1]

\* The first count elements, or all there are.
TakeFront(l, count) == SubSeq(l, 1, Min({count, Len(l)}))

\* The position an index stands for, a negative one counting from the end;
\* one outside of the list is taken for its nearest end.
Clamp(len, i) == IF i < 0 THEN Max({len + i, 0}) ELSE Max({Min({i, len - 1}), 0})

\* The part of the list between two indices, both inclusive.
Trim(l, start, stop) ==
    LET startPos == Clamp(Len(l), start)
        stopPos == Clamp(Len(l), stop)
    IN IF l = <<>> \/ startPos > stopPos THEN <<>> ELSE SubSeq(l, startPos + 1, stopPos + 1)

\* Slip for RemovalsMatch: one occurrence too many.
VisitOneMore(acc, item, limit, value) ==
    IF acc.removed <= limit /\ item = value
    THEN [kept |-> acc.kept, removed |-> acc.removed + 1]
    ELSE [kept |-> Append(acc.kept, item), removed |-> acc.removed]

\* One element of a scan that leaves out the first limit elements equal to value.
Visit(acc, item, limit, value) ==
    IF acc.removed < limit /\ item = value
    THEN [kept |-> acc.kept, removed |-> acc.removed + 1]
    ELSE [kept |-> Append(acc.kept, item), removed |-> acc.removed]

\* The whole scan.
ScanOut(l, limit, value) ==
    LET scan[n \in 0 .. Len(l)] ==
          IF n = 0 THEN [kept |-> <<>>, removed |-> 0] ELSE Visit(scan[n - 1], l[n], limit, value)
    IN scan[Len(l)].kept

\* LREM: every occurrence, or the first or the last |count| of them.
Rem(l, count, value) ==
    IF count = 0 THEN ScanOut(l, Len(l), value)
    ELSE IF count > 0 THEN ScanOut(l, count, value)
    ELSE Reverse(ScanOut(Reverse(l), -count, value))

\* LINSERT: beside the first occurrence of the pivot, if there is one.
Insert(l, before, pivot, value) ==
    LET hits == {i \in DOMAIN l : l[i] = pivot}
    IN IF hits = {} THEN l
       ELSE InsertAt(l, Min(hits) + (IF before THEN 0 ELSE 1), value)

\* LSET: nothing happens when the index is outside of the list.
Update(l, index, value) ==
    LET pos == IF index < 0 THEN Len(l) + index ELSE index
    IN IF pos \in 0 .. Len(l) - 1 THEN [l EXCEPT ![pos + 1] = value] ELSE l

(***************************************************************************)
(* The same, said of positions instead of computed.                        *)
(***************************************************************************)
Selection(l, kept) == [n \in DOMAIN Ascending(kept) |-> l[Ascending(kept)[n]]]

\* The elements whose position lies between the two indices.
TrimmedList(l, start, stop) ==
    LET At(i) == IF i < 0 THEN Len(l) + i ELSE i
    IN Selection(l, {i \in DOMAIN l : At(start) <= i - 1 /\ i - 1 <= At(stop)})

\* An element stays unless it equals value and fewer than |count| equal ones
\* lie on the side the removal starts from.
ListWithout(l, count, value) ==
    LET Earlier(i) == {j \in DOMAIN l : l[j] = value /\ (IF count > 0 THEN j < i ELSE j > i)}
        Kept(i) == l[i] = value =>
                      count # 0 /\ Cardinality(Earlier(i)) >= (IF count > 0 THEN count ELSE -count)
    IN Selection(l, {i \in DOMAIN l : Kept(i)})
=============================================================================
