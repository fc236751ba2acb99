------------------------------- MODULE ZSets -------------------------------
(***************************************************************************)
(* What the sorted-set commands do to one sorted set (storage/zsets.rs).   *)
(* A sorted set keeps the same facts twice, an ordered index of            *)
(* <<score, member>> and a map from members to scores, and every command   *)
(* updates the two by separate steps.  Members are naturals, ordered as    *)
(* the byte strings they stand for are; scores are integers.               *)
(***************************************************************************)
EXTENDS Integers, Sequences, SequencesExt, FiniteSetsExt, Functions, Lists

EmptyZSet == [index |-> {}, entries |-> <<>>]

\* ZSetIndexKey's order: by score, then by member.
IndexLess(p, q) == p[1] < q[1] \/ (p[1] = q[1] /\ p[2] < q[2])

\* The number of pairs of the set that come before the pair in the index.
Rank(pairs, p) == Cardinality({q \in pairs : IndexLess(q, p)})

\* Pairs in the order of the index: the position of a pair is its rank plus one.
Ordered(pairs) ==
    [i \in 1 .. Cardinality(pairs) |-> CHOOSE p \in pairs : Rank(pairs, p) = i - 1]

Ranked(z) == Ordered(z.index)

SetEntry(entries, member, score) ==
    [m \in DOMAIN entries \cup {member} |-> IF m = member THEN score ELSE entries[m]]

\* Insertion into the map and, under the given score, into the index.
PutMember(z, member, score) ==
    [index |-> z.index \cup {<<score, member>>}, entries |-> SetEntry(z.entries, member, score)]

\* Slip for ZIndexMatchesEntries: the old index key stays.
KeepIndexKey(z, member) == z

\* Removal of the old index key of a member that is about to be put again.
DropIndexKey(z, member) ==
    IF member \in DOMAIN z.entries
    THEN [z EXCEPT !.index = @ \ {<<z.entries[member], member>>}]
    ELSE z

\* Removal from the map and from the index, pair by pair.
DropPairs(z, pairs) ==
    [index |-> z.index \ pairs,
     entries |-> Restrict(z.entries, DOMAIN z.entries \ {p[2] : p \in pairs})]

PairsOf(z, members) == {<<z.entries[m], m>> : m \in members \cap DOMAIN z.entries}

\* One score and member of a ZADD; options is the set of its flags.
AddMember(z, options, score, member) ==
    LET exists == member \in DOMAIN z.entries
        final == IF "incr" \in options /\ exists THEN z.entries[member] + score ELSE score
        skip == \/ "nx" \in options /\ exists
                \/ "xx" \in options /\ ~exists
                \/ exists /\ "gt" \in options /\ final <= z.entries[member]
                \/ exists /\ "lt" \in options /\ final >= z.entries[member]
    IN IF skip THEN z ELSE PutMember(DropIndexKey(z, member), member, final)

\* The option checks that come before ZADD touches the storage.
AddRejected(options, scored) ==
    \/ {"nx", "xx"} \subseteq options
    \/ "nx" \in options /\ options \cap {"gt", "lt"} # {}
    \/ "incr" \in options /\ Len(scored) # 1

AddMembers(z, options, scored) ==
    LET after[n \in 0 .. Len(scored)] ==
          IF n = 0 THEN z ELSE AddMember(after[n - 1], options, scored[n][1], scored[n][2])
    IN after[Len(scored)]

\* ZINCRBY: a member that is not there counts from 0.
IncrMember(z, delta, member) ==
    LET old == IF member \in DOMAIN z.entries THEN z.entries[member] ELSE 0
    IN PutMember(DropIndexKey(z, member), member, old + delta)

\* pop_last, count times or until nothing is left.
PopMax(z, count) ==
    DropPairs(z, {p \in z.index : Rank(z.index, p) >= Cardinality(z.index) - count})

\* pop_first, count times or until nothing is left.
PopMin(z, count) == DropPairs(z, {p \in z.index : Rank(z.index, p) < count})

\* range_idx between the clamped ranks.
RemRangeByRank(z, start, stop) ==
    LET len == Cardinality(z.index)
    IN DropPairs(z, {p \in z.index : Rank(z.index, p) \in Clamp(len, start) .. Clamp(len, stop)})

\* Bound<T>: a bound is <<"unbounded">>, <<"included", x>> or <<"excluded", x>>.
AboveMin(min, x) ==
    CASE min[1] = "unbounded" -> TRUE
      [] min[1] = "included" -> x >= min[2]
      [] min[1] = "excluded" -> x > min[2]

BelowMax(max, x) ==
    CASE max[1] = "unbounded" -> TRUE
      [] max[1] = "included" -> x <= max[2]
      [] max[1] = "excluded" -> x < max[2]

\* The pairs of the index from the first key with the lower score to the last
\* one with the upper score, filtered by what the bounds really say.
PairsByScore(z, min, max) ==
    {p \in z.index : AboveMin(min, p[1]) /\ BelowMax(max, p[1])}

\* The entries between two members; only the map is consulted.
PairsByLex(z, min, max) ==
    PairsOf(z, {m \in DOMAIN z.entries : AboveMin(min, m) /\ BelowMax(max, m)})

RemRangeByScore(z, min, max) == DropPairs(z, PairsByScore(z, min, max))

RemRangeByLex(z, min, max) == DropPairs(z, PairsByLex(z, min, max))

\* A fresh sorted set, filled member by member.
FromEntries(f) == [index |-> {<<f[m], m>> : m \in DOMAIN f}, entries |-> f]

FromPairs(pairs) ==
    [index |-> pairs, entries |-> [m \in {p[2] : p \in pairs} |-> (CHOOSE p \in pairs : p[2] = m)[1]]]

Aggregated(aggregate, scores) ==
    CASE aggregate = "sum" ->
            LET total[n \in 0 .. Len(scores)] == IF n = 0 THEN 0 ELSE total[n - 1] + scores[n]
            IN total[Len(scores)]
      [] aggregate = "min" -> Min(Range(scores))
      [] aggregate = "max" -> Max(Range(scores))

\* The weighted scores one member has in the sources, in their order; a weight
\* that is not given is 1.
WeightedScores(sources, weights, member) ==
    LET with == Ascending({i \in DOMAIN sources : member \in DOMAIN sources[i].entries})
        Weight(i) == IF i \in DOMAIN weights THEN weights[i] ELSE 1
    IN [n \in DOMAIN with |-> sources[with[n]].entries[member] * Weight(with[n])]

CombineZSets(sources, weights, aggregate, members) ==
    FromEntries([m \in members |-> Aggregated(aggregate, WeightedScores(sources, weights, m))])

MembersOf(sources) == {DOMAIN sources[i].entries : i \in DOMAIN sources}

UnionZSets(sources, weights, aggregate) ==
    CombineZSets(sources, weights, aggregate, UNION MembersOf(sources))

InterZSets(sources, weights, aggregate) ==
    CombineZSets(sources, weights, aggregate,
        {m \in DOMAIN sources[1].entries : \A s \in MembersOf(sources) : m \in s})

DiffZSets(sources) ==
    FromEntries(Restrict(sources[1].entries,
        DOMAIN sources[1].entries \ UNION MembersOf(Tail(sources))))

\* LIMIT offset count on the pairs selected, given the position of each.
ApplyLimit(position, limit) ==
    IF limit = <<>> THEN DOMAIN position
    ELSE LET first == Max({limit[1], 0})
             count == Max({limit[2], 0})
         IN {p \in DOMAIN position : position[p] \in first .. first + count - 1}

\* What ZRANGESTORE selects: by member, by score or by rank, in that order; REV
\* turns the selection round before LIMIT is applied.
RangeZSet(z, by, min, max, rev, limit) ==
    LET len == Cardinality(z.index)
        start == IF min < 0 THEN Max({len + min, 0}) ELSE Min({min, len})
        stop == IF max < 0 THEN Max({len + max, 0}) ELSE Min({max, len - 1})
        selected ==
          CASE by = "lex" -> PairsByLex(z, min, max)
            [] by = "score" -> PairsByScore(z, min, max)
            [] by = "rank" -> {p \in z.index : Rank(z.index, p) \in start .. stop}
        Less(p, q) == IF by = "lex" THEN p[2] < q[2] ELSE IndexLess(p, q)
        Precedes(p, q) == IF rev THEN Less(q, p) ELSE Less(p, q)
        position == [p \in selected |-> Cardinality({q \in selected : Precedes(q, p)})]
    IN FromPairs(ApplyLimit(position, limit))
=============================================================================
