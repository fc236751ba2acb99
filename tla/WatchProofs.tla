----------------------------- MODULE WatchProofs ----------------------------
(***************************************************************************)
(* The watches for any processes, keys and prefixes: the coupled maps, the *)
(* radix tree and the monitors stay in step, lookup_prefix finds what it   *)
(* should, nothing is left behind, and all of it together implements one   *)
(* set of subscriptions.                                                   *)
(*                                                                         *)
(* The argument turns on two descriptions.  The tree is what inserting the *)
(* prefix watches into an empty one would give: its nodes are those on the *)
(* path to a watched prefix, and a node holds the indices of its watchers. *)
(* And the mailbox holds DOWN messages of dead processes only, so that     *)
(* delete_all never takes a watch away from a process that lives.          *)
(***************************************************************************)
EXTENDS Watch, MailboxLemmas, FiniteSetTheorems

----------------------------------------------------------------------------
(* The inductive invariant, in terms of what the variables hold *)

\* A map from names and processes to references, and its inverse from
\* processes to the finite, non-empty sets of their names.
Coupled(f, g, names) ==
    /\ DOMAIN f \subseteq names \X Pids
    /\ \A x \in DOMAIN f : f[x] \in Refs
    /\ DOMAIN g \subseteq Pids
    /\ \A p \in DOMAIN g : g[p] # {} /\ IsFiniteSet(g[p])
    /\ \A p \in Pids : Get(g, p) = {n \in names : <<n, p>> \in DOMAIN f}

\* The processes ps have an index of their own each, below last.
Indexed(ix, byIdx, ps, last) ==
    /\ last \in Nat
    /\ DOMAIN ix = ps /\ DOMAIN byIdx \subseteq 1..last
    /\ \A p \in ps : ix[p] \in DOMAIN byIdx /\ byIdx[ix[p]] = p
    /\ \A i \in DOMAIN byIdx : byIdx[i] \in ps /\ ix[byIdx[i]] = i

\* The nodes on the paths to the names of the watches ws.
Paths(ws) == UNION {Above(x[1]) : x \in ws}

\* The processes that watch name m among the watches ws.
Watchers(m, ws) == {q \in Pids : <<m, q>> \in ws}

\* The radix tree that has the watches ws inserted, and nothing else.
TreeOf(t, ws, ix) ==
    /\ DOMAIN t = Paths(ws)
    /\ \A m \in DOMAIN t : t[m] = {ix[q] : q \in Watchers(m, ws)}

\* Only the dead are reported, and every dead process with a monitor is.
Told(box, mons, living) ==
    /\ box \in Seq(Messages) /\ mons \subseteq Pids /\ living \subseteq Pids
    /\ \A p \in Pids : In(box, Down(p)) => p \notin living
    /\ \A p \in mons \ living : In(box, Down(p))

WInv ==
    /\ Coupled(key_to_pids, pid_to_keys, DbKeys)
    /\ Coupled(prefix_to_pids, pid_to_prefixes, DbPrefixes)
    /\ Indexed(idx_by_pid, pid_by_idx, DOMAIN pid_to_prefixes, issued)
    /\ TreeOf(tree, DOMAIN prefix_to_pids, idx_by_pid)
    /\ Told(inbox, monitors, alive)
    /\ monitors = DOMAIN pid_to_keys \cup DOMAIN pid_to_prefixes

----------------------------------------------------------------------------
(* The coupled maps *)

\* Watch.add and add_prefix keep a map and its inverse in step.
LEMMA CoupledAdd ==
    ASSUME NEW f, NEW g, NEW names, Coupled(f, g, names),
           NEW p \in Pids, NEW n \in names, NEW r \in Refs, <<n, p>> \notin DOMAIN f
    PROVE  /\ Coupled(Put(f, <<n, p>>, r), Put(g, p, Get(g, p) \cup {n}), names)
           /\ DOMAIN Put(g, p, Get(g, p) \cup {n}) = DOMAIN g \cup {p}
<1>1. PICK f2 : f2 = Put(f, <<n, p>>, r)
  OBVIOUS
<1>2. PICK g2 : g2 = Put(g, p, Get(g, p) \cup {n})
  OBVIOUS
<1>3. /\ DOMAIN f2 = DOMAIN f \cup {<<n, p>>} /\ f2[<<n, p>>] = r
      /\ \A y \in DOMAIN f : f2[y] = f[y]
  BY <1>1 DEF Put
<1>4. /\ DOMAIN g2 = DOMAIN g \cup {p} /\ g2[p] = Get(g, p) \cup {n}
      /\ \A q \in DOMAIN g : q # p => g2[q] = g[q]
  BY <1>2 DEF Put
<1>5. IsFiniteSet(Get(g, p) \cup {n})
  <2>1. IsFiniteSet(Get(g, p))
    BY FS_EmptySet DEF Coupled, Get
  <2> QED
    BY <2>1, FS_AddElement
<1>6. \A q \in DOMAIN g2 : g2[q] # {} /\ IsFiniteSet(g2[q])
  BY <1>4, <1>5 DEF Coupled
<1>7. ASSUME NEW q \in Pids
      PROVE  Get(g2, q) = {k \in names : <<k, q>> \in DOMAIN f2}
  <2>1. Get(g, q) = {k \in names : <<k, q>> \in DOMAIN f}
    BY DEF Coupled
  <2>2. CASE q = p
    BY <2>1, <2>2, <1>3, <1>4 DEF Get
  <2>3. CASE q # p
    BY <2>1, <2>3, <1>3, <1>4 DEF Get
  <2> QED
    BY <2>2, <2>3
<1>8. DOMAIN f2 \subseteq names \X Pids /\ \A x \in DOMAIN f2 : f2[x] \in Refs
  BY <1>3 DEF Coupled
<1>9. Coupled(f2, g2, names)
  BY <1>4, <1>6, <1>7, <1>8 DEF Coupled
<1> QED
  BY <1>1, <1>2, <1>4, <1>9

\* Watch.delete and delete_prefix do, too.
LEMMA CoupledDelete ==
    ASSUME NEW f, NEW g, NEW names, Coupled(f, g, names),
           NEW p \in Pids, NEW n \in names, <<n, p>> \in DOMAIN f
    PROVE  Coupled(Drop(f, {<<n, p>>}), Without(g, p, n), names)
<1>1. PICK f2 : f2 = Drop(f, {<<n, p>>})
  OBVIOUS
<1>2. PICK g2 : g2 = Without(g, p, n)
  OBVIOUS
<1>3. p \in DOMAIN g /\ n \in g[p]
  BY DEF Coupled, Get
<1>4. DOMAIN f2 = DOMAIN f \ {<<n, p>>} /\ \A y \in DOMAIN f2 : f2[y] = f[y]
  BY <1>1 DEF Drop
<1>5. /\ Get(g2, p) = g[p] \ {n}
      /\ DOMAIN g2 = IF g[p] \ {n} = {} THEN DOMAIN g \ {p} ELSE DOMAIN g
      /\ \A q \in DOMAIN g : q # p => g2[q] = g[q]
  <2>1. CASE g[p] = {n}
    BY <1>2, <1>3, <2>1 DEF Without, Drop, Get
  <2>2. CASE g[p] # {n}
    BY <1>2, <1>3, <2>2 DEF Without, Get
  <2> QED
    BY <2>1, <2>2
<1>6. IsFiniteSet(g[p] \ {n})
  BY <1>3, FS_RemoveElement DEF Coupled
<1>7. \A q \in DOMAIN g2 : g2[q] # {} /\ IsFiniteSet(g2[q])
  BY <1>5, <1>6 DEF Coupled, Get
<1>8. ASSUME NEW q \in Pids
      PROVE  Get(g2, q) = {k \in names : <<k, q>> \in DOMAIN f2}
  <2>1. Get(g, q) = {k \in names : <<k, q>> \in DOMAIN f}
    BY DEF Coupled
  <2>2. CASE q = p
    BY <2>1, <2>2, <1>3, <1>4, <1>5 DEF Get
  <2>3. CASE q # p
    BY <2>1, <2>3, <1>4, <1>5 DEF Get
  <2> QED
    BY <2>2, <2>3
<1>9. Coupled(f2, g2, names)
  BY <1>4, <1>5, <1>7, <1>8 DEF Coupled
<1> QED
  BY <1>1, <1>2, <1>9

\* The watches Watch.delete_all deletes are those of the process.
LEMMA CoupledDomain ==
    ASSUME NEW f, NEW g, NEW names, Coupled(f, g, names), NEW p \in Pids
    PROVE  \A x \in DOMAIN f : x \in {<<n, p>> : n \in Get(g, p)} <=> x[2] = p
<1>1. Get(g, p) = {n \in names : <<n, p>> \in DOMAIN f}
  BY DEF Coupled
<1>2. \A x \in DOMAIN f : x = <<x[1], x[2]>> /\ x[1] \in names
  BY DEF Coupled
<1> QED
  BY <1>1, <1>2

\* Watch.delete_all forgets all the names of a process and no others.
LEMMA CoupledDeleteAll ==
    ASSUME NEW f, NEW g, NEW names, Coupled(f, g, names), NEW p \in Pids
    PROVE  Coupled(Drop(f, {<<n, p>> : n \in Get(g, p)}), Drop(g, {p}), names)
<1>1. PICK f2 : f2 = Drop(f, {<<n, p>> : n \in Get(g, p)})
  OBVIOUS
<1>2. PICK g2 : g2 = Drop(g, {p})
  OBVIOUS
<1>3. DOMAIN f2 = {x \in DOMAIN f : x[2] # p}
  BY <1>1, CoupledDomain DEF Drop
<1>4. \A y \in DOMAIN f2 : f2[y] = f[y]
  BY <1>1 DEF Drop
<1>5. DOMAIN g2 = DOMAIN g \ {p} /\ \A q \in DOMAIN g2 : g2[q] = g[q]
  BY <1>2 DEF Drop
<1>6. ASSUME NEW q \in Pids
      PROVE  Get(g2, q) = {k \in names : <<k, q>> \in DOMAIN f2}
  <2>1. Get(g, q) = {k \in names : <<k, q>> \in DOMAIN f}
    BY DEF Coupled
  <2>2. CASE q = p
    BY <1>3, <1>5, <2>2 DEF Get
  <2>3. CASE q # p
    <3>1. Get(g2, q) = Get(g, q)
      BY <1>5, <2>3 DEF Get
    <3>2. \A k \in names : <<k, q>> \in DOMAIN f2 <=> <<k, q>> \in DOMAIN f
      BY <1>3, <2>3
    <3> QED
      BY <2>1, <3>1, <3>2
  <2> QED
    BY <2>2, <2>3
<1>7. Coupled(f2, g2, names)
  <2>1. DOMAIN f2 \subseteq names \X Pids /\ DOMAIN g2 \subseteq Pids
    BY <1>3, <1>5 DEF Coupled
  <2>2. \A x \in DOMAIN f2 : f2[x] \in Refs
    BY <1>3, <1>4 DEF Coupled
  <2>3. \A q \in DOMAIN g2 : g2[q] # {} /\ IsFiniteSet(g2[q])
    BY <1>5 DEF Coupled
  <2> QED
    BY <1>6, <2>1, <2>2, <2>3 DEF Coupled
<1> QED
  BY <1>1, <1>2, <1>3, <1>5, <1>7

\* What Count says of a map of processes.
LEMMA CountFacts ==
    ASSUME NEW f, NEW g, NEW names, Coupled(f, g, names), NEW p \in Pids
    PROVE  Count(g, p) \in Nat /\ (Count(g, p) = 0 <=> p \notin DOMAIN g)
<1>1. IsFiniteSet(Get(g, p))
  BY FS_EmptySet DEF Coupled, Get
<1>2. Count(g, p) \in Nat /\ (Count(g, p) = 0 <=> Get(g, p) = {})
  BY <1>1, FS_CardinalityType, FS_EmptySet DEF Count
<1> QED
  BY <1>2 DEF Coupled, Get
----------------------------------------------------------------------------
(* Names and the radix tree *)

Name(n) == n = <<n[1], n[2]>> /\ n[2] \in Seq(Nat)

\* A beginning of a beginning of a sequence of bytes is a beginning of it.
LEMMA BeginningFacts ==
    ASSUME NEW b \in Seq(Nat), NEW k \in 0..Len(b)
    PROVE  /\ SubSeq(b, 1, k) \in Seq(Nat) /\ Len(SubSeq(b, 1, k)) = k
           /\ \A j \in 0..k : SubSeq(SubSeq(b, 1, k), 1, j) = SubSeq(b, 1, j)
           /\ SubSeq(b, 1, Len(b)) = b
  OBVIOUS

\* The path to a name ends there, and contains the paths to its nodes.
LEMMA AboveFacts ==
    ASSUME NEW n, Name(n)
    PROVE  n \in Above(n) /\ \A m \in Above(n) : Name(m) /\ Above(m) \subseteq Above(n)
<1>1. n \in Above(n)
  <2>1. Len(n[2]) \in 0..Len(n[2]) /\ SubSeq(n[2], 1, Len(n[2])) = n[2]
    BY BeginningFacts DEF Name
  <2> QED
    BY <2>1 DEF Above, Name
<1>2. ASSUME NEW m \in Above(n)
      PROVE  Name(m) /\ Above(m) \subseteq Above(n)
  <2>1. PICK k \in 0..Len(n[2]) : m = <<n[1], SubSeq(n[2], 1, k)>>
    BY DEF Above
  <2>2. PICK b \in Seq(Nat) : b = SubSeq(n[2], 1, k)
    BY BeginningFacts DEF Name
  <2>3. Len(b) = k /\ \A j \in 0..k : SubSeq(b, 1, j) = SubSeq(n[2], 1, j)
    BY <2>2, BeginningFacts DEF Name
  <2>4. m[1] = n[1] /\ m[2] = b
    BY <2>1, <2>2
  <2>5. ASSUME NEW x \in Above(m)
        PROVE  x \in Above(n)
    <3>1. PICK j \in 0..k : x = <<n[1], SubSeq(n[2], 1, j)>>
      BY <2>3, <2>4 DEF Above
    <3>2. j \in 0..Len(n[2])
      BY <3>1 DEF Name
    <3> QED
      BY <3>1, <3>2 DEF Above
  <2> QED
    BY <2>1, <2>2, <2>4, <2>5 DEF Name
<1> QED
  BY <1>1, <1>2

\* The paths to the watched prefixes, node by node.
LEMMA PathsFacts ==
    ASSUME NEW ws \in SUBSET (DbPrefixes \X Pids)
    PROVE  /\ \A x \in ws : x = <<x[1], x[2]>> /\ x[1] \in DbPrefixes /\ x[2] \in Pids
           /\ \A x \in ws : Name(x[1]) /\ x[1] \in Above(x[1]) /\ x[1] \in Paths(ws)
           /\ \A m \in Paths(ws) : Name(m) /\ m \in Above(m) /\ Above(m) \subseteq Paths(ws)
           /\ \A m \in Paths(ws) : \E x \in ws : m \in Above(x[1])
<1>1. \A x \in ws : x = <<x[1], x[2]>> /\ x[1] \in DbPrefixes /\ x[2] \in Pids
  OBVIOUS
<1>2. \A x \in ws : Name(x[1])
  BY <1>1, WatchConstants DEF Name
<1>3. \A x \in ws : x[1] \in Above(x[1])
  BY <1>2, AboveFacts
<1>4. \A x \in ws : Above(x[1]) \subseteq Paths(ws)
  BY DEF Paths
<1>5. \A m \in Paths(ws) : \E x \in ws : m \in Above(x[1])
  BY DEF Paths
<1>6. ASSUME NEW m \in Paths(ws)
      PROVE  Name(m) /\ m \in Above(m) /\ Above(m) \subseteq Paths(ws)
  <2>1. PICK x \in ws : m \in Above(x[1])
    BY <1>5
  <2>2. Name(m) /\ Above(m) \subseteq Above(x[1])
    BY <2>1, <1>2, AboveFacts
  <2> QED
    BY <2>2, <1>4, AboveFacts
<1> QED
  BY <1>1, <1>2, <1>3, <1>4, <1>5, <1>6

\* RadixNode::insert gives the tree of the watches with the new one.
LEMMA InsertExact ==
    ASSUME NEW ws \in SUBSET (DbPrefixes \X Pids), NEW ix, TreeOf(tree, ws, ix),
           NEW n \in DbPrefixes, NEW p \in Pids, NEW ix2,
           \A x \in ws : ix2[x[2]] = ix[x[2]]
    PROVE  TreeOf(TreeInsert(n, ix2[p]), ws \cup {<<n, p>>}, ix2)
<1>1. PICK t : t = TreeInsert(n, ix2[p])
  OBVIOUS
<1>2. PICK ws2 : ws2 = ws \cup {<<n, p>>}
  OBVIOUS
<1>3. /\ DOMAIN t = DOMAIN tree \cup Above(n)
      /\ \A m \in DOMAIN t : t[m] = Get(tree, m) \cup (IF m = n THEN {ix2[p]} ELSE {})
  BY <1>1 DEF TreeInsert
<1>4. Paths(ws2) = Paths(ws) \cup Above(n)
  <2>1. \A m : m \in Paths(ws2) <=> \E x \in ws2 : m \in Above(x[1])
    BY DEF Paths
  <2>2. \A m : m \in Paths(ws) <=> \E x \in ws : m \in Above(x[1])
    BY DEF Paths
  <2>3. PICK new \in DbPrefixes \X Pids : new = <<n, p>>
    OBVIOUS
  <2>4. \A x : x \in ws2 <=> x \in ws \/ x = new
    BY <1>2, <2>3
  <2>5. \A m : m \in Paths(ws2) <=> m \in Paths(ws) \/ m \in Above(n)
    <3>1. new[1] = n
      BY <2>3
    <3> QED
      BY <3>1, <2>1, <2>2, <2>4
  <2> QED
    BY <2>5
<1>5. /\ DOMAIN tree = Paths(ws)
      /\ \A m \in DOMAIN tree : tree[m] = {ix[q] : q \in Watchers(m, ws)}
  BY DEF TreeOf
<1>6. \A m : \A q \in Watchers(m, ws) : m \in DOMAIN tree /\ ix2[q] = ix[q]
  <2>1. \A m : \A q \in Watchers(m, ws) : <<m, q>> \in ws
    BY DEF Watchers
  <2>2. \A x \in ws : x[1] \in Paths(ws)
    BY PathsFacts
  <2>3. ASSUME NEW m, NEW q, <<m, q>> \in ws
        PROVE  m \in Paths(ws) /\ ix2[q] = ix[q]
    <3>1. PICK x \in ws : x = <<m, q>>
      BY <2>3
    <3> QED
      BY <3>1, <2>2
  <2> QED
    BY <2>1, <2>3, <1>5
<1>7. \A m : Watchers(m, ws2) = Watchers(m, ws) \cup (IF m = n THEN {p} ELSE {})
  BY <1>2 DEF Watchers
<1>8. ASSUME NEW m \in DOMAIN t
      PROVE  t[m] = {ix2[q] : q \in Watchers(m, ws2)}
  <2>1. Get(tree, m) = {ix2[q] : q \in Watchers(m, ws)}
    <3>1. CASE m \in DOMAIN tree
      BY <3>1, <1>5, <1>6 DEF Get
    <3>2. CASE m \notin DOMAIN tree
      BY <3>2, <1>6 DEF Get
    <3> QED
      BY <3>1, <3>2
  <2>2. CASE m = n
    BY <2>1, <2>2, <1>3, <1>7
  <2>3. CASE m # n
    BY <2>1, <2>3, <1>3, <1>7
  <2> QED
    BY <2>2, <2>3
<1> QED
  BY <1>1, <1>2, <1>3, <1>4, <1>5, <1>8 DEF TreeOf

\* RadixNode::delete gives the tree of the watches that are left: what it
\* prunes is on no path to them.
LEMMA DeleteExact ==
    ASSUME NEW ws \in SUBSET (DbPrefixes \X Pids), NEW ix, TreeOf(tree, ws, ix),
           NEW p \in Pids, NEW names, \A n \in names : <<n, p>> \in ws,
           \A x, y \in ws : ix[x[2]] = ix[y[2]] => x[2] = y[2],
           \E x \in ws : x[2] = p,
           NEW ws2, ws2 = {x \in ws : ~(x[2] = p /\ x[1] \in names)},
           NEW ix2, \A x \in ws2 : ix2[x[2]] = ix[x[2]]
    PROVE  TreeOf(TreeDelete(names, ix[p]), ws2, ix2)
<1>1. PICK left : left = [m \in DOMAIN tree |-> IF m \in names THEN tree[m] \ {ix[p]} ELSE tree[m]]
  OBVIOUS
<1>2. PICK onPath : onPath = UNION {Above(n) : n \in names}
  OBVIOUS
<1>3. PICK needed : needed = {m \in DOMAIN tree : m \notin onPath \/ left[m] # {}}
  OBVIOUS
<1>4. PICK kept : kept = {m \in DOMAIN tree : m \notin onPath \/ \E n \in needed : m \in Above(n)}
  OBVIOUS
<1>5. TreeDelete(names, ix[p]) = [m \in kept |-> left[m]]
  BY <1>1, <1>2, <1>3, <1>4 DEF TreeDelete
<1>6. /\ DOMAIN tree = Paths(ws)
      /\ \A m \in DOMAIN tree : tree[m] = {ix[q] : q \in Watchers(m, ws)}
  BY DEF TreeOf
<1>7. ws2 \in SUBSET (DbPrefixes \X Pids)
  OBVIOUS
<1>8. /\ \A x \in ws : x = <<x[1], x[2]>> /\ x[2] \in Pids /\ x[1] \in Paths(ws)
      /\ \A m \in Paths(ws) : Name(m) /\ m \in Above(m) /\ Above(m) \subseteq Paths(ws)
      /\ \A m \in Paths(ws) : \E x \in ws : m \in Above(x[1])
  BY PathsFacts
<1>9. ASSUME NEW m \in DOMAIN tree
      PROVE  left[m] = {ix2[q] : q \in Watchers(m, ws2)}
  <2>1. \A q \in Pids : <<m, q>> \in ws2 <=> <<m, q>> \in ws /\ ~(q = p /\ m \in names)
    OBVIOUS
  <2>2. \A q \in Watchers(m, ws2) : ix2[q] = ix[q]
    <3>1. ASSUME NEW q \in Watchers(m, ws2) PROVE ix2[q] = ix[q]
      <4>1. PICK x \in ws2 : x = <<m, q>>
        BY DEF Watchers
      <4> QED
        BY <4>1
    <3> QED
      BY <3>1
  <2>3. CASE m \notin names
    <3>1. Watchers(m, ws2) = Watchers(m, ws)
      BY <2>1, <2>3 DEF Watchers
    <3> QED
      <4>1. left[m] = {ix[q] : q \in Watchers(m, ws2)}
        BY <3>1, <2>3, <1>1, <1>6
      <4> QED
        BY <4>1, <2>2
  <2>4. CASE m \in names
    <3>1. Watchers(m, ws2) = Watchers(m, ws) \ {p}
      BY <2>1, <2>4 DEF Watchers
    <3>2. \A q \in Watchers(m, ws) : ix[q] = ix[p] => q = p
      <4>1. ASSUME NEW q \in Watchers(m, ws), ix[q] = ix[p] PROVE q = p
        <5>1. PICK x \in ws : x = <<m, q>>
          BY DEF Watchers
        <5>2. PICK y \in ws : y[2] = p
          OBVIOUS
        <5> QED
          BY <4>1, <5>1, <5>2
      <4> QED
        BY <4>1
    <3> QED
      <4>1. left[m] = {ix[q] : q \in Watchers(m, ws)} \ {ix[p]}
        BY <2>4, <1>1, <1>6
      <4>2. left[m] = {ix[q] : q \in Watchers(m, ws2)}
        BY <4>1, <3>1, <3>2
      <4> QED
        BY <4>2, <2>2
  <2> QED
    BY <2>3, <2>4
<1>10. \A x \in ws2 : x[1] \in DOMAIN tree /\ x[2] \in Watchers(x[1], ws2) /\ left[x[1]] # {}
  <2>1. ASSUME NEW x \in ws2
        PROVE  x[1] \in DOMAIN tree /\ x[2] \in Watchers(x[1], ws2)
    BY <1>6, <1>8 DEF Watchers
  <2>2. ASSUME NEW x \in ws2
        PROVE  left[x[1]] # {}
    <3>1. left[x[1]] = {ix2[q] : q \in Watchers(x[1], ws2)}
      BY <2>1, <1>9
    <3>2. ix2[x[2]] \in {ix2[q] : q \in Watchers(x[1], ws2)}
      BY <2>1, <2>2
    <3> QED
      BY <3>1, <3>2
  <2> QED
    BY <2>1, <2>2
<1>11. ASSUME NEW m \in DOMAIN tree, m \notin onPath
       PROVE  \E x \in ws2 : m \in Above(x[1])
  <2>1. PICK x \in ws : m \in Above(x[1])
    BY <1>6, <1>8
  <2>2. x[1] \notin names
    BY <1>2, <1>11, <2>1
  <2> QED
    BY <2>1, <2>2
<1>12. Paths(ws2) \subseteq kept
  <2> SUFFICES ASSUME NEW m \in Paths(ws2) PROVE m \in kept
    OBVIOUS
  <2>1. PICK x \in ws2 : m \in Above(x[1])
    BY DEF Paths
  <2>2. x[1] \in needed
    BY <1>3, <1>10
  <2>3. m \in DOMAIN tree
    BY <2>1, <1>6, <1>8, <1>10
  <2> QED
    BY <2>1, <2>2, <2>3, <1>4
<1>13. kept \subseteq Paths(ws2)
  <2> SUFFICES ASSUME NEW m \in kept PROVE \E x \in ws2 : m \in Above(x[1])
    BY DEF Paths
  <2>1. CASE m \notin onPath
    BY <2>1, <1>4, <1>11
  <2>2. ASSUME NEW n \in needed, m \in Above(n)
        PROVE  \E x \in ws2 : m \in Above(x[1])
    <3>1. n \in DOMAIN tree
      BY <1>3
    <3>2. CASE left[n] # {}
      <4>1. PICK q \in Watchers(n, ws2) : TRUE
        BY <3>1, <3>2, <1>9
      <4>2. <<n, q>> \in ws2
        BY DEF Watchers
      <4> QED
        BY <4>2, <2>2
    <3>3. CASE n \notin onPath
      <4>1. PICK x \in ws2 : n \in Above(x[1])
        BY <3>1, <3>3, <1>11
      <4>2. Name(x[1])
        BY <1>7, PathsFacts
      <4>3. Above(n) \subseteq Above(x[1])
        BY <4>1, <4>2, AboveFacts
      <4> QED
        BY <4>1, <4>3, <2>2
    <3> QED
      BY <3>2, <3>3, <1>3
  <2> QED
    BY <2>1, <2>2, <1>4
<1>14. kept \subseteq DOMAIN tree
  BY <1>4
<1> QED
  BY <1>5, <1>9, <1>12, <1>13, <1>14 DEF TreeOf

----------------------------------------------------------------------------
(* The indices of the processes *)

\* ensure_pid_idx keeps the indices of the others and gives a new one.
LEMMA IndexAdd ==
    ASSUME NEW ix, NEW byIdx, NEW ps, NEW last, Indexed(ix, byIdx, ps, last), NEW p,
           NEW idx, NEW last2,
           \/ p \in ps /\ idx = ix[p] /\ last2 = last
           \/ p \notin ps /\ idx = last + 1 /\ last2 = last + 1
    PROVE  Indexed(Put(ix, p, idx), Put(byIdx, idx, p), ps \cup {p}, last2)
<1>1. PICK ix2 : ix2 = Put(ix, p, idx)
  OBVIOUS
<1>2. PICK by2 : by2 = Put(byIdx, idx, p)
  OBVIOUS
<1>3. DOMAIN ix2 = ps \cup {p} /\ ix2[p] = idx /\ \A q \in ps : ix2[q] = ix[q]
  BY <1>1 DEF Put, Indexed
<1>4. /\ DOMAIN by2 = DOMAIN byIdx \cup {idx} /\ by2[idx] = p
      /\ \A i \in DOMAIN byIdx : i # idx => by2[i] = byIdx[i]
  BY <1>2 DEF Put
<1>5. last2 \in Nat /\ DOMAIN by2 \subseteq 1..last2
  BY <1>4 DEF Indexed
<1>6. ASSUME NEW q \in ps \cup {p}
      PROVE  ix2[q] \in DOMAIN by2 /\ by2[ix2[q]] = q
  <2>1. CASE q = p
    BY <2>1, <1>3, <1>4
  <2>2. CASE q # p
    <3>1. q \in ps /\ ix2[q] = ix[q] /\ ix[q] \in DOMAIN byIdx /\ byIdx[ix[q]] = q
      BY <2>2, <1>3 DEF Indexed
    <3>2. ix[q] # idx
      <4>1. CASE p \in ps
        BY <4>1, <3>1, <2>2 DEF Indexed
      <4>2. CASE p \notin ps
        BY <4>2, <3>1 DEF Indexed
      <4> QED
        BY <4>1, <4>2
    <3> QED
      BY <3>1, <3>2, <1>4
  <2> QED
    BY <2>1, <2>2
<1>7. ASSUME NEW i \in DOMAIN by2
      PROVE  by2[i] \in ps \cup {p} /\ ix2[by2[i]] = i
  <2>1. CASE i = idx
    BY <2>1, <1>3, <1>4
  <2>2. CASE i # idx
    <3>1. i \in DOMAIN byIdx /\ by2[i] = byIdx[i] /\ byIdx[i] \in ps /\ ix[byIdx[i]] = i
      BY <2>2, <1>4 DEF Indexed
    <3> QED
      BY <3>1, <1>3
  <2> QED
    BY <2>1, <2>2
<1> QED
  BY <1>1, <1>2, <1>3, <1>5, <1>6, <1>7 DEF Indexed

\* A process that has no prefix left gives its index back.
LEMMA IndexDrop ==
    ASSUME NEW ix, NEW byIdx, NEW ps, NEW last, Indexed(ix, byIdx, ps, last), NEW p \in ps
    PROVE  Indexed(Drop(ix, {p}), Drop(byIdx, {ix[p]}), ps \ {p}, last)
<1>1. PICK ix2 : ix2 = Drop(ix, {p})
  OBVIOUS
<1>2. PICK by2 : by2 = Drop(byIdx, {ix[p]})
  OBVIOUS
<1>3. DOMAIN ix2 = ps \ {p} /\ \A q \in ps \ {p} : ix2[q] = ix[q]
  BY <1>1 DEF Drop, Indexed
<1>4. DOMAIN by2 = DOMAIN byIdx \ {ix[p]} /\ \A i \in DOMAIN by2 : by2[i] = byIdx[i]
  BY <1>2 DEF Drop
<1>5. ASSUME NEW q \in ps \ {p}
      PROVE  ix2[q] \in DOMAIN by2 /\ by2[ix2[q]] = q
  BY <1>3, <1>4 DEF Indexed
<1>6. ASSUME NEW i \in DOMAIN by2
      PROVE  by2[i] \in ps \ {p} /\ ix2[by2[i]] = i
  BY <1>3, <1>4 DEF Indexed
<1> QED
  BY <1>1, <1>2, <1>3, <1>4, <1>5, <1>6 DEF Indexed

----------------------------------------------------------------------------
(* The mailbox *)

\* The fields of a message.
LEMMA MessageFacts ==
    ASSUME NEW m \in Messages
    PROVE  /\ m.type \in CallTypes \cup {"DOWN"} /\ m.pid \in Pids
           /\ m.type \in {"watch", "unwatch"} => m.at \in DbKeys /\ m.ref \in Refs
           /\ m.type \in {"watch_prefix", "unwatch_prefix"} => m.at \in DbPrefixes /\ m.ref \in Refs
           /\ m.type = "DOWN" <=> m \in Downs
           /\ m.type = "DOWN" => m = Down(m.pid)
<1>1. ASSUME NEW t \in CallTypes, m \in Calls(t)
      PROVE  /\ m.type = t /\ m.pid \in Pids /\ m.ref \in Refs
             /\ t \in {"watch", "unwatch"} => m.at \in DbKeys
             /\ t \in {"watch_prefix", "unwatch_prefix"} => m.at \in DbPrefixes
  BY <1>1 DEF Calls
<1>2. ASSUME m \in Downs
      PROVE  m.type = "DOWN" /\ m.pid \in Pids /\ m = Down(m.pid)
  BY <1>2 DEF Downs, Down
<1>3. (\E t \in CallTypes : m \in Calls(t)) \/ m \in Downs
  BY DEF Messages
<1> QED
  BY <1>1, <1>2, <1>3 DEF CallTypes

\* A DOWN message is a message, and names its process.
LEMMA DownFacts ==
    ASSUME NEW p \in Pids
    PROVE  Down(p) \in Messages /\ Down(p).type = "DOWN" /\ \A q \in Pids : Down(q) = Down(p) => q = p
<1>1. Down(p) \in Downs
  BY DEF Downs
<1>2. Down(p) \in Messages
  BY <1>1 DEF Messages
<1>3. Down(p).type = "DOWN" /\ \A q \in Pids : Down(q) = Down(p) => q = p
  BY DEF Down
<1> QED
  BY <1>2, <1>3

\* A call has been answered.
LEMMA ToldCall ==
    ASSUME NEW box, NEW mons, NEW living, Told(box, mons, living),
           box # <<>>, Head(box).type # "DOWN"
    PROVE  Told(Tail(box), mons, living)
<1>1. box \in Seq(Messages)
  BY DEF Told
<1>2. /\ Tail(box) \in Seq(Messages)
      /\ \A m : In(Tail(box), m) => In(box, m)
      /\ \A m : In(box, m) /\ m # Head(box) => In(Tail(box), m)
  BY <1>1, TailIn
<1>3. \A p \in Pids : Down(p) # Head(box)
  BY DownFacts
<1> QED
  BY <1>2, <1>3 DEF Told

\* put_watch_and_monitor.
LEMMA ToldMonitor ==
    ASSUME NEW box, NEW mons, NEW living, Told(box, mons, living), NEW p \in Pids, NEW box2,
           box2 = IF p \notin mons /\ p \notin living THEN Append(box, Down(p)) ELSE box
    PROVE  Told(box2, mons \cup {p}, living)
<1>1. box \in Seq(Messages) /\ Down(p) \in Messages
  BY DownFacts DEF Told
<1>2. CASE p \notin mons /\ p \notin living
  <2>1. box2 \in Seq(Messages) /\ \A m : In(box2, m) <=> In(box, m) \/ m = Down(p)
    BY <1>1, <1>2, AppendIn
  <2>2. \A q \in Pids : Down(q) = Down(p) => q = p
    BY DownFacts
  <2> QED
    BY <2>1, <2>2, <1>2 DEF Told
<1>3. CASE p \in mons \/ p \in living
  BY <1>3 DEF Told
<1> QED
  BY <1>2, <1>3

\* demonitor with :flush.
LEMMA ToldDemonitor ==
    ASSUME NEW box, NEW mons, NEW living, Told(box, mons, living), NEW p \in Pids
    PROVE  Told(RemoveFirst(box, Down(p)), mons \ {p}, living)
<1>1. box \in Seq(Messages)
  BY DEF Told
<1>2. PICK box2 \in Seq(Messages) :
         /\ box2 = RemoveFirst(box, Down(p))
         /\ \A m : In(box2, m) => In(box, m)
         /\ \A m : In(box, m) /\ m # Down(p) => In(box2, m)
  BY <1>1, RemoveFirstIn
<1>3. \A q \in Pids : Down(q) = Down(p) => q = p
  BY DownFacts
<1>4. Told(box2, mons \ {p}, living)
  BY <1>2, <1>3 DEF Told
<1> QED
  BY <1>2, <1>4

\* A DOWN message has been handled.
LEMMA ToldDown ==
    ASSUME NEW box, NEW mons, NEW living, Told(box, mons, living), NEW p \in Pids,
           box # <<>>, Head(box) = Down(p)
    PROVE  Told(Tail(box), mons \ {p}, living) /\ p \notin living
<1>1. box \in Seq(Messages)
  BY DEF Told
<1>2. /\ Tail(box) \in Seq(Messages) /\ In(box, Down(p))
      /\ \A m : In(Tail(box), m) => In(box, m)
      /\ \A m : In(box, m) /\ m # Down(p) => In(Tail(box), m)
  BY <1>1, TailIn
<1>3. \A q \in Pids : Down(q) = Down(p) => q = p
  BY DownFacts
<1> QED
  BY <1>2, <1>3 DEF Told

\* A call is sent.
LEMMA ToldSent ==
    ASSUME NEW box, NEW mons, NEW living, Told(box, mons, living),
           NEW m \in Messages, m.type # "DOWN"
    PROVE  Told(Append(box, m), mons, living)
<1>1. box \in Seq(Messages)
  BY DEF Told
<1>2. Append(box, m) \in Seq(Messages) /\ \A n : In(Append(box, m), n) <=> In(box, n) \/ n = m
  BY <1>1, AppendIn
<1>3. \A p \in Pids : Down(p) # m
  BY DownFacts
<1> QED
  BY <1>2, <1>3 DEF Told

\* A process exits.
LEMMA ToldDies ==
    ASSUME NEW box, NEW mons, NEW living, Told(box, mons, living), NEW p \in Pids, NEW box2,
           box2 = IF p \in mons THEN Append(box, Down(p)) ELSE box
    PROVE  Told(box2, mons, living \ {p})
<1>1. box \in Seq(Messages) /\ Down(p) \in Messages
  BY DownFacts DEF Told
<1>2. CASE p \in mons
  <2>1. box2 \in Seq(Messages) /\ \A m : In(box2, m) <=> In(box, m) \/ m = Down(p)
    BY <1>1, <1>2, AppendIn
  <2>2. \A q \in Pids : Down(q) = Down(p) => q = p
    BY DownFacts
  <2> QED
    BY <2>1, <2>2, <1>2 DEF Told
<1>3. CASE p \notin mons
  BY <1>3 DEF Told
<1> QED
  BY <1>2, <1>3

\* The message an instance handles.
LEMMA ReceivedFacts ==
    ASSUME WInv, NEW t, Receives(t)
    PROVE  /\ inbox # <<>> /\ Head(inbox) \in Messages /\ Head(inbox).type = t
           /\ t # "DOWN" => Told(Tail(inbox), monitors, alive)
<1>1. inbox # <<>> /\ Head(inbox).type = t /\ inbox \in Seq(Messages)
  BY DEF WInv, Told, Receives
<1> QED
  BY <1>1, TailIn, ToldCall DEF WInv

----------------------------------------------------------------------------
(* Every action preserves the invariant *)

\* An instance without watches satisfies the invariant.
LEMMA InitWInv == Init => WInv
<1> SUFFICES ASSUME Init PROVE WInv
  OBVIOUS
<1>1. /\ DOMAIN key_to_pids = {} /\ DOMAIN pid_to_keys = {} /\ DOMAIN prefix_to_pids = {}
      /\ DOMAIN pid_to_prefixes = {} /\ DOMAIN pid_by_idx = {} /\ DOMAIN idx_by_pid = {}
      /\ DOMAIN tree = {} /\ issued = 0 /\ monitors = {} /\ alive = Pids
  BY DEF Init
<1>2. Coupled(key_to_pids, pid_to_keys, DbKeys)
  BY <1>1 DEF Coupled, Get
<1>3. Coupled(prefix_to_pids, pid_to_prefixes, DbPrefixes)
  BY <1>1 DEF Coupled, Get
<1>4. Indexed(idx_by_pid, pid_by_idx, DOMAIN pid_to_prefixes, issued)
  BY <1>1 DEF Indexed
<1>5. TreeOf(tree, DOMAIN prefix_to_pids, idx_by_pid)
  BY <1>1 DEF TreeOf, Paths
<1>6. Told(inbox, monitors, alive)
  <2>1. inbox \in Seq(Messages) /\ Len(inbox) = 0
    BY DEF Init
  <2> QED
    BY <2>1, <1>1 DEF Told, In
<1> QED
  BY <1>1, <1>2, <1>3, <1>4, <1>5, <1>6 DEF WInv

\* handle_call({:watch, ...}).
LEMMA WatchStep ==
    ASSUME WInv, HandleWatch
    PROVE  WInv'
<1>1. PICK m \in Messages :
         m = Head(inbox) /\ m.type = "watch" /\ Told(Tail(inbox), monitors, alive)
  BY ReceivedFacts DEF HandleWatch
<1>2. PICK p \in Pids, n \in DbKeys, r \in Refs : p = m.pid /\ n = m.at /\ r = m.ref
  BY <1>1, MessageFacts
<1>3. UNCHANGED <<prefixVars, alive>>
  BY DEF HandleWatch
<1>4. CASE /\ <<n, p>> \notin DOMAIN key_to_pids
           /\ key_to_pids' = Put(key_to_pids, <<n, p>>, r)
           /\ pid_to_keys' = Put(pid_to_keys, p, Get(pid_to_keys, p) \cup {n})
           /\ PutWatchAndMonitor(p)
  <2>1. /\ Coupled(key_to_pids', pid_to_keys', DbKeys)
        /\ DOMAIN pid_to_keys' = DOMAIN pid_to_keys \cup {p}
    BY <1>4, CoupledAdd DEF WInv
  <2>2. Told(inbox', monitors \cup {p}, alive) /\ monitors' = monitors \cup {p}
    BY <1>1, <1>4, ToldMonitor DEF PutWatchAndMonitor
  <2> QED
    BY <2>1, <2>2, <1>3 DEF WInv, prefixVars
<1>5. CASE inbox' = Tail(inbox) /\ UNCHANGED <<exactVars, monitors>>
  BY <1>1, <1>3, <1>5 DEF WInv, prefixVars, exactVars
<1> QED
  BY <1>1, <1>2, <1>4, <1>5 DEF HandleWatch

\* After a watch has been deleted, the monitor goes if it was the last one.
LEMMA DemonitorStep ==
    ASSUME NEW f, NEW g, NEW fnames, Coupled(f, g, fnames),
           NEW h, NEW k, NEW hnames, Coupled(h, k, hnames),
           NEW p \in Pids, Told(Tail(inbox), monitors, alive),
           DemonitorIfLast(p, Count(g, p) + Count(k, p)),
           NEW before, monitors = before, p \in before,
           before \ {p} = (DOMAIN g \cup DOMAIN k) \ {p}
    PROVE  Told(inbox', monitors', alive) /\ monitors' = DOMAIN g \cup DOMAIN k
<1>1. /\ Count(g, p) \in Nat /\ (Count(g, p) = 0 <=> p \notin DOMAIN g)
      /\ Count(k, p) \in Nat /\ (Count(k, p) = 0 <=> p \notin DOMAIN k)
  BY CountFacts
<1>2. CASE Count(g, p) + Count(k, p) = 0
  <2>1. p \notin DOMAIN g \cup DOMAIN k
    BY <1>1, <1>2
  <2>2. monitors' = monitors \ {p} /\ inbox' = RemoveFirst(Tail(inbox), Down(p))
    BY <1>2 DEF DemonitorIfLast
  <2> QED
    BY <2>1, <2>2, ToldDemonitor
<1>3. CASE Count(g, p) + Count(k, p) # 0
  <2>1. p \in DOMAIN g \cup DOMAIN k
    BY <1>1, <1>3
  <2> QED
    BY <2>1, <1>3 DEF DemonitorIfLast
<1> QED
  BY <1>2, <1>3

\* handle_call({:unwatch, ...}).
LEMMA UnwatchStep ==
    ASSUME WInv, HandleUnwatch
    PROVE  WInv'
<1>1. PICK m \in Messages :
         m = Head(inbox) /\ m.type = "unwatch" /\ Told(Tail(inbox), monitors, alive)
  BY ReceivedFacts DEF HandleUnwatch
<1>2. PICK p \in Pids, n \in DbKeys : p = m.pid /\ n = m.at
  BY <1>1, MessageFacts
<1>3. UNCHANGED <<prefixVars, alive>>
  BY DEF HandleUnwatch
<1>4. CASE /\ <<n, p>> \in DOMAIN key_to_pids
           /\ key_to_pids' = Drop(key_to_pids, {<<n, p>>})
           /\ pid_to_keys' = Without(pid_to_keys, p, n)
           /\ DemonitorIfLast(p, Count(pid_to_keys', p) + Count(pid_to_prefixes, p))
  <2>1. /\ Coupled(key_to_pids', pid_to_keys', DbKeys)
        /\ DOMAIN pid_to_keys' \cup {p} = DOMAIN pid_to_keys
    <3>1. Coupled(key_to_pids, pid_to_keys, DbKeys)
      BY DEF WInv
    <3>2. Coupled(key_to_pids', pid_to_keys', DbKeys)
      BY <3>1, <1>4, CoupledDelete
    <3>3. p \in DOMAIN pid_to_keys /\ n \in pid_to_keys[p]
      BY <3>1, <1>4 DEF Coupled, Get
    <3>4. DOMAIN pid_to_keys' \cup {p} = DOMAIN pid_to_keys
      BY <3>3, <1>4 DEF Without, Drop
    <3> QED
      BY <3>2, <3>4 DEF Coupled, Get
  <2>2. /\ Told(inbox', monitors', alive)
        /\ monitors' = DOMAIN pid_to_keys' \cup DOMAIN pid_to_prefixes
    <3>1. /\ Coupled(prefix_to_pids, pid_to_prefixes, DbPrefixes) /\ p \in monitors
          /\ monitors \ {p} = (DOMAIN pid_to_keys' \cup DOMAIN pid_to_prefixes) \ {p}
      BY <2>1 DEF WInv
    <3> QED
      BY <3>1, <2>1, <1>1, <1>4, DemonitorStep
  <2> QED
    BY <2>1, <2>2, <1>3 DEF WInv, prefixVars
<1>5. CASE inbox' = Tail(inbox) /\ UNCHANGED <<exactVars, monitors>>
  BY <1>1, <1>3, <1>5 DEF WInv, prefixVars, exactVars
<1> QED
  BY <1>1, <1>2, <1>4, <1>5 DEF HandleUnwatch

\* What the prefix watches are to the tree.
LEMMA PrefixFacts ==
    ASSUME WInv
    PROVE  /\ DOMAIN prefix_to_pids \in SUBSET (DbPrefixes \X Pids)
           /\ \A x \in DOMAIN prefix_to_pids : x[2] \in DOMAIN pid_to_prefixes
           /\ \A x, y \in DOMAIN prefix_to_pids :
                 idx_by_pid[x[2]] = idx_by_pid[y[2]] => x[2] = y[2]
<1>1. DOMAIN prefix_to_pids \in SUBSET (DbPrefixes \X Pids)
  BY DEF WInv, Coupled
<1>2. ASSUME NEW x \in DOMAIN prefix_to_pids
      PROVE  x[2] \in DOMAIN pid_to_prefixes
  <2>1. x = <<x[1], x[2]>> /\ x[1] \in DbPrefixes /\ x[2] \in Pids
    BY <1>1
  <2>2. x[1] \in Get(pid_to_prefixes, x[2])
    BY <2>1 DEF WInv, Coupled
  <2> QED
    BY <2>2 DEF Get
<1>3. \A p, q \in DOMAIN pid_to_prefixes : idx_by_pid[p] = idx_by_pid[q] => p = q
  BY DEF WInv, Indexed
<1> QED
  BY <1>1, <1>2, <1>3

\* handle_call({:watch_prefix, ...}).
LEMMA WatchPrefixStep ==
    ASSUME WInv, HandleWatchPrefix
    PROVE  WInv'
<1>1. PICK m \in Messages :
         m = Head(inbox) /\ m.type = "watch_prefix" /\ Told(Tail(inbox), monitors, alive)
  BY ReceivedFacts DEF HandleWatchPrefix
<1>2. PICK p \in Pids, n \in DbPrefixes, r \in Refs : p = m.pid /\ n = m.at /\ r = m.ref
  BY <1>1, MessageFacts
<1>3. PICK idx : idx = IF p \in DOMAIN idx_by_pid THEN idx_by_pid[p] ELSE issued + 1
  OBVIOUS
<1>4. UNCHANGED <<exactVars, alive>>
  BY DEF HandleWatchPrefix
<1>5. CASE /\ <<n, p>> \notin DOMAIN prefix_to_pids
           /\ issued' = IF p \in DOMAIN idx_by_pid THEN issued ELSE issued + 1
           /\ pid_by_idx' = Put(pid_by_idx, idx, p)
           /\ idx_by_pid' = Put(idx_by_pid, p, idx)
           /\ tree' = TreeInsert(n, idx)
           /\ prefix_to_pids' = Put(prefix_to_pids, <<n, p>>, r)
           /\ pid_to_prefixes' = Put(pid_to_prefixes, p, Get(pid_to_prefixes, p) \cup {n})
           /\ PutWatchAndMonitor(p)
  <2>1. /\ Coupled(prefix_to_pids', pid_to_prefixes', DbPrefixes)
        /\ DOMAIN pid_to_prefixes' = DOMAIN pid_to_prefixes \cup {p}
    BY <1>5, CoupledAdd DEF WInv
  <2>2. Told(inbox', monitors \cup {p}, alive) /\ monitors' = monitors \cup {p}
    BY <1>1, <1>5, ToldMonitor DEF PutWatchAndMonitor
  <2>3. /\ Indexed(idx_by_pid, pid_by_idx, DOMAIN pid_to_prefixes, issued)
        /\ \/ p \in DOMAIN pid_to_prefixes /\ idx = idx_by_pid[p] /\ issued' = issued
           \/ p \notin DOMAIN pid_to_prefixes /\ idx = issued + 1 /\ issued' = issued + 1
    BY <1>3, <1>5 DEF WInv, Indexed
  <2>4. /\ Indexed(idx_by_pid', pid_by_idx', DOMAIN pid_to_prefixes \cup {p}, issued')
        /\ idx_by_pid'[p] = idx
        /\ \A q \in DOMAIN pid_to_prefixes : idx_by_pid'[q] = idx_by_pid[q]
    <3>1. Indexed(idx_by_pid', pid_by_idx', DOMAIN pid_to_prefixes \cup {p}, issued')
      BY <2>3, <1>5, IndexAdd
    <3>2. DOMAIN idx_by_pid = DOMAIN pid_to_prefixes
      BY <2>3 DEF Indexed
    <3> QED
      BY <3>1, <3>2, <2>3, <1>5 DEF Put
  <2>5. \A x \in DOMAIN prefix_to_pids : idx_by_pid'[x[2]] = idx_by_pid[x[2]]
    BY <2>4, PrefixFacts
  <2>6. TreeOf(tree', DOMAIN prefix_to_pids \cup {<<n, p>>}, idx_by_pid')
    BY <2>4, <2>5, <1>5, PrefixFacts, InsertExact DEF WInv
  <2>7. DOMAIN prefix_to_pids' = DOMAIN prefix_to_pids \cup {<<n, p>>}
    BY <1>5 DEF Put
  <2> QED
    BY <2>1, <2>2, <2>4, <2>6, <2>7, <1>4 DEF WInv, exactVars
<1>6. CASE inbox' = Tail(inbox) /\ UNCHANGED <<prefixVars, monitors>>
  BY <1>1, <1>4, <1>6 DEF WInv, prefixVars, exactVars
<1> QED
  BY <1>1, <1>2, <1>3, <1>5, <1>6 DEF HandleWatchPrefix

\* handle_call({:unwatch_prefix, ...}).
LEMMA UnwatchPrefixStep ==
    ASSUME WInv, HandleUnwatchPrefix
    PROVE  WInv'
<1>1. PICK m \in Messages :
         m = Head(inbox) /\ m.type = "unwatch_prefix" /\ Told(Tail(inbox), monitors, alive)
  BY ReceivedFacts DEF HandleUnwatchPrefix
<1>2. PICK p \in Pids, n \in DbPrefixes : p = m.pid /\ n = m.at
  BY <1>1, MessageFacts
<1>3. UNCHANGED <<exactVars, alive>>
  BY DEF HandleUnwatchPrefix
<1>4. CASE /\ <<n, p>> \in DOMAIN prefix_to_pids
           /\ tree' = TreeDelete({n}, idx_by_pid[p])
           /\ prefix_to_pids' = Drop(prefix_to_pids, {<<n, p>>})
           /\ pid_to_prefixes' = Without(pid_to_prefixes, p, n)
           /\ ForgetIdx(p, Get(pid_to_prefixes', p))
           /\ DemonitorIfLast(p, Count(pid_to_keys, p) + Count(pid_to_prefixes', p))
           /\ UNCHANGED issued
  <2>1. /\ Coupled(prefix_to_pids', pid_to_prefixes', DbPrefixes)
        /\ DOMAIN pid_to_prefixes' \cup {p} = DOMAIN pid_to_prefixes
        /\ p \in DOMAIN pid_to_prefixes' <=> Get(pid_to_prefixes', p) # {}
    <3>1. Coupled(prefix_to_pids, pid_to_prefixes, DbPrefixes)
      BY DEF WInv
    <3>2. Coupled(prefix_to_pids', pid_to_prefixes', DbPrefixes)
      BY <3>1, <1>4, CoupledDelete
    <3>3. p \in DOMAIN pid_to_prefixes /\ n \in pid_to_prefixes[p]
      BY <3>1, <1>4 DEF Coupled, Get
    <3>4. DOMAIN pid_to_prefixes' \cup {p} = DOMAIN pid_to_prefixes
      BY <3>3, <1>4 DEF Without, Drop
    <3> QED
      BY <3>2, <3>4 DEF Coupled, Get
  <2>2. /\ Told(inbox', monitors', alive)
        /\ monitors' = DOMAIN pid_to_keys \cup DOMAIN pid_to_prefixes'
    <3>1. /\ Coupled(key_to_pids, pid_to_keys, DbKeys) /\ p \in monitors
          /\ monitors \ {p} = (DOMAIN pid_to_keys \cup DOMAIN pid_to_prefixes') \ {p}
      BY <2>1 DEF WInv
    <3> QED
      BY <3>1, <2>1, <1>1, <1>4, DemonitorStep
  <2>3. /\ Indexed(idx_by_pid', pid_by_idx', DOMAIN pid_to_prefixes', issued')
        /\ \A q \in DOMAIN pid_to_prefixes' : idx_by_pid'[q] = idx_by_pid[q]
    <3>1. CASE Get(pid_to_prefixes', p) = {}
      <4>1. /\ pid_by_idx' = Drop(pid_by_idx, {idx_by_pid[p]}) /\ idx_by_pid' = Drop(idx_by_pid, {p})
            /\ DOMAIN pid_to_prefixes' = DOMAIN pid_to_prefixes \ {p}
        BY <3>1, <2>1, <1>4 DEF ForgetIdx
      <4>2. DOMAIN idx_by_pid = DOMAIN pid_to_prefixes
        BY DEF WInv, Indexed
      <4>3. \A q \in DOMAIN pid_to_prefixes \ {p} : idx_by_pid'[q] = idx_by_pid[q]
        BY <4>1, <4>2 DEF Drop
      <4>4. Indexed(idx_by_pid, pid_by_idx, DOMAIN pid_to_prefixes, issued)
        BY DEF WInv
      <4>5. Indexed(idx_by_pid', pid_by_idx', DOMAIN pid_to_prefixes \ {p}, issued)
        BY <4>1, <4>4, <2>1, IndexDrop
      <4> QED
        BY <4>1, <4>3, <4>5, <1>4
    <3>2. CASE Get(pid_to_prefixes', p) # {}
      BY <3>2, <2>1, <1>4 DEF ForgetIdx, WInv
    <3> QED
      BY <3>1, <3>2
  <2>4. DOMAIN prefix_to_pids' = DOMAIN prefix_to_pids \ {<<n, p>>}
    BY <1>4 DEF Drop
  <2>5. /\ DOMAIN prefix_to_pids' = {x \in DOMAIN prefix_to_pids : ~(x[2] = p /\ x[1] \in {n})}
        /\ \E x \in DOMAIN prefix_to_pids : x[2] = p
    BY <2>4, <1>4, PrefixFacts
  <2>6. \A x \in DOMAIN prefix_to_pids' : idx_by_pid'[x[2]] = idx_by_pid[x[2]]
    <3>1. ASSUME NEW x \in DOMAIN prefix_to_pids'
          PROVE  x[2] \in DOMAIN pid_to_prefixes'
      <4>1. x = <<x[1], x[2]>> /\ x[1] \in DbPrefixes /\ x[2] \in Pids
        BY <2>1 DEF Coupled
      <4>2. x[1] \in Get(pid_to_prefixes', x[2])
        BY <4>1, <2>1 DEF Coupled
      <4> QED
        BY <4>2 DEF Get
    <3> QED
      BY <3>1, <2>3
  <2>7. TreeOf(tree', DOMAIN prefix_to_pids', idx_by_pid')
    <3>1. \A k \in {n} : <<k, p>> \in DOMAIN prefix_to_pids
      BY <1>4
    <3> QED
      BY <3>1, <2>5, <2>6, <1>4, PrefixFacts, DeleteExact DEF WInv
  <2> QED
    BY <2>1, <2>2, <2>3, <2>7, <1>3 DEF WInv, exactVars
<1>5. CASE inbox' = Tail(inbox) /\ UNCHANGED <<prefixVars, monitors>>
  BY <1>1, <1>3, <1>5 DEF WInv, prefixVars, exactVars
<1> QED
  BY <1>1, <1>2, <1>4, <1>5 DEF HandleUnwatchPrefix

\* The entries delete_all takes away are those of the process.
LEMMA DeleteAllDomains ==
    ASSUME WInv, NEW p \in Pids, DeleteAll(p)
    PROVE  /\ \A x : x \in DOMAIN key_to_pids' <=> x \in DOMAIN key_to_pids /\ x[2] # p
           /\ \A x : x \in DOMAIN prefix_to_pids' <=> x \in DOMAIN prefix_to_pids /\ x[2] # p
<1>1. Coupled(key_to_pids, pid_to_keys, DbKeys) /\ Coupled(prefix_to_pids, pid_to_prefixes, DbPrefixes)
  BY DEF WInv
<1>2. \A x \in DOMAIN key_to_pids : x \in {<<n, p>> : n \in Get(pid_to_keys, p)} <=> x[2] = p
  BY <1>1, CoupledDomain
<1>3. \A x \in DOMAIN prefix_to_pids :
         x \in {<<n, p>> : n \in Get(pid_to_prefixes, p)} <=> x[2] = p
  BY <1>1, CoupledDomain
<1>4. DOMAIN key_to_pids' = DOMAIN key_to_pids \ {<<n, p>> : n \in Get(pid_to_keys, p)}
  BY DEF DeleteAll, Drop
<1>5. DOMAIN prefix_to_pids' = DOMAIN prefix_to_pids \ {<<n, p>> : n \in Get(pid_to_prefixes, p)}
  BY DEF DeleteAll, Drop
<1> QED
  BY <1>2, <1>3, <1>4, <1>5

\* handle_info({:DOWN, ...}): delete_all.
LEMMA DownStep ==
    ASSUME WInv, HandleDown
    PROVE  WInv'
<1>1. PICK m \in Messages : m = Head(inbox) /\ m.type = "DOWN" /\ inbox # <<>>
  BY ReceivedFacts DEF HandleDown
<1>2. PICK p \in Pids : p = m.pid /\ m = Down(p)
  BY <1>1, MessageFacts
<1>3. DeleteAll(p) /\ monitors' = monitors \ {p} /\ inbox' = Tail(inbox) /\ alive' = alive
  BY <1>1, <1>2 DEF HandleDown
<1>4. Told(inbox', monitors', alive')
  BY <1>1, <1>2, <1>3, ToldDown DEF WInv
<1>5. Coupled(key_to_pids, pid_to_keys, DbKeys) /\ Coupled(prefix_to_pids, pid_to_prefixes, DbPrefixes)
  BY DEF WInv
<1>6. Coupled(key_to_pids', pid_to_keys', DbKeys)
  BY <1>3, <1>5, CoupledDeleteAll DEF DeleteAll
<1>7. /\ Coupled(prefix_to_pids', pid_to_prefixes', DbPrefixes)
      /\ DOMAIN prefix_to_pids' = {x \in DOMAIN prefix_to_pids : x[2] # p}
  <2>1. /\ prefix_to_pids' = Drop(prefix_to_pids, {<<n, p>> : n \in Get(pid_to_prefixes, p)})
        /\ pid_to_prefixes' = Drop(pid_to_prefixes, {p})
    BY <1>3 DEF DeleteAll
  <2>2. Coupled(prefix_to_pids', pid_to_prefixes', DbPrefixes)
    BY <2>1, <1>5, CoupledDeleteAll
  <2>3. DOMAIN prefix_to_pids' = {x \in DOMAIN prefix_to_pids : x[2] # p}
    BY <1>3, DeleteAllDomains
  <2> QED
    BY <2>2, <2>3
<1>8. /\ DOMAIN pid_to_keys' = DOMAIN pid_to_keys \ {p}
      /\ DOMAIN pid_to_prefixes' = DOMAIN pid_to_prefixes \ {p}
  BY <1>3 DEF DeleteAll, Drop
<1>9. /\ Indexed(idx_by_pid, pid_by_idx, DOMAIN pid_to_prefixes, issued)
      /\ DOMAIN idx_by_pid = DOMAIN pid_to_prefixes /\ issued' = issued
  BY <1>3 DEF WInv, Indexed, DeleteAll
<1>10. CASE p \in DOMAIN idx_by_pid
  <2>1. /\ tree' = TreeDelete(Get(pid_to_prefixes, p), idx_by_pid[p])
        /\ pid_by_idx' = Drop(pid_by_idx, {idx_by_pid[p]})
        /\ idx_by_pid' = Drop(idx_by_pid, {p})
    BY <1>3, <1>10 DEF DeleteAll
  <2>2. Indexed(idx_by_pid', pid_by_idx', DOMAIN pid_to_prefixes \ {p}, issued)
    BY <2>1, <1>9, <1>10, IndexDrop
  <2>3. \A n \in Get(pid_to_prefixes, p) : <<n, p>> \in DOMAIN prefix_to_pids
    BY <1>5 DEF Coupled
  <2>4. \E x \in DOMAIN prefix_to_pids : x[2] = p
    <3>1. PICK n \in Get(pid_to_prefixes, p) : TRUE
      BY <1>5, <1>9, <1>10 DEF Coupled, Get
    <3> QED
      BY <2>3
  <2>5. DOMAIN prefix_to_pids'
          = {x \in DOMAIN prefix_to_pids : ~(x[2] = p /\ x[1] \in Get(pid_to_prefixes, p))}
    <3>1. ASSUME NEW x \in DOMAIN prefix_to_pids, x[2] = p
          PROVE  x[1] \in Get(pid_to_prefixes, p)
      <4>1. x = <<x[1], x[2]>> /\ x[1] \in DbPrefixes
        BY <1>5 DEF Coupled
      <4> QED
        BY <4>1, <3>1, <1>5 DEF Coupled
    <3> QED
      BY <3>1, <1>7
  <2>6. \A x \in DOMAIN prefix_to_pids' : idx_by_pid'[x[2]] = idx_by_pid[x[2]]
    <3>1. \A x \in DOMAIN prefix_to_pids' : x[2] \in DOMAIN idx_by_pid \ {p}
      BY <1>7, <1>9, PrefixFacts
    <3> QED
      BY <3>1, <2>1 DEF Drop
  <2>7. TreeOf(tree', DOMAIN prefix_to_pids', idx_by_pid')
    BY <2>1, <2>3, <2>4, <2>5, <2>6, PrefixFacts, DeleteExact DEF WInv
  <2> QED
    BY <2>2, <2>7, <1>3, <1>4, <1>6, <1>7, <1>8, <1>9 DEF WInv
<1>11. CASE p \notin DOMAIN idx_by_pid
  <2>1. UNCHANGED <<tree, pid_by_idx, idx_by_pid>>
    BY <1>3, <1>11 DEF DeleteAll
  <2>2. DOMAIN prefix_to_pids' = DOMAIN prefix_to_pids
    BY <1>7, <1>9, <1>11, PrefixFacts
  <2>3. DOMAIN pid_to_prefixes' = DOMAIN pid_to_prefixes
    BY <1>8, <1>9, <1>11
  <2>4. TreeOf(tree', DOMAIN prefix_to_pids', idx_by_pid')
    BY <2>1, <2>2 DEF WInv
  <2>5. Indexed(idx_by_pid', pid_by_idx', DOMAIN pid_to_prefixes', issued')
    BY <2>1, <2>3, <1>9
  <2> QED
    BY <2>4, <2>5, <1>3, <1>4, <1>6, <1>7, <1>8 DEF WInv
<1> QED
  BY <1>10, <1>11

\* The replica is not connected, a client calls, a process exits.
LEMMA OtherSteps ==
    ASSUME WInv,
           \/ HandleNotConnected
           \/ \E t \in CallTypes : \E m \in Calls(t) : Call(m)
           \/ \E p \in Pids : Dies(p)
    PROVE  WInv'
<1>1. CASE HandleNotConnected
  <2>1. Told(inbox', monitors, alive)
    BY <1>1, ReceivedFacts DEF HandleNotConnected, CallTypes
  <2> QED
    BY <2>1, <1>1 DEF HandleNotConnected, WInv, exactVars, prefixVars
<1>2. ASSUME NEW t \in CallTypes, NEW m \in Calls(t), Call(m)
      PROVE  WInv'
  <2>1. m \in Messages
    BY DEF Messages
  <2>2. m.type # "DOWN"
    BY DEF Calls, CallTypes
  <2>3. Told(inbox', monitors, alive)
    BY <2>1, <2>2, <1>2, ToldSent DEF Call, WInv
  <2> QED
    BY <2>3, <1>2 DEF Call, WInv, exactVars, prefixVars
<1>3. ASSUME NEW p \in Pids, Dies(p)
      PROVE  WInv'
  <2>1. Told(inbox', monitors, alive \ {p})
    BY <1>3, ToldDies DEF Dies, WInv
  <2> QED
    BY <2>1, <1>3 DEF Dies, WInv, exactVars, prefixVars
<1> QED
  BY <1>1, <1>2, <1>3

\* Every step preserves it.
LEMMA NextWInv ==
    ASSUME WInv, [Next]_vars
    PROVE  WInv'
<1>1. CASE UNCHANGED vars
  BY <1>1 DEF WInv, vars, exactVars, prefixVars
<1> QED
  BY <1>1, WatchStep, WatchPrefixStep, UnwatchStep, UnwatchPrefixStep, DownStep, OtherSteps
     DEF Next, Handle

----------------------------------------------------------------------------
(* The theorems *)

\* The inductive invariant holds in every reachable state.
THEOREM WatchInductive == Spec => []WInv
  BY InitWInv, NextWInv, PTL DEF Spec

\* The maps keep their types and no map keeps an entry with an empty set.
THEOREM WatchTypeCorrect == Spec => []TypeOK
<1>1. WInv => TypeOK
  <2> SUFFICES ASSUME WInv PROVE TypeOK
    OBVIOUS
  <2>1. /\ DOMAIN key_to_pids \subseteq DbKeys \X Pids
        /\ \A x \in DOMAIN key_to_pids : key_to_pids[x] \in Refs
        /\ DOMAIN pid_to_keys \subseteq Pids
        /\ \A p \in DOMAIN pid_to_keys : pid_to_keys[p] \in (SUBSET DbKeys) \ {{}}
    BY DEF WInv, Coupled, Get
  <2>2. /\ DOMAIN prefix_to_pids \subseteq DbPrefixes \X Pids
        /\ \A x \in DOMAIN prefix_to_pids : prefix_to_pids[x] \in Refs
        /\ DOMAIN pid_to_prefixes \subseteq Pids
        /\ \A p \in DOMAIN pid_to_prefixes : pid_to_prefixes[p] \in (SUBSET DbPrefixes) \ {{}}
    BY DEF WInv, Coupled, Get
  <2>3. /\ issued \in Nat /\ DOMAIN pid_by_idx \subseteq 1..issued
        /\ \A i \in DOMAIN pid_by_idx : pid_by_idx[i] \in Pids
        /\ DOMAIN idx_by_pid \subseteq Pids
        /\ \A p \in DOMAIN idx_by_pid : idx_by_pid[p] \in 1..issued
    BY <2>2 DEF WInv, Indexed
  <2>4. \A n \in DOMAIN tree : tree[n] \subseteq 1..issued
    <3>1. \A n \in DOMAIN tree : \A q \in Watchers(n, DOMAIN prefix_to_pids) : q \in DOMAIN idx_by_pid
      <4>1. ASSUME NEW n, NEW q, <<n, q>> \in DOMAIN prefix_to_pids
            PROVE  q \in DOMAIN idx_by_pid
        <5>1. PICK x \in DOMAIN prefix_to_pids : x = <<n, q>>
          BY <4>1
        <5> QED
          BY <5>1, PrefixFacts DEF WInv, Indexed
      <4> QED
        BY <4>1 DEF Watchers
    <3> QED
      BY <3>1, <2>3 DEF WInv, TreeOf
  <2>5. monitors \subseteq Pids /\ alive \subseteq Pids /\ inbox \in Seq(Messages)
    BY DEF WInv, Told
  <2> QED
    BY <2>1, <2>2, <2>3, <2>4, <2>5 DEF TypeOK
<1> QED
  BY <1>1, WatchInductive, PTL

\* Exactly the processes with a watch are monitored, and the dead among them
\* have their DOWN message on the way.
THEOREM MonitoredOrGoneAlways == Spec => []MonitoredOrGone
<1>1. WInv => MonitoredOrGone
  BY DEF WInv, Told, In, MonitoredOrGone
<1> QED
  BY <1>1, WatchInductive, PTL

\* Every node of the tree leads to a watcher, every watcher in it has its index.
THEOREM NoLeakAlways == Spec => []NoLeak
<1>1. WInv => NoLeak
  <2> SUFFICES ASSUME WInv PROVE NoLeak
    OBVIOUS
  <2>1. /\ DOMAIN tree = Paths(DOMAIN prefix_to_pids)
        /\ \A m \in DOMAIN tree :
              tree[m] = {idx_by_pid[q] : q \in Watchers(m, DOMAIN prefix_to_pids)}
    BY DEF WInv, TreeOf
  <2>2. /\ DOMAIN idx_by_pid = DOMAIN pid_to_prefixes
        /\ \A p \in DOMAIN idx_by_pid : idx_by_pid[p] \in DOMAIN pid_by_idx
    BY DEF WInv, Indexed
  <2>3. \A x \in DOMAIN prefix_to_pids :
           x = <<x[1], x[2]>> /\ x[2] \in Pids /\ x[2] \in DOMAIN idx_by_pid
    BY <2>2, PrefixFacts
  <2>4. ASSUME NEW m \in DOMAIN tree
        PROVE  \E n \in DOMAIN tree : m \in Above(n) /\ tree[n] # {}
    <3>1. PICK x \in DOMAIN prefix_to_pids : m \in Above(x[1]) /\ x[1] \in DOMAIN tree
      BY <2>1, PrefixFacts, PathsFacts
    <3>2. x[2] \in Watchers(x[1], DOMAIN prefix_to_pids)
      BY <2>3 DEF Watchers
    <3>3. tree[x[1]] = {idx_by_pid[q] : q \in Watchers(x[1], DOMAIN prefix_to_pids)}
      BY <3>1, <2>1
    <3>4. tree[x[1]] # {}
      BY <3>2, <3>3
    <3> QED
      BY <3>1, <3>4
  <2>5. ASSUME NEW m \in DOMAIN tree, NEW q \in Watchers(m, DOMAIN prefix_to_pids)
        PROVE  idx_by_pid[q] \in DOMAIN pid_by_idx
    <3>1. PICK x \in DOMAIN prefix_to_pids : x = <<m, q>>
      BY DEF Watchers
    <3> QED
      BY <3>1, <2>2, <2>3
  <2>6. \A m \in DOMAIN tree : tree[m] \subseteq DOMAIN pid_by_idx
    BY <2>1, <2>5
  <2> QED
    BY <2>2, <2>4, <2>6 DEF NoLeak
<1> QED
  BY <1>1, WatchInductive, PTL

\* lookup_prefix finds the watches whose prefix a key starts with, all of them
\* and no other, and the inverse maps name the processes of the watches.
THEOREM LookupsExactAlways == Spec => []LookupsExact
<1>1. WInv => LookupsExact
  <2> SUFFICES ASSUME WInv PROVE LookupsExact
    OBVIOUS
  <2>1. ASSUME NEW n \in DbKeys \cup DbPrefixes, NEW y \in DOMAIN prefix_to_pids,
               y[1][1] = n[1], StartsWith(n[2], y[1][2])
        PROVE  /\ \E i \in TreeLookup(n) \cap DOMAIN pid_by_idx : pid_by_idx[i] = y[2]
               /\ y[1] \in Get(pid_to_prefixes, y[2])
    <3>1. y = <<y[1], y[2]>> /\ y[1] \in DbPrefixes /\ y[2] \in Pids
      BY DEF WInv, Coupled
    <3>2. y[1] \in Get(pid_to_prefixes, y[2])
      BY <3>1 DEF WInv, Coupled
    <3>3. Name(n) /\ Name(y[1])
      BY <3>1, WatchConstants DEF Name
    <3>4. y[1] \in Above(n)
      <4>1. Len(y[1][2]) \in 0..Len(n[2])
        BY <2>1, <3>3 DEF StartsWith, Name
      <4>2. y[1] = <<n[1], SubSeq(n[2], 1, Len(y[1][2]))>>
        BY <2>1, <3>3 DEF StartsWith, Name
      <4> QED
        BY <4>1, <4>2 DEF Above
    <3>5. y[1] \in DOMAIN tree /\ Above(y[1]) \subseteq DOMAIN tree
      BY PrefixFacts, PathsFacts DEF WInv, TreeOf
    <3>6. idx_by_pid[y[2]] \in tree[y[1]]
      <4>1. y[2] \in Watchers(y[1], DOMAIN prefix_to_pids)
        BY <3>1 DEF Watchers
      <4>2. tree[y[1]] = {idx_by_pid[q] : q \in Watchers(y[1], DOMAIN prefix_to_pids)}
        BY <3>5 DEF WInv, TreeOf
      <4> QED
        BY <4>1, <4>2
    <3>7. idx_by_pid[y[2]] \in TreeLookup(n)
      BY <3>4, <3>5, <3>6 DEF TreeLookup
    <3>8. idx_by_pid[y[2]] \in DOMAIN pid_by_idx /\ pid_by_idx[idx_by_pid[y[2]]] = y[2]
      BY PrefixFacts DEF WInv, Indexed
    <3> QED
      BY <3>2, <3>7, <3>8
  <2>2. ASSUME NEW n \in DbKeys \cup DbPrefixes
        PROVE  LookupPrefix(n) = {<<prefix_to_pids[x], x[2]>> : x \in
                  {y \in DOMAIN prefix_to_pids : y[1][1] = n[1] /\ StartsWith(n[2], y[1][2])}}
    <3>1. {y \in DOMAIN prefix_to_pids :
              /\ \E i \in TreeLookup(n) \cap DOMAIN pid_by_idx : pid_by_idx[i] = y[2]
              /\ y[1] \in Get(pid_to_prefixes, y[2])
              /\ y[1][1] = n[1] /\ StartsWith(n[2], y[1][2])}
          = {y \in DOMAIN prefix_to_pids : y[1][1] = n[1] /\ StartsWith(n[2], y[1][2])}
      BY <2>1
    <3> QED
      BY <3>1, Zenon DEF LookupPrefix
  <2>3. ASSUME NEW p \in Pids
        PROVE  /\ Get(pid_to_keys, p) = {n \in DbKeys : <<n, p>> \in DOMAIN key_to_pids}
               /\ Get(pid_to_prefixes, p) = {n \in DbPrefixes : <<n, p>> \in DOMAIN prefix_to_pids}
    BY DEF WInv, Coupled
  <2> QED
    BY <2>2, <2>3 DEF LookupsExact
<1> QED
  BY <1>1, WatchInductive, PTL

----------------------------------------------------------------------------
(* The refinement: one set of subscriptions *)

\* The subscriptions of one kind, as Implements maps them.
Entries(f, names) == DOMAIN f \subseteq names \X Pids
Subs(kind, f) == {<<x[2], <<kind, x[1]>>, f[x]>> : x \in DOMAIN f}

\* A subscription is the entry of its name and its process.
LEMMA SubsFacts ==
    ASSUME NEW kind, NEW f, NEW names, Entries(f, names)
    PROVE  /\ \A w \in Subs(kind, f) : /\ w[1] \in Pids /\ w[2][1] = kind /\ w[2][2] \in names
                                       /\ w[2] = <<kind, w[2][2]>>
                                       /\ <<w[2][2], w[1]>> \in DOMAIN f
                                       /\ w = <<w[1], w[2], f[<<w[2][2], w[1]>>]>>
<1>1. ASSUME NEW w \in Subs(kind, f)
      PROVE  /\ w[1] \in Pids /\ w[2][1] = kind /\ w[2][2] \in names
             /\ w[2] = <<kind, w[2][2]>>
             /\ <<w[2][2], w[1]>> \in DOMAIN f
             /\ w = <<w[1], w[2], f[<<w[2][2], w[1]>>]>>
  <2>1. PICK x \in DOMAIN f : w = <<x[2], <<kind, x[1]>>, f[x]>>
    BY DEF Subs
  <2>2. x = <<x[1], x[2]>> /\ x[1] \in names /\ x[2] \in Pids
    BY DEF Entries
  <2>3. w[1] = x[2] /\ w[2] = <<kind, x[1]>> /\ w[3] = f[x]
    BY <2>1
  <2>4. w[2][1] = kind /\ w[2][2] = x[1]
    BY <2>3
  <2> QED
    BY <2>1, <2>2, <2>3, <2>4
<1> QED
  BY <1>1

\* A new entry is a new subscription.
LEMMA SubsAdd ==
    ASSUME NEW kind, NEW f, NEW names, Entries(f, names),
           NEW p \in Pids, NEW n \in names, NEW r, <<n, p>> \notin DOMAIN f
    PROVE  /\ Subs(kind, Put(f, <<n, p>>, r)) = Subs(kind, f) \cup {<<p, <<kind, n>>, r>>}
           /\ \A w \in Subs(kind, f) : ~(w[1] = p /\ w[2] = <<kind, n>>)
<1>1. PICK f2 : f2 = Put(f, <<n, p>>, r)
  OBVIOUS
<1>2. PICK new : new = <<n, p>>
  OBVIOUS
<1>3. DOMAIN f2 = DOMAIN f \cup {new} /\ f2[new] = r /\ \A x \in DOMAIN f : f2[x] = f[x]
  BY <1>1, <1>2 DEF Put
<1>4. new[1] = n /\ new[2] = p
  BY <1>2
<1>5. \A w : w \in Subs(kind, f2) <=> \E x \in DOMAIN f2 : w = <<x[2], <<kind, x[1]>>, f2[x]>>
  BY DEF Subs
<1>6. \A w : w \in Subs(kind, f) <=> \E x \in DOMAIN f : w = <<x[2], <<kind, x[1]>>, f[x]>>
  BY DEF Subs
<1>7. \A w : w \in Subs(kind, f2) <=> w \in Subs(kind, f) \/ w = <<p, <<kind, n>>, r>>
  BY <1>3, <1>4, <1>5, <1>6
<1>8. \A w \in Subs(kind, f) : ~(w[1] = p /\ w[2] = <<kind, n>>)
  <2> SUFFICES ASSUME NEW w \in Subs(kind, f), w[1] = p, w[2] = <<kind, n>>
               PROVE  FALSE
    OBVIOUS
  <2>1. <<w[2][2], w[1]>> \in DOMAIN f
    BY SubsFacts
  <2>2. w[2][2] = n
    OBVIOUS
  <2> QED
    BY <2>1, <2>2
<1> QED
  BY <1>1, <1>7, <1>8

\* An entry that goes takes its subscription along.
LEMMA SubsDelete ==
    ASSUME NEW kind, NEW f, NEW names, Entries(f, names),
           NEW p \in Pids, NEW n \in names, <<n, p>> \in DOMAIN f
    PROVE  \A w : w \in Subs(kind, Drop(f, {<<n, p>>})) <=>
                     w \in Subs(kind, f) /\ ~(w[1] = p /\ w[2] = <<kind, n>>)
<1>1. PICK f2 : f2 = Drop(f, {<<n, p>>})
  OBVIOUS
<1>2. DOMAIN f2 = DOMAIN f \ {<<n, p>>} /\ \A x \in DOMAIN f2 : f2[x] = f[x]
  BY <1>1 DEF Drop
<1>3. ASSUME NEW w \in Subs(kind, f2)
      PROVE  w \in Subs(kind, f) /\ ~(w[1] = p /\ w[2] = <<kind, n>>)
  <2>1. PICK x \in DOMAIN f2 : w = <<x[2], <<kind, x[1]>>, f2[x]>>
    BY DEF Subs
  <2>2. x \in DOMAIN f /\ f2[x] = f[x] /\ x = <<x[1], x[2]>> /\ x # <<n, p>>
    BY <1>2 DEF Entries
  <2>3. w \in Subs(kind, f)
    BY <2>1, <2>2 DEF Subs
  <2>4. w[1] = x[2] /\ w[2] = <<kind, x[1]>>
    BY <2>1
  <2> QED
    BY <2>2, <2>3, <2>4
<1>4. ASSUME NEW w \in Subs(kind, f), ~(w[1] = p /\ w[2] = <<kind, n>>)
      PROVE  w \in Subs(kind, f2)
  <2>1. PICK x \in DOMAIN f : w = <<x[2], <<kind, x[1]>>, f[x]>>
    BY DEF Subs
  <2>2. w[1] = x[2] /\ w[2] = <<kind, x[1]>> /\ x = <<x[1], x[2]>>
    BY <2>1 DEF Entries
  <2>3. x \in DOMAIN f2 /\ f2[x] = f[x]
    BY <2>2, <1>2, <1>4
  <2> QED
    BY <2>1, <2>3 DEF Subs
<1> QED
  BY <1>1, <1>3, <1>4

\* A process that is forgotten loses all its subscriptions.
LEMMA SubsDeleteAll ==
    ASSUME NEW kind, NEW f, NEW names, Entries(f, names), NEW p \in Pids,
           NEW f2, \A x : x \in DOMAIN f2 <=> x \in DOMAIN f /\ x[2] # p,
           \A x \in DOMAIN f2 : f2[x] = f[x]
    PROVE  \A w : w \in Subs(kind, f2) <=> w \in Subs(kind, f) /\ w[1] # p
<1>1. ASSUME NEW w \in Subs(kind, f2)
      PROVE  w \in Subs(kind, f) /\ w[1] # p
  <2>1. PICK x \in DOMAIN f2 : w = <<x[2], <<kind, x[1]>>, f2[x]>>
    BY DEF Subs
  <2>2. x \in DOMAIN f /\ f2[x] = f[x] /\ x[2] # p
    OBVIOUS
  <2>3. w \in Subs(kind, f)
    BY <2>1, <2>2 DEF Subs
  <2> QED
    BY <2>1, <2>2, <2>3
<1>2. ASSUME NEW w \in Subs(kind, f), w[1] # p
      PROVE  w \in Subs(kind, f2)
  <2>1. PICK x \in DOMAIN f : w = <<x[2], <<kind, x[1]>>, f[x]>>
    BY DEF Subs
  <2>2. x[2] # p
    BY <2>1, <1>2
  <2> QED
    BY <2>1, <2>2 DEF Subs
<1> QED
  BY <1>1, <1>2

W == Subs("key", key_to_pids) \cup Subs("prefix", prefix_to_pids)

\* The domains of the maps and what they are to the subscriptions.
LEMMA DomainFacts ==
    ASSUME WInv
    PROVE  /\ Entries(key_to_pids, DbKeys)
           /\ Entries(prefix_to_pids, DbPrefixes)
           /\ \A w \in Subs("key", key_to_pids) : w[2][1] = "key"
           /\ \A w \in Subs("prefix", prefix_to_pids) : w[2][1] = "prefix"
<1>1. Entries(key_to_pids, DbKeys) /\ Entries(prefix_to_pids, DbPrefixes)
  BY DEF WInv, Coupled, Entries
<1> QED
  BY <1>1, SubsFacts

\* handle_call({:watch, ...}) subscribes, or changes nothing.
LEMMA WatchRefines ==
    ASSUME WInv, HandleWatch
    PROVE  \/ \E p \in Pids, n \in {"key"} \X DbKeys, r \in Refs :
                 /\ \A w \in W : ~(w[1] = p /\ w[2] = n)
                 /\ W' = W \cup {<<p, n, r>>}
                 /\ alive' = alive
           \/ UNCHANGED <<W, alive>>
<1>1. PICK m \in Messages : m = Head(inbox) /\ m.type = "watch"
  BY ReceivedFacts DEF HandleWatch
<1>2. PICK p \in Pids, n \in DbKeys, r \in Refs : p = m.pid /\ n = m.at /\ r = m.ref
  BY <1>1, MessageFacts
<1>3. prefix_to_pids' = prefix_to_pids /\ alive' = alive
  BY DEF HandleWatch, prefixVars
<1>4. CASE /\ <<n, p>> \notin DOMAIN key_to_pids
           /\ key_to_pids' = Put(key_to_pids, <<n, p>>, r)
  <2>1. PICK name \in {"key"} \X DbKeys : name = <<"key", n>>
    OBVIOUS
  <2>2. Entries(key_to_pids, DbKeys)
    BY DomainFacts
  <2>3. Subs("key", key_to_pids') = Subs("key", key_to_pids) \cup {<<p, name, r>>}
    BY <2>1, <2>2, <1>4, SubsAdd
  <2>4. \A w \in Subs("key", key_to_pids) : ~(w[1] = p /\ w[2] = name)
    BY <2>1, <2>2, <1>4, SubsAdd
  <2>5. \A w \in Subs("prefix", prefix_to_pids) : w[2] # name
    BY <2>1, DomainFacts
  <2>6. W' = W \cup {<<p, name, r>>}
    BY <2>3, <1>3 DEF W
  <2> QED
    BY <2>4, <2>5, <2>6, <1>3 DEF W
<1>5. CASE key_to_pids' = key_to_pids
  BY <1>3, <1>5 DEF W
<1> QED
  BY <1>1, <1>2, <1>4, <1>5 DEF HandleWatch, exactVars

\* handle_call({:watch_prefix, ...}) does, too.
LEMMA WatchPrefixRefines ==
    ASSUME WInv, HandleWatchPrefix
    PROVE  \/ \E p \in Pids, n \in {"prefix"} \X DbPrefixes, r \in Refs :
                 /\ \A w \in W : ~(w[1] = p /\ w[2] = n)
                 /\ W' = W \cup {<<p, n, r>>}
                 /\ alive' = alive
           \/ UNCHANGED <<W, alive>>
<1>1. PICK m \in Messages : m = Head(inbox) /\ m.type = "watch_prefix"
  BY ReceivedFacts DEF HandleWatchPrefix
<1>2. PICK p \in Pids, n \in DbPrefixes, r \in Refs : p = m.pid /\ n = m.at /\ r = m.ref
  BY <1>1, MessageFacts
<1>3. key_to_pids' = key_to_pids /\ alive' = alive
  BY DEF HandleWatchPrefix, exactVars
<1>4. CASE /\ <<n, p>> \notin DOMAIN prefix_to_pids
           /\ prefix_to_pids' = Put(prefix_to_pids, <<n, p>>, r)
  <2>1. PICK name \in {"prefix"} \X DbPrefixes : name = <<"prefix", n>>
    OBVIOUS
  <2>2. Entries(prefix_to_pids, DbPrefixes)
    BY DomainFacts
  <2>3. Subs("prefix", prefix_to_pids') = Subs("prefix", prefix_to_pids) \cup {<<p, name, r>>}
    BY <2>1, <2>2, <1>4, SubsAdd
  <2>4. \A w \in Subs("prefix", prefix_to_pids) : ~(w[1] = p /\ w[2] = name)
    BY <2>1, <2>2, <1>4, SubsAdd
  <2>5. \A w \in Subs("key", key_to_pids) : w[2] # name
    BY <2>1, DomainFacts
  <2>6. W' = W \cup {<<p, name, r>>}
    BY <2>3, <1>3 DEF W
  <2> QED
    BY <2>4, <2>5, <2>6, <1>3 DEF W
<1>5. CASE prefix_to_pids' = prefix_to_pids
  BY <1>3, <1>5 DEF W
<1> QED
  BY <1>1, <1>2, <1>4, <1>5 DEF HandleWatchPrefix, prefixVars

\* handle_call({:unwatch, ...}) ends one subscription, or changes nothing.
LEMMA UnwatchRefines ==
    ASSUME WInv, HandleUnwatch
    PROVE  \/ \E p \in Pids, n \in {"key"} \X DbKeys :
                 /\ \E w \in W : w[1] = p /\ w[2] = n
                 /\ W' = {w \in W : ~(w[1] = p /\ w[2] = n)}
                 /\ alive' = alive
           \/ UNCHANGED <<W, alive>>
<1>1. PICK m \in Messages : m = Head(inbox) /\ m.type = "unwatch"
  BY ReceivedFacts DEF HandleUnwatch
<1>2. PICK p \in Pids, n \in DbKeys : p = m.pid /\ n = m.at
  BY <1>1, MessageFacts
<1>3. prefix_to_pids' = prefix_to_pids /\ alive' = alive
  BY DEF HandleUnwatch, prefixVars
<1>4. CASE /\ <<n, p>> \in DOMAIN key_to_pids
           /\ key_to_pids' = Drop(key_to_pids, {<<n, p>>})
  <2>1. PICK name \in {"key"} \X DbKeys : name = <<"key", n>>
    OBVIOUS
  <2>2. Entries(key_to_pids, DbKeys)
    BY DomainFacts
  <2>3. \A w : w \in Subs("key", key_to_pids') <=>
                w \in Subs("key", key_to_pids) /\ ~(w[1] = p /\ w[2] = name)
    BY <2>1, <2>2, <1>4, SubsDelete
  <2>4. \E w \in Subs("key", key_to_pids) : w[1] = p /\ w[2] = name
    <3>1. PICK x \in DOMAIN key_to_pids : x = <<n, p>>
      BY <1>4
    <3>2. PICK w \in Subs("key", key_to_pids) : w = <<x[2], <<"key", x[1]>>, key_to_pids[x]>>
      BY DEF Subs
    <3> QED
      BY <2>1, <3>1, <3>2
  <2>5. \A w \in Subs("prefix", prefix_to_pids) : w[2] # name
    BY <2>1, DomainFacts
  <2>6. W' = {w \in W : ~(w[1] = p /\ w[2] = name)}
    BY <2>3, <2>5, <1>3 DEF W
  <2> QED
    BY <2>4, <2>6, <1>3 DEF W
<1>5. CASE key_to_pids' = key_to_pids
  BY <1>3, <1>5 DEF W
<1> QED
  BY <1>1, <1>2, <1>4, <1>5 DEF HandleUnwatch, exactVars

\* handle_call({:unwatch_prefix, ...}) does, too.
LEMMA UnwatchPrefixRefines ==
    ASSUME WInv, HandleUnwatchPrefix
    PROVE  \/ \E p \in Pids, n \in {"prefix"} \X DbPrefixes :
                 /\ \E w \in W : w[1] = p /\ w[2] = n
                 /\ W' = {w \in W : ~(w[1] = p /\ w[2] = n)}
                 /\ alive' = alive
           \/ UNCHANGED <<W, alive>>
<1>1. PICK m \in Messages : m = Head(inbox) /\ m.type = "unwatch_prefix"
  BY ReceivedFacts DEF HandleUnwatchPrefix
<1>2. PICK p \in Pids, n \in DbPrefixes : p = m.pid /\ n = m.at
  BY <1>1, MessageFacts
<1>3. key_to_pids' = key_to_pids /\ alive' = alive
  BY DEF HandleUnwatchPrefix, exactVars
<1>4. CASE /\ <<n, p>> \in DOMAIN prefix_to_pids
           /\ prefix_to_pids' = Drop(prefix_to_pids, {<<n, p>>})
  <2>1. PICK name \in {"prefix"} \X DbPrefixes : name = <<"prefix", n>>
    OBVIOUS
  <2>2. Entries(prefix_to_pids, DbPrefixes)
    BY DomainFacts
  <2>3. \A w : w \in Subs("prefix", prefix_to_pids') <=>
                w \in Subs("prefix", prefix_to_pids) /\ ~(w[1] = p /\ w[2] = name)
    BY <2>1, <2>2, <1>4, SubsDelete
  <2>4. \E w \in Subs("prefix", prefix_to_pids) : w[1] = p /\ w[2] = name
    <3>1. PICK x \in DOMAIN prefix_to_pids : x = <<n, p>>
      BY <1>4
    <3>2. PICK w \in Subs("prefix", prefix_to_pids) : w = <<x[2], <<"prefix", x[1]>>, prefix_to_pids[x]>>
      BY DEF Subs
    <3> QED
      BY <2>1, <3>1, <3>2
  <2>5. \A w \in Subs("key", key_to_pids) : w[2] # name
    BY <2>1, DomainFacts
  <2>6. W' = {w \in W : ~(w[1] = p /\ w[2] = name)}
    BY <2>3, <2>5, <1>3 DEF W
  <2> QED
    BY <2>4, <2>6, <1>3 DEF W
<1>5. CASE prefix_to_pids' = prefix_to_pids
  BY <1>3, <1>5 DEF W
<1> QED
  BY <1>1, <1>2, <1>4, <1>5 DEF HandleUnwatchPrefix, prefixVars

\* delete_all purges a process, and a dead one.
LEMMA DownRefines ==
    ASSUME WInv, HandleDown
    PROVE  \E p \in Pids : /\ p \notin alive
                           /\ W' = {w \in W : w[1] # p}
                           /\ alive' = alive
<1>1. PICK m \in Messages : m = Head(inbox) /\ m.type = "DOWN" /\ inbox # <<>>
  BY ReceivedFacts DEF HandleDown
<1>2. PICK p \in Pids : p = m.pid /\ m = Down(p)
  BY <1>1, MessageFacts
<1>3. DeleteAll(p) /\ alive' = alive
  BY <1>1, <1>2 DEF HandleDown
<1>4. p \notin alive
  BY <1>1, <1>2, ToldDown DEF WInv
<1>5. PICK f, g : f = key_to_pids' /\ g = prefix_to_pids'
  OBVIOUS
<1>6. /\ \A x : x \in DOMAIN f <=> x \in DOMAIN key_to_pids /\ x[2] # p
      /\ \A x : x \in DOMAIN g <=> x \in DOMAIN prefix_to_pids /\ x[2] # p
  BY <1>3, <1>5, DeleteAllDomains
<1>7. (\A x \in DOMAIN f : f[x] = key_to_pids[x]) /\ (\A x \in DOMAIN g : g[x] = prefix_to_pids[x])
  BY <1>3, <1>5 DEF DeleteAll, Drop
<1>8. Entries(key_to_pids, DbKeys) /\ Entries(prefix_to_pids, DbPrefixes)
  BY DomainFacts
<1>9. \A w : w \in Subs("key", f) <=> w \in Subs("key", key_to_pids) /\ w[1] # p
  BY <1>6, <1>7, <1>8, SubsDeleteAll
<1>10. \A w : w \in Subs("prefix", g) <=> w \in Subs("prefix", prefix_to_pids) /\ w[1] # p
  BY <1>6, <1>7, <1>8, SubsDeleteAll
<1>13. W' = {w \in W : w[1] # p}
  BY <1>5, <1>9, <1>10 DEF W
<1> QED
  BY <1>3, <1>4, <1>13

\* The coupled maps, the tree and the mailbox implement one set of
\* subscriptions: a process subscribes to a name at most once, and loses its
\* subscriptions when it has exited, never before.
THEOREM WatchImplementsTable == Spec => Implements
<1>1. Init => Table!Init
  <2> SUFFICES ASSUME Init PROVE Table!Init
    OBVIOUS
  <2>1. DOMAIN key_to_pids = {} /\ DOMAIN prefix_to_pids = {} /\ alive = Pids
    BY DEF Init
  <2> QED
    BY <2>1 DEF Table!Init
<1>2. WInv /\ [Next]_vars =>
        [Table!Next]_<<{<<x[2], <<"key", x[1]>>, key_to_pids[x]>> : x \in DOMAIN key_to_pids}
                        \cup {<<x[2], <<"prefix", x[1]>>, prefix_to_pids[x]>> :
                                x \in DOMAIN prefix_to_pids}, alive>>
  <2> SUFFICES ASSUME WInv, [Next]_vars
               PROVE  Table!Next \/ UNCHANGED <<W, alive>>
    BY DEF W, Subs
  <2>1. ASSUME NEW p \in Pids, NEW n \in ({"key"} \X DbKeys) \cup ({"prefix"} \X DbPrefixes),
               NEW r \in Refs,
               \A w \in W : ~(w[1] = p /\ w[2] = n), W' = W \cup {<<p, n, r>>}, alive' = alive
        PROVE  Table!Next
    <3>1. Table!Subscribe(p, n, r)
      BY <2>1 DEF Table!Subscribe, Table!Of, W, Subs
    <3> QED
      BY <3>1 DEF Table!Next
  <2>2. ASSUME NEW p \in Pids, NEW n \in ({"key"} \X DbKeys) \cup ({"prefix"} \X DbPrefixes),
               \E w \in W : w[1] = p /\ w[2] = n,
               W' = {w \in W : ~(w[1] = p /\ w[2] = n)}, alive' = alive
        PROVE  Table!Next
    <3>1. Table!Unsubscribe(p, n)
      BY <2>2 DEF Table!Unsubscribe, Table!Of, W, Subs
    <3> QED
      BY <3>1 DEF Table!Next
  <2>3. ASSUME NEW p \in Pids, p \notin alive, W' = {w \in W : w[1] # p}, alive' = alive
        PROVE  Table!Next
    <3>1. Table!Purge(p)
      BY <2>3 DEF Table!Purge, Table!Of, W, Subs
    <3> QED
      BY <3>1 DEF Table!Next
  <2>4. ASSUME NEW p \in Pids, Dies(p)
        PROVE  Table!Next
    <3>1. Table!Dies(p)
      BY <2>4 DEF Dies, Table!Dies, exactVars, prefixVars
    <3> QED
      BY <3>1 DEF Table!Next
  <2>5. CASE HandleWatch
    BY <2>5, <2>1, WatchRefines
  <2>6. CASE HandleWatchPrefix
    BY <2>6, <2>1, WatchPrefixRefines
  <2>7. CASE HandleUnwatch
    BY <2>7, <2>2, UnwatchRefines
  <2>8. CASE HandleUnwatchPrefix
    BY <2>8, <2>2, UnwatchPrefixRefines
  <2>9. CASE HandleDown
    BY <2>9, <2>3, DownRefines
  <2>10. CASE HandleNotConnected
    BY <2>10 DEF HandleNotConnected, exactVars, prefixVars, W
  <2>11. CASE \E t \in CallTypes : \E m \in Calls(t) : Call(m)
    BY <2>11 DEF Call, exactVars, prefixVars, W
  <2>12. CASE UNCHANGED vars
    BY <2>12 DEF vars, exactVars, prefixVars, W
  <2> QED
    BY <2>4, <2>5, <2>6, <2>7, <2>8, <2>9, <2>10, <2>11, <2>12 DEF Next, Handle
<1> QED
  BY <1>1, <1>2, WatchInductive, PTL DEF Implements, Table!Spec, Spec
=============================================================================
