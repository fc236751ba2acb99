------------------------------- MODULE Watch --------------------------------
(***************************************************************************)
(* The watches of an instance: the coupled maps of Vdr.TS.Watch            *)
(* (lib/veidrodelis/ts/watch.ex), the prefix tree behind it                *)
(* (native/vdr_ts_nif/src/lib.rs) and the calls and DOWN messages through  *)
(* which Vdr.TSProj changes them (lib/veidrodelis/ts_proj.ex).             *)
(*                                                                         *)
(* The nested maps db -> name -> pid -> ref are functions of <<db, name,   *)
(* pid>> that are defined where the maps have an entry; a name is a        *)
(* sequence of bytes.                                                      *)
(***************************************************************************)
EXTENDS Naturals, Sequences, FiniteSets, SequencesExt

CONSTANTS
    Pids,           \* client processes
    Refs,           \* references of watches: terms other than nil and false
    DbKeys,         \* pairs <<db, key>> clients watch
    DbPrefixes,     \* pairs <<db, prefix>> clients watch
    MaxCalls,       \* bound on the calls waiting in the mailbox
    MaxIdx          \* bound on the indices the clients ask for

ASSUME WatchConstants ==
    /\ MaxCalls \in Nat /\ MaxIdx \in Nat
    /\ \A n \in DbKeys \cup DbPrefixes : n = <<n[1], n[2]>> /\ n[2] \in Seq(Nat)

VARIABLES
    key_to_pids, pid_to_keys,           \* exact watches, and their inverse
    prefix_to_pids, pid_to_prefixes,    \* prefix watches, and their inverse
    pid_by_idx, idx_by_pid,             \* the tree knows processes by index
    tree,                               \* the radix tree: node -> watchers
    issued,                             \* indices handed out so far
    monitors,                           \* processes with a monitor
    alive,                              \* processes that have not exited
    inbox                               \* calls and DOWN messages, oldest first

exactVars == <<key_to_pids, pid_to_keys>>
prefixVars == <<prefix_to_pids, pid_to_prefixes, pid_by_idx, idx_by_pid, tree, issued>>
vars == <<exactVars, prefixVars, monitors, alive, inbox>>

CallTypes == {"watch", "watch_prefix", "unwatch", "unwatch_prefix"}
Calls(t) == [type : {t}, pid : Pids, at : IF t \in {"watch", "unwatch"} THEN DbKeys ELSE DbPrefixes,
             ref : Refs]
Down(p) == [type |-> "DOWN", pid |-> p]
Downs == {Down(p) : p \in Pids}
Messages == (UNION {Calls(t) : t \in CallTypes}) \cup Downs

----------------------------------------------------------------------------
(* Partial functions, and names *)

Put(f, x, v) == [y \in DOMAIN f \cup {x} |-> IF y = x THEN v ELSE f[y]]
Drop(f, xs) == [y \in DOMAIN f \ xs |-> f[y]]
Get(f, x) == IF x \in DOMAIN f THEN f[x] ELSE {}

\* String.starts_with?
StartsWith(key, prefix) == Len(prefix) <= Len(key) /\ SubSeq(key, 1, Len(prefix)) = prefix

Above(n) == {<<n[1], SubSeq(n[2], 1, k)>> : k \in 0..Len(n[2])}

----------------------------------------------------------------------------
(* RadixNode: insert creates the nodes down to the prefix; delete removes    *)
(* on the way back up the nodes that are left without watchers and children; *)
(* lookup goes down as long as there is a child.                             *)

TreeInsert(n, idx) ==
    [m \in DOMAIN tree \cup Above(n) |-> Get(tree, m) \cup (IF m = n THEN {idx} ELSE {})]

\* Slip for NoLeak: nodes are emptied but never removed.
TreeDeleteNoPruning(names, idx) ==
    [m \in DOMAIN tree |-> IF m \in names THEN tree[m] \ {idx} ELSE tree[m]]

TreeDelete(names, idx) ==
    LET left == [m \in DOMAIN tree |-> IF m \in names THEN tree[m] \ {idx} ELSE tree[m]]
        onPath == UNION {Above(n) : n \in names}
        needed == {m \in DOMAIN tree : m \notin onPath \/ left[m] # {}}
        kept == {m \in DOMAIN tree : m \notin onPath \/ \E n \in needed : m \in Above(n)}
    IN  [m \in kept |-> left[m]]

TreeLookup(n) == UNION {tree[m] : m \in {x \in Above(n) : Above(x) \subseteq DOMAIN tree}}

----------------------------------------------------------------------------
\* The maps of Vdr.TS.Watch have their types, and no map keeps an entry for a
\* process whose set of keys or prefixes has become empty.
TypeOK ==
    /\ DOMAIN key_to_pids \subseteq DbKeys \X Pids
    /\ \A x \in DOMAIN key_to_pids : key_to_pids[x] \in Refs
    /\ DOMAIN prefix_to_pids \subseteq DbPrefixes \X Pids
    /\ \A x \in DOMAIN prefix_to_pids : prefix_to_pids[x] \in Refs
    /\ DOMAIN pid_to_keys \subseteq Pids /\ DOMAIN pid_to_prefixes \subseteq Pids
    /\ \A p \in DOMAIN pid_to_keys : pid_to_keys[p] \in (SUBSET DbKeys) \ {{}}
    /\ \A p \in DOMAIN pid_to_prefixes : pid_to_prefixes[p] \in (SUBSET DbPrefixes) \ {{}}
    /\ issued \in Nat
    /\ DOMAIN pid_by_idx \subseteq 1..issued
    /\ \A i \in DOMAIN pid_by_idx : pid_by_idx[i] \in Pids
    /\ DOMAIN idx_by_pid \subseteq Pids
    /\ \A p \in DOMAIN idx_by_pid : idx_by_pid[p] \in 1..issued
    /\ \A n \in DOMAIN tree : tree[n] \subseteq 1..issued
    /\ monitors \subseteq Pids /\ alive \subseteq Pids
    /\ inbox \in Seq(Messages)

Init ==
    /\ key_to_pids = <<>> /\ pid_to_keys = <<>>
    /\ prefix_to_pids = <<>> /\ pid_to_prefixes = <<>>
    /\ pid_by_idx = <<>> /\ idx_by_pid = <<>>
    /\ tree = <<>>
    /\ issued = 0
    /\ monitors = {}
    /\ alive = Pids
    /\ inbox = <<>>

\* Slip for DeadForgotten: only a process that exits later is heard of.
PutWatchOfLiving(p) ==
    /\ monitors' = monitors \cup {p}
    /\ inbox' = Tail(inbox)

\* put_watch_and_monitor: a monitor of a process that is already gone answers
\* with its DOWN message at once.
PutWatchAndMonitor(p) ==
    /\ monitors' = monitors \cup {p}
    /\ inbox' = IF p \notin monitors /\ p \notin alive
                THEN Append(Tail(inbox), Down(p))
                ELSE Tail(inbox)

\* Slip for MonitoredOrGone: a watch of the other kind is not counted.
DemonitorAfterFirst(p, remaining) ==
    /\ monitors' = monitors \ {p}
    /\ inbox' = RemoveFirst(Tail(inbox), Down(p))

\* After the last watch of a process: Process.demonitor(ref, [:flush]).
DemonitorIfLast(p, remaining) ==
    \/ /\ remaining = 0
       /\ monitors' = monitors \ {p}
       /\ inbox' = RemoveFirst(Tail(inbox), Down(p))
    \/ /\ remaining # 0
       /\ inbox' = Tail(inbox)
       /\ UNCHANGED monitors

----------------------------------------------------------------------------
(* The calls *)

Receives(t) == inbox # <<>> /\ Head(inbox).type = t

\* Watch.add
HandleWatch ==
    /\ Receives("watch")
    /\ LET m == Head(inbox) IN
          \/ /\ <<m.at, m.pid>> \notin DOMAIN key_to_pids
             /\ key_to_pids' = Put(key_to_pids, <<m.at, m.pid>>, m.ref)
             /\ pid_to_keys' = Put(pid_to_keys, m.pid, Get(pid_to_keys, m.pid) \cup {m.at})
             /\ PutWatchAndMonitor(m.pid)
          \/ /\ <<m.at, m.pid>> \in DOMAIN key_to_pids          \* :already_registered
             /\ inbox' = Tail(inbox)
             /\ UNCHANGED <<exactVars, monitors>>
    /\ UNCHANGED <<prefixVars, alive>>

\* Watch.add_prefix, with ensure_pid_idx
HandleWatchPrefix ==
    /\ Receives("watch_prefix")
    /\ LET m == Head(inbox)
           known == m.pid \in DOMAIN idx_by_pid
           idx == IF known THEN idx_by_pid[m.pid] ELSE issued + 1
       IN \/ /\ <<m.at, m.pid>> \notin DOMAIN prefix_to_pids
             /\ issued' = IF known THEN issued ELSE issued + 1
             /\ pid_by_idx' = Put(pid_by_idx, idx, m.pid)
             /\ idx_by_pid' = Put(idx_by_pid, m.pid, idx)
             /\ tree' = TreeInsert(m.at, idx)
             /\ prefix_to_pids' = Put(prefix_to_pids, <<m.at, m.pid>>, m.ref)
             /\ pid_to_prefixes' = Put(pid_to_prefixes, m.pid,
                                       Get(pid_to_prefixes, m.pid) \cup {m.at})
             /\ PutWatchAndMonitor(m.pid)
          \/ /\ <<m.at, m.pid>> \in DOMAIN prefix_to_pids       \* :already_registered
             /\ inbox' = Tail(inbox)
             /\ UNCHANGED <<prefixVars, monitors>>
    /\ UNCHANGED <<exactVars, alive>>

\* A map from processes without the entries that have become empty.
Without(f, p, n) == IF f[p] = {n} THEN Drop(f, {p}) ELSE [f EXCEPT ![p] = @ \ {n}]

Count(f, p) == Cardinality(Get(f, p))

\* Watch.delete
HandleUnwatch ==
    /\ Receives("unwatch")
    /\ LET m == Head(inbox) IN
          \/ /\ <<m.at, m.pid>> \in DOMAIN key_to_pids
             /\ key_to_pids' = Drop(key_to_pids, {<<m.at, m.pid>>})
             /\ pid_to_keys' = Without(pid_to_keys, m.pid, m.at)
             /\ DemonitorIfLast(m.pid, Count(pid_to_keys', m.pid) + Count(pid_to_prefixes, m.pid))
          \/ /\ <<m.at, m.pid>> \notin DOMAIN key_to_pids       \* :not_found
             /\ inbox' = Tail(inbox)
             /\ UNCHANGED <<exactVars, monitors>>
    /\ UNCHANGED <<prefixVars, alive>>

\* Slip for LookupsExact: the index goes with any prefix, not with the last.
ForgetIdxAlways(p, prefixes) ==
    /\ pid_by_idx' = Drop(pid_by_idx, {idx_by_pid[p]})
    /\ idx_by_pid' = Drop(idx_by_pid, {p})

\* The index of a process goes with its last prefix.
ForgetIdx(p, prefixes) ==
    \/ /\ prefixes = {}
       /\ pid_by_idx' = Drop(pid_by_idx, {idx_by_pid[p]})
       /\ idx_by_pid' = Drop(idx_by_pid, {p})
    \/ /\ prefixes # {}
       /\ UNCHANGED <<pid_by_idx, idx_by_pid>>

\* Watch.delete_prefix
HandleUnwatchPrefix ==
    /\ Receives("unwatch_prefix")
    /\ LET m == Head(inbox) IN
          \/ /\ <<m.at, m.pid>> \in DOMAIN prefix_to_pids
             /\ tree' = TreeDelete({m.at}, idx_by_pid[m.pid])
             /\ prefix_to_pids' = Drop(prefix_to_pids, {<<m.at, m.pid>>})
             /\ pid_to_prefixes' = Without(pid_to_prefixes, m.pid, m.at)
             /\ ForgetIdx(m.pid, Get(pid_to_prefixes', m.pid))
             /\ DemonitorIfLast(m.pid, Count(pid_to_keys, m.pid) + Count(pid_to_prefixes', m.pid))
             /\ UNCHANGED issued
          \/ /\ <<m.at, m.pid>> \notin DOMAIN prefix_to_pids    \* :not_found
             /\ inbox' = Tail(inbox)
             /\ UNCHANGED <<prefixVars, monitors>>
    /\ UNCHANGED <<exactVars, alive>>

\* Replica answers :not_connected to a callback_call outside "replication".
HandleNotConnected ==
    /\ \E t \in CallTypes : Receives(t)
    /\ inbox' = Tail(inbox)
    /\ UNCHANGED <<exactVars, prefixVars, monitors, alive>>

\* Slip for Implements: only the prefixes of a dead process are deleted.
DeleteAllPrefixes(p) ==
    /\ prefix_to_pids' = Drop(prefix_to_pids, {<<n, p>> : n \in Get(pid_to_prefixes, p)})
    /\ pid_to_prefixes' = Drop(pid_to_prefixes, {p})
    /\ \/ /\ p \in DOMAIN idx_by_pid
          /\ tree' = TreeDelete(Get(pid_to_prefixes, p), idx_by_pid[p])
          /\ pid_by_idx' = Drop(pid_by_idx, {idx_by_pid[p]})
          /\ idx_by_pid' = Drop(idx_by_pid, {p})
       \/ /\ p \notin DOMAIN idx_by_pid
          /\ UNCHANGED <<tree, pid_by_idx, idx_by_pid>>
    /\ UNCHANGED <<exactVars, issued>>

\* Watch.delete_all
DeleteAll(p) ==
    /\ key_to_pids' = Drop(key_to_pids, {<<n, p>> : n \in Get(pid_to_keys, p)})
    /\ pid_to_keys' = Drop(pid_to_keys, {p})
    /\ prefix_to_pids' = Drop(prefix_to_pids, {<<n, p>> : n \in Get(pid_to_prefixes, p)})
    /\ pid_to_prefixes' = Drop(pid_to_prefixes, {p})
    /\ \/ /\ p \in DOMAIN idx_by_pid
          /\ tree' = TreeDelete(Get(pid_to_prefixes, p), idx_by_pid[p])
          /\ pid_by_idx' = Drop(pid_by_idx, {idx_by_pid[p]})
          /\ idx_by_pid' = Drop(idx_by_pid, {p})
       \/ /\ p \notin DOMAIN idx_by_pid
          /\ UNCHANGED <<tree, pid_by_idx, idx_by_pid>>
    /\ UNCHANGED issued

HandleDown ==
    /\ Receives("DOWN")
    /\ DeleteAll(Head(inbox).pid)
    /\ monitors' = monitors \ {Head(inbox).pid}
    /\ inbox' = Tail(inbox)
    /\ UNCHANGED alive

----------------------------------------------------------------------------
(* The clients: a call may still be on its way when its process exits, or   *)
(* when the process has stopped waiting for the answer.                     *)

Queued(types) == Cardinality({i \in 1..Len(inbox) : inbox[i].type \in types})

Call(m) ==
    /\ m.pid \in alive
    /\ Queued(CallTypes) < MaxCalls
    /\ m.type = "watch_prefix" => issued + Queued({"watch_prefix"}) < MaxIdx
    /\ inbox' = Append(inbox, m)
    /\ UNCHANGED <<exactVars, prefixVars, monitors, alive>>

Dies(p) ==
    /\ p \in alive
    /\ alive' = alive \ {p}
    /\ inbox' = IF p \in monitors THEN Append(inbox, Down(p)) ELSE inbox
    /\ UNCHANGED <<exactVars, prefixVars, monitors>>

----------------------------------------------------------------------------
Handle == \/ HandleWatch \/ HandleWatchPrefix \/ HandleUnwatch \/ HandleUnwatchPrefix
          \/ HandleNotConnected \/ HandleDown

Next == \/ Handle
        \/ \E t \in CallTypes : \E m \in Calls(t) : Call(m)
        \/ \E p \in Pids : Dies(p)

Spec == Init /\ [][Next]_vars

\* The instance processes its mailbox.
FairSpec == Spec /\ WF_vars(Handle)

----------------------------------------------------------------------------
(* Properties *)

\* lookup_prefix, as the code computes it.
LookupPrefix(n) ==
    {<<prefix_to_pids[x], x[2]>> : x \in
        {y \in DOMAIN prefix_to_pids :
            /\ \E i \in TreeLookup(n) \cap DOMAIN pid_by_idx : pid_by_idx[i] = y[2]
            /\ y[1] \in Get(pid_to_prefixes, y[2])
            /\ y[1][1] = n[1] /\ StartsWith(n[2], y[1][2])}}

\* lookup_prefix, through the tree and the indices, finds the prefix watches
\* that match a key, all of them and no other; lookup and lookup_by_db read
\* maps that list the watches of exactly the processes the inverse maps name.
LookupsExact ==
    /\ \A n \in DbKeys \cup DbPrefixes :
          LookupPrefix(n) = {<<prefix_to_pids[x], x[2]>> : x \in
             {y \in DOMAIN prefix_to_pids : y[1][1] = n[1] /\ StartsWith(n[2], y[1][2])}}
    /\ \A p \in Pids :
          /\ Get(pid_to_keys, p) = {n \in DbKeys : <<n, p>> \in DOMAIN key_to_pids}
          /\ Get(pid_to_prefixes, p) = {n \in DbPrefixes : <<n, p>> \in DOMAIN prefix_to_pids}

\* An instance that forgets watches leaves nothing behind: every node of the
\* tree leads to a watcher, every watcher in it is a live index.
NoLeak ==
    /\ \A m \in DOMAIN tree : \E n \in DOMAIN tree : m \in Above(n) /\ tree[n] # {}
    /\ \A m \in DOMAIN tree : tree[m] \subseteq DOMAIN pid_by_idx
    /\ \A p \in DOMAIN idx_by_pid : p \in DOMAIN pid_to_prefixes

\* Exactly the processes with a watch are monitored, and one of them that has
\* exited has its DOWN message on the way.
MonitoredOrGone ==
    /\ monitors = DOMAIN pid_to_keys \cup DOMAIN pid_to_prefixes
    /\ \A p \in monitors \ alive : \E i \in 1..Len(inbox) : inbox[i] = Down(p)

\* The watches of a process that has exited are forgotten for good.
DeadForgotten ==
    \A p \in Pids : (p \notin alive) ~> [](p \notin monitors /\ p \notin DOMAIN pid_to_keys)

Table == INSTANCE WatchTable WITH
            Names <- ({"key"} \X DbKeys) \cup ({"prefix"} \X DbPrefixes),
            watching <- {<<x[2], <<"key", x[1]>>, key_to_pids[x]>> : x \in DOMAIN key_to_pids}
                        \cup {<<x[2], <<"prefix", x[1]>>, prefix_to_pids[x]>> :
                                x \in DOMAIN prefix_to_pids}

\* The coupled maps and the mailbox implement one set of subscriptions.
Implements == Table!Spec
=============================================================================
