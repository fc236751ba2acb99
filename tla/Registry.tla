------------------------------ MODULE Registry ------------------------------
(***************************************************************************)
(* Vdr.Registry (lib/veidrodelis/registry.ex) and the life of the instance *)
(* processes that register with it (init and handle_streaming_start of     *)
(* lib/veidrodelis/ts_proj.ex, terminate of replica.ex).                   *)
(*                                                                         *)
(* The registry is one process with a mailbox; instances wait for its      *)
(* answers, may be killed while they wait, and may be started under an id  *)
(* whose previous owner has just died.  Readers go straight to the ETS     *)
(* table.                                                                  *)
(***************************************************************************)
EXTENDS Naturals, Sequences, SequencesExt

CONSTANTS
    Pids,           \* instance processes
    Ids,            \* instance ids
    Nil,            \* no entry, no id
    MaxRestarts     \* bound: crashes of the registry itself

ASSUME RegistryConstants ==
    /\ Nil \notin Pids \cup Ids
    /\ Nil \notin [pid : Pids, ready : BOOLEAN] /\ Nil \notin [id : Ids, ref : Nat]
    /\ MaxRestarts \in Nat

VARIABLES
    ets,            \* id -> the handle in the table, or Nil
    instances,      \* pid -> its id and the reference of its monitor, or Nil
    refs,           \* monitors created so far; a reference is a number
    status,         \* pid -> where the instance process is
    id,             \* pid -> the id it was started with
    left,           \* pids that asked to be unregistered
    inbox,          \* the registry's mailbox, oldest message first
    restarts,       \* crashes of the registry so far
    lost            \* pids whose entry went with a crash and is not back yet

vars == <<ets, instances, refs, status, id, left, inbox, restarts, lost>>

\* A process waits for the answer to a registration in init or in a swap, or
\* to an unregistration; it fails when a registration is refused or the
\* registry dies during the call, and it is terminating once terminate/2 has
\* cleared its storage.
Waiting == {"starting", "swapping", "leaving"}
Failed == {"init_failed", "swap_failed", "call_failed"}
LiveStates == {"starting", "running", "swapping", "leaving", "terminating"} \cup Failed

Handles == [pid : Pids, ready : BOOLEAN]
Messages ==
    [type : {"register"}, pid : Pids, id : Ids, ready : BOOLEAN]
    \cup [type : {"unregister"}, pid : Pids, id : Ids]
    \cup [type : {"DOWN"}, ref : Nat, pid : Pids]

\* The table, the instances map and the mailbox have their types; a reference
\* is one of the monitors the registry has created.
TypeOK ==
    /\ ets \in [Ids -> Handles \cup {Nil}]
    /\ instances \in [Pids -> [id : Ids, ref : 1..refs] \cup {Nil}]
    /\ refs \in Nat
    /\ status \in [Pids -> {"new", "dead"} \cup LiveStates]
    /\ id \in [Pids -> Ids \cup {Nil}]
    /\ left \subseteq Pids
    /\ inbox \in Seq(Messages)
    /\ restarts \in 0 .. MaxRestarts
    /\ lost \subseteq Pids

Init ==
    /\ ets = [i \in Ids |-> Nil]
    /\ instances = [p \in Pids |-> Nil]
    /\ refs = 0
    /\ status = [p \in Pids |-> "new"]
    /\ id = [p \in Pids |-> Nil]
    /\ left = {}
    /\ inbox = <<>>
    /\ restarts = 0
    /\ lost = {}

Live(p) == status[p] \in LiveStates

DownOf(p) == [type |-> "DOWN", ref |-> instances[p].ref, pid |-> p]

----------------------------------------------------------------------------
(* The registry *)

Receives(t) == inbox # <<>> /\ Head(inbox).type = t

\* The answer reaches a caller that still waits for it.
Reply(p, answer) == status' = IF Live(p) THEN [status EXCEPT ![p] = answer] ELSE status

\* Slip for OneOwner and KeepsHandle: insert instead of insert_new.
RegisterOverwrite(p, i, ready) ==
    /\ instances[p] = Nil
    /\ ets' = [ets EXCEPT ![i] = [pid |-> p, ready |-> ready]]
    /\ instances' = [instances EXCEPT ![p] = [id |-> i, ref |-> refs + 1]]
    /\ refs' = refs + 1
    /\ inbox' = Tail(inbox)
    /\ Reply(p, "running")

\* The first registration of a process: insert_new, and a monitor, which
\* answers at once for a process that has died meanwhile.
RegisterNew(p, i, ready) ==
    /\ instances[p] = Nil
    /\ ets[i] = Nil
    /\ ets' = [ets EXCEPT ![i] = [pid |-> p, ready |-> ready]]
    /\ instances' = [instances EXCEPT ![p] = [id |-> i, ref |-> refs + 1]]
    /\ refs' = refs + 1
    /\ inbox' = IF Live(p) THEN Tail(inbox)
                ELSE Append(Tail(inbox), [type |-> "DOWN", ref |-> refs + 1, pid |-> p])
    /\ Reply(p, "running")

\* An instance replaces its own handle.
RegisterAgain(p, i, ready) ==
    /\ instances[p] # Nil /\ instances[p].id = i
    /\ ets' = [ets EXCEPT ![i] = [pid |-> p, ready |-> ready]]
    /\ inbox' = Tail(inbox)
    /\ Reply(p, "running")
    /\ UNCHANGED <<instances, refs>>

\* Slip for SwapAccepted: an id that is taken is refused to its owner as well.
RegisterRefusedToOwner(p, i) ==
    /\ ets[i] # Nil
    /\ Reply(p, IF status[p] = "starting" THEN "init_failed" ELSE "swap_failed")
    /\ inbox' = Tail(inbox)
    /\ UNCHANGED <<ets, instances, refs>>

\* The answer is an error, and the caller's `:ok =` fails.
RegisterRefused(p, i) ==
    /\ \/ instances[p] = Nil /\ ets[i] # Nil
       \/ instances[p] # Nil /\ instances[p].id # i
    /\ Reply(p, IF status[p] = "starting" THEN "init_failed" ELSE "swap_failed")
    /\ inbox' = Tail(inbox)
    /\ UNCHANGED <<ets, instances, refs>>

HandleRegister ==
    /\ Receives("register")
    /\ LET m == Head(inbox)
       IN  \/ RegisterNew(m.pid, m.id, m.ready)
           \/ RegisterAgain(m.pid, m.id, m.ready)
           \/ RegisterRefused(m.pid, m.id)
    /\ lost' = {p \in lost : instances'[p] = Nil}
    /\ UNCHANGED <<id, left, restarts>>

\* demonitor with :flush takes the DOWN message of the monitor along, if it waits.
HandleUnregister ==
    /\ Receives("unregister")
    /\ LET m == Head(inbox)
       IN  \/ /\ instances[m.pid] # Nil /\ instances[m.pid].id = m.id
              /\ ets' = [ets EXCEPT ![m.id] = Nil]
              /\ instances' = [instances EXCEPT ![m.pid] = Nil]
              /\ inbox' = RemoveFirst(Tail(inbox), DownOf(m.pid))
              /\ Reply(m.pid, "running")
           \/ /\ ~(instances[m.pid] # Nil /\ instances[m.pid].id = m.id)
              /\ inbox' = Tail(inbox)
              /\ Reply(m.pid, "running")
              /\ UNCHANGED <<ets, instances>>
    /\ UNCHANGED <<refs, id, left, restarts, lost>>

\* Slip for IdFreed: the instance is forgotten, its entry is not.
HandleDownKeepingEntry ==
    /\ Receives("DOWN")
    /\ instances' = [instances EXCEPT ![Head(inbox).pid] = Nil]
    /\ inbox' = Tail(inbox)
    /\ UNCHANGED <<ets, refs, status, id, left, restarts, lost>>

HandleDown ==
    /\ Receives("DOWN")
    /\ LET m == Head(inbox)
           current == instances[m.pid] # Nil /\ instances[m.pid].ref = m.ref
       IN  \/ /\ current
              /\ ets' = [ets EXCEPT ![instances[m.pid].id] = Nil]
              /\ instances' = [instances EXCEPT ![m.pid] = Nil]
           \/ ~current /\ UNCHANGED <<ets, instances>>
    /\ inbox' = Tail(inbox)
    /\ UNCHANGED <<refs, status, id, left, restarts, lost>>

\* Slip for CallsEnd: those who wait for an answer do not notice.
RestartSilently ==
    /\ restarts < MaxRestarts
    /\ restarts' = restarts + 1
    /\ ets' = [i \in Ids |-> Nil]
    /\ instances' = [p \in Pids |-> Nil]
    /\ inbox' = <<>>
    /\ lost' = lost \cup {p \in Pids : instances[p] # Nil}
    /\ UNCHANGED <<refs, status, id, left>>

\* The registry crashes and its supervisor starts it again (init): the table,
\* the instances map, the monitors and the mailbox are gone, and the calls
\* under way fail.  The other processes are not restarted and not told.
Restart ==
    /\ restarts < MaxRestarts
    /\ restarts' = restarts + 1
    /\ ets' = [i \in Ids |-> Nil]
    /\ instances' = [p \in Pids |-> Nil]
    /\ inbox' = <<>>
    /\ lost' = lost \cup {p \in Pids : instances[p] # Nil}
    /\ status' = [p \in Pids |-> IF status[p] \in Waiting THEN "call_failed" ELSE status[p]]
    /\ UNCHANGED <<refs, id, left>>

----------------------------------------------------------------------------
(* The instances *)

Moves(p, s) == status' = [status EXCEPT ![p] = s]
Asks(m) == inbox' = Append(inbox, m) /\ UNCHANGED <<ets, instances, refs, restarts, lost>>

\* TSProj.init registers the empty storage, not ready.
Start(p, i) ==
    /\ status[p] = "new"
    /\ Moves(p, "starting")
    /\ id' = [id EXCEPT ![p] = i]
    /\ Asks([type |-> "register", pid |-> p, id |-> i, ready |-> FALSE])
    /\ UNCHANGED left

\* handle_streaming_start registers the loaded storage.
Swap(p) ==
    /\ status[p] = "running"
    /\ Moves(p, "swapping")
    /\ Asks([type |-> "register", pid |-> p, id |-> id[p], ready |-> TRUE])
    /\ UNCHANGED <<id, left>>

\* The public Registry.unregister.
Leave(p) ==
    /\ status[p] = "running" /\ p \notin left
    /\ Moves(p, "leaving")
    /\ left' = left \cup {p}
    /\ Asks([type |-> "unregister", pid |-> p, id |-> id[p]])
    /\ UNCHANGED id

\* terminate/2 clears the storage; its handle is still in the table.
Terminate(p) ==
    /\ status[p] = "running"
    /\ Moves(p, "terminating")
    /\ UNCHANGED <<ets, instances, refs, id, left, inbox, restarts, lost>>

\* The process is gone, at the end of terminate/2 or killed at any moment; the
\* runtime tells the registry if it has a monitor.
Exit(p) ==
    /\ Live(p)
    /\ Moves(p, "dead")
    /\ inbox' = IF instances[p] # Nil THEN Append(inbox, DownOf(p)) ELSE inbox
    /\ UNCHANGED <<ets, instances, refs, id, left, restarts, lost>>

----------------------------------------------------------------------------
Handle == HandleRegister \/ HandleUnregister \/ HandleDown

Next ==
    \/ Handle
    \/ Restart
    \/ \E p \in Pids : \/ \E i \in Ids : Start(p, i)
                       \/ Swap(p) \/ Leave(p) \/ Terminate(p) \/ Exit(p)

Spec == Init /\ [][Next]_vars

\* The registry processes its mailbox.
FairSpec == Spec /\ WF_vars(Handle)

----------------------------------------------------------------------------
(* Properties *)

\* A registered process that has died has its DOWN message on the way.
DeadTold ==
    \A p \in Pids : instances[p] # Nil /\ ~Live(p) =>
       \E k \in 1..Len(inbox) : inbox[k] = DownOf(p)

\* The table, the instances map and the monitors name each other: every entry
\* belongs to one registered process, every registered process has its entry,
\* and one that has died will be noticed, also when it died before the registry
\* looked at its request.
OneOwner ==
    /\ \A i \in Ids : ets[i] # Nil =>
          instances[ets[i].pid] # Nil /\ instances[ets[i].pid].id = i
    /\ \A p \in Pids : instances[p] # Nil =>
          ets[instances[p].id] # Nil /\ ets[instances[p].id].pid = p
    /\ DeadTold

\* `:ok = Vdr.Registry.register(...)` in handle_streaming_start fails only for
\* an instance that has left, or whose entry was lost when the registry crashed
\* and whose id another instance has taken since.
SwapAccepted ==
    \A p \in Pids : status[p] = "swap_failed" =>
       \/ p \in left
       \/ p \in lost /\ \E q \in Pids \ {p} : id[q] = id[p]

\* An instance that runs and has not left is found under its id, and stays ready
\* once it was; the crash of the registry is the only thing that takes the entry
\* of a live instance away, and its next swap brings it back.
KeepsHandle ==
    /\ [](\A p \in Pids : status[p] \in {"running", "swapping", "terminating"} =>
             p \in left \cup lost \/ (ets[id[p]] # Nil /\ ets[id[p]].pid = p))
    /\ [][\A i \in Ids :
             ets[i] # Nil /\ Live(ets[i].pid) /\ ets[i].pid \notin left /\ restarts' = restarts =>
                /\ ets'[i] # Nil /\ ets'[i].pid = ets[i].pid
                /\ ets[i].ready => ets'[i].ready]_vars

\* Nobody waits for the registry for ever: a call is answered, or fails because
\* the registry has crashed.
CallsEnd == \A p \in Pids : status[p] \in Waiting ~> status[p] \notin Waiting

\* The id of an instance that has died becomes free, or another instance's.
IdFreed ==
    \A p \in Pids : (status[p] = "dead") ~> [](\A i \in Ids : ets[i] = Nil \/ ets[i].pid # p)
=============================================================================
