----------------------------- MODULE WatchTable -----------------------------
(***************************************************************************)
(* What Vdr.TS.Watch and the watch calls of Vdr.TSProj promise together:   *)
(* one set of subscriptions.  A process subscribes to a name at most once, *)
(* and loses all its subscriptions when it is gone, never before.          *)
(***************************************************************************)
CONSTANTS
    Pids,           \* watching processes
    Names,          \* what can be watched: a key or a prefix of a database
    Refs            \* the references watchers get their events under

VARIABLES
    watching,       \* subscriptions: triples <<process, name, reference>>
    alive           \* processes that have not exited

Of(p) == {w \in watching : w[1] = p}

Init == watching = {} /\ alive = Pids

Subscribe(p, n, r) ==
    /\ \A w \in Of(p) : w[2] # n
    /\ watching' = watching \cup {<<p, n, r>>}
    /\ UNCHANGED alive

Unsubscribe(p, n) ==
    /\ \E w \in Of(p) : w[2] = n
    /\ watching' = {w \in watching : ~(w[1] = p /\ w[2] = n)}
    /\ UNCHANGED alive

Purge(p) ==
    /\ p \notin alive
    /\ watching' = watching \ Of(p)
    /\ UNCHANGED alive

Dies(p) ==
    /\ p \in alive
    /\ alive' = alive \ {p}
    /\ UNCHANGED watching

Next == \E p \in Pids :
           \/ \E n \in Names, r \in Refs : Subscribe(p, n, r)
           \/ \E n \in Names : Unsubscribe(p, n)
           \/ Purge(p)
           \/ Dies(p)

Spec == Init /\ [][Next]_<<watching, alive>>
=============================================================================
