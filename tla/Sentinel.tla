------------------------------ MODULE Sentinel ------------------------------
(***************************************************************************)
(* The discovery of a server through Redis Sentinel                        *)
(* (lib/veidrodelis/redis_stream/sentinel_connector.ex) and the connection *)
(* that follows it (discover_and_connect_via_sentinel of replica.ex).      *)
(*                                                                         *)
(* The sentinels are asked one after the other; the server one of them     *)
(* names is asked for its role before it is used.  Every request is a step *)
(* of its own: between any two of them servers and sentinels may fail and  *)
(* come back, the roles may change, and a sentinel may name a server whose *)
(* role has changed already.                                               *)
(***************************************************************************)
EXTENDS Naturals, Sequences, SequencesExt

CONSTANTS
    Sentinels,      \* the configured sentinels, in their order
    Servers,        \* the servers of the group
    Nil,            \* no server
    MaxChanges      \* bound: changes of the environment

ASSUME SentinelConstants ==
    /\ Sentinels \in Seq(Range(Sentinels)) /\ Sentinels # <<>>
    /\ Nil \notin Servers
    /\ MaxChanges \in Nat

VARIABLES
    expected,       \* the option :role
    phase,          \* what the replica process waits for
    rest,           \* the sentinels to try, the present one first
    candidate,      \* the server the present sentinel has named
    discovered,     \* discovered_host and discovered_port
    conns,          \* open Redix connections
    master,         \* the server that is the master, the others are slaves
    up,             \* the servers that answer
    reachable,      \* the sentinels that answer
    named,          \* sentinel -> the master it knows of, or Nil
    had,            \* servers that had the expected role since discovery began
    changes         \* changes of the environment so far

replica == <<expected, phase, rest, candidate, discovered, conns>>
environment == <<master, up, reachable, named, changes>>
vars == <<expected, phase, rest, candidate, discovered, conns,
          master, up, reachable, named, had, changes>>

HasRole(server) == (server = master) = (expected = "primary")

Matching == {server \in Servers : HasRole(server)}

Init ==
    /\ expected \in {"primary", "replica"}
    /\ phase = "idle"
    /\ rest = <<>>
    /\ candidate = Nil
    /\ discovered = Nil
    /\ conns = {}
    /\ master \in Servers
    /\ up = Servers
    /\ reachable = Range(Sentinels)
    /\ named = [s \in Range(Sentinels) |-> master]
    /\ had = {}
    /\ changes = 0

-----------------------------------------------------------------------------
(* sentinel_connector.ex *)

\* discover_server: connect and every reconnect attempt starts from the first
\* sentinel.
DiscoverServer ==
    /\ phase = "idle"
    /\ phase' = "sentinel"
    /\ rest' = Sentinels
    /\ had' = Matching
    /\ UNCHANGED <<expected, candidate, discovered, conns, environment>>

\* Slip for EventuallyConnected: the first sentinel that fails ends the attempt.
GiveUp ==
    /\ rest' = <<>>
    /\ phase' = "idle"
    /\ conns' = {}
    /\ UNCHANGED <<expected, candidate, discovered, had, environment>>

\* Slip for TypeOK: the connections of a failed attempt stay open.
TryNextUnclosed ==
    /\ rest' = Tail(rest)
    /\ phase' = IF Tail(rest) = <<>> THEN "idle" ELSE "sentinel"
    /\ UNCHANGED <<expected, candidate, discovered, conns, had, environment>>

\* try_sentinels: the connection to the sentinel is stopped and the next one is
\* tried; without one the attempt ends with no_viable_sentinel_connection and a
\* reconnect is scheduled.
TryNext ==
    /\ rest' = Tail(rest)
    /\ phase' = IF Tail(rest) = <<>> THEN "idle" ELSE "sentinel"
    /\ conns' = {}
    /\ UNCHANGED <<expected, candidate, discovered, had, environment>>

\* connect_to_sentinel
ConnectToSentinel ==
    /\ phase = "sentinel"
    /\ \/ /\ Head(rest) \in reachable
          /\ phase' = "query"
          /\ conns' = {"sentinel"}
          /\ UNCHANGED <<expected, rest, candidate, discovered, had, environment>>
       \/ Head(rest) \notin reachable /\ TryNext

\* What the sentinel answers (external): the master it knows of, or the servers
\* it takes for replicas, which includes those that are down.
Answers(sentinel) ==
    IF expected = "primary" THEN {named[sentinel]} \ {Nil} ELSE Servers \ {named[sentinel]}

\* query_server_address, with an answer; of several replicas one is picked at
\* random.
QueryServerAddress(server) ==
    /\ phase = "query"
    /\ Head(rest) \in reachable
    /\ server \in Answers(Head(rest))
    /\ candidate' = server
    /\ phase' = "verify"
    /\ UNCHANGED <<expected, rest, discovered, conns, had, environment>>

\* query_server_address, with no address or an error.
QueryFails ==
    /\ phase = "query"
    /\ Head(rest) \notin reachable \/ Answers(Head(rest)) = {}
    /\ TryNext

\* verify_role: a connection of its own to the server.
VerifyRole ==
    /\ phase = "verify"
    /\ \/ /\ candidate \in up
          /\ phase' = "role"
          /\ conns' = conns \cup {"server"}
          /\ UNCHANGED <<expected, rest, candidate, discovered, had, environment>>
       \/ candidate \notin up /\ TryNext

\* Slip for UsesVerifiedServer: any answer to ROLE will do.
CheckNoRole ==
    /\ phase = "role"
    /\ \/ /\ candidate \in up
          /\ phase' = "connect"
          /\ conns' = {}
          /\ UNCHANGED <<expected, rest, candidate, discovered, had, environment>>
       \/ candidate \notin up /\ TryNext

\* check_role, after which both connections are stopped.
CheckRole ==
    /\ phase = "role"
    /\ \/ /\ candidate \in up /\ HasRole(candidate)
          /\ phase' = "connect"
          /\ conns' = {}
          /\ UNCHANGED <<expected, rest, candidate, discovered, had, environment>>
       \/ ~(candidate \in up /\ HasRole(candidate)) /\ TryNext

-----------------------------------------------------------------------------
(* replica.ex *)

\* connect_directly: on a failure the state from before the attempt is kept
\* and a reconnect is scheduled.
ConnectDirectly ==
    /\ phase = "connect"
    /\ \/ /\ candidate \in up
          /\ phase' = "connected"
          /\ discovered' = candidate
       \/ /\ candidate \notin up
          /\ phase' = "idle"
          /\ UNCHANGED discovered
    /\ UNCHANGED <<expected, rest, candidate, conns, had, environment>>

\* handle_disconnect: the socket closes when the server goes down.
Disconnect ==
    /\ phase = "connected"
    /\ discovered \notin up
    /\ phase' = "idle"
    /\ UNCHANGED <<expected, rest, candidate, discovered, conns, had, environment>>

-----------------------------------------------------------------------------
(* The environment: a failover, failures and recoveries, and sentinels that *)
(* learn of them late or forget the group.                                  *)

Changed == changes < MaxChanges /\ changes' = changes + 1

Failover ==
    /\ Changed
    /\ master' \in up \ {master}
    /\ had' = had \cup {s \in Servers : (s = master') = (expected = "primary")}
    /\ UNCHANGED <<replica, up, reachable, named>>

ServerFails ==
    /\ Changed
    /\ \E s \in up : up' = up \ {s}
    /\ UNCHANGED <<replica, master, reachable, named, had>>

ServerReturns ==
    /\ Changed
    /\ \E s \in Servers \ up : up' = up \cup {s}
    /\ UNCHANGED <<replica, master, reachable, named, had>>

SentinelFails ==
    /\ Changed
    /\ \E s \in reachable : reachable' = reachable \ {s}
    /\ UNCHANGED <<replica, master, up, named, had>>

SentinelReturns ==
    /\ Changed
    /\ \E s \in Range(Sentinels) \ reachable : reachable' = reachable \cup {s}
    /\ UNCHANGED <<replica, master, up, named, had>>

SentinelLearns ==
    /\ Changed
    /\ \E s \in Range(Sentinels), known \in {master, Nil} :
          named[s] # known /\ named' = [named EXCEPT ![s] = known]
    /\ UNCHANGED <<replica, master, up, reachable, had>>

Step ==
    \/ DiscoverServer \/ ConnectToSentinel \/ QueryFails
    \/ VerifyRole \/ CheckRole \/ ConnectDirectly \/ Disconnect

Next ==
    \/ Step
    \/ \E server \in Servers : QueryServerAddress(server)
    \/ Failover \/ ServerFails \/ ServerReturns
    \/ SentinelFails \/ SentinelReturns \/ SentinelLearns

\* The process runs, and a random pick made again and again is each of the
\* servers in turn.
Fairness ==
    /\ WF_vars(Step)
    /\ \A server \in Servers, s \in Range(Sentinels) :
          SF_vars(QueryServerAddress(server) /\ Head(rest) = s)

Spec == Init /\ [][Next]_vars /\ Fairness

-----------------------------------------------------------------------------
(* Properties *)

\* The variables have their types, and Redix connections are open only while
\* their answers are awaited: none is left behind by a failed attempt.
TypeOK ==
    /\ expected \in {"primary", "replica"}
    /\ phase \in {"idle", "sentinel", "query", "verify", "role", "connect", "connected"}
    /\ IsSuffix(rest, Sentinels)
    /\ candidate \in Servers \cup {Nil}
    /\ discovered \in Servers \cup {Nil}
    /\ conns = CASE phase \in {"query", "verify"} -> {"sentinel"}
                 [] phase = "role" -> {"sentinel", "server"}
                 [] OTHER -> {}

\* The replica process connects only to a server that had the configured role
\* at some moment since this discovery began, however late the sentinels are;
\* (the role may change again between the answer to ROLE and the connection).
UsesVerifiedServer == phase \in {"connect", "connected"} => candidate \in had

\* A sentinel that can lead to a server of the right role.
Leads(s) ==
    /\ s \in reachable
    /\ \E server \in Answers(s) : server \in up /\ HasRole(server)

\* Whatever failed before, if from some moment on one of the sentinels leads to
\* a server of the right role, the replica process becomes and stays connected:
\* a dead or ignorant sentinel, a stale answer or an unlucky pick only delays it.
EventuallyConnected ==
    <>[](\E s \in Range(Sentinels) : Leads(s)) => <>[](phase = "connected" /\ discovered \in up)
=============================================================================
