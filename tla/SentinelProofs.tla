--------------------------- MODULE SentinelProofs ---------------------------
(***************************************************************************)
(* For every list of sentinels, every group of servers and any number of   *)
(* failures and failovers: discovery leaks no connection, ends with a      *)
(* server that had the configured role, and remembers the server it uses.  *)
(***************************************************************************)
EXTENDS Sentinel, TLAPS

\* What is left to try are the last sentinels of the list, in its order.
Remaining(s) ==
    /\ s \in Seq(Range(Sentinels))
    /\ Len(s) <= Len(Sentinels)
    /\ \A i \in 1..Len(s) : s[i] = Sentinels[Len(Sentinels) - Len(s) + i]

\* The environment.
EnvironmentOK ==
    /\ master \in Servers
    /\ up \subseteq Servers
    /\ reachable \subseteq Range(Sentinels)
    /\ named \in [Range(Sentinels) -> Servers \cup {Nil}]
    /\ changes \in Nat

\* The connections that are open in a phase.
ConnsOK ==
    conns = CASE phase \in {"query", "verify"} -> {"sentinel"}
              [] phase = "role" -> {"sentinel", "server"}
              [] OTHER -> {}

\* The replica process.
ReplicaOK ==
    /\ expected \in {"primary", "replica"}
    /\ phase \in {"idle", "sentinel", "query", "verify", "role", "connect", "connected"}
    /\ Remaining(rest)
    /\ candidate \in Servers \cup {Nil}
    /\ discovered \in Servers \cup {Nil}
    /\ ConnsOK

\* There is a sentinel to talk to while one is talked to, and a server to ask
\* from the moment one was named.
Underway ==
    /\ phase \in {"sentinel", "query", "verify", "role"} => rest # <<>>
    /\ phase \in {"verify", "role", "connect", "connected"} => candidate \in Servers

\* The servers that have the role now are among those that had it.
HadCovers == phase # "idle" => Matching \subseteq had

\* The server in use is the one remembered for the next status query.
Remembered == phase = "connected" => discovered = candidate

\* The inductive invariant: a candidate is known to have had its role because
\* the ghost had covers, at every moment of a discovery, the servers that have
\* the role at that moment; so it covers the one that answers ROLE.
IInv == EnvironmentOK /\ ReplicaOK /\ Underway /\ HadCovers /\ UsesVerifiedServer /\ Remembered

-----------------------------------------------------------------------------
(* The sentinels that are left *)

\* The whole list is left when discovery starts, and a tail of what was left
\* when a sentinel has failed.
LEMMA RemainingFacts ==
    /\ Remaining(Sentinels)
    /\ Remaining(<<>>)
    /\ \A s : Remaining(s) /\ s # <<>> => Remaining(Tail(s)) /\ Head(s) \in Range(Sentinels)
<1>1. Remaining(Sentinels)
  BY SentinelConstants DEF Remaining
<1>2. Remaining(<<>>)
  BY SentinelConstants DEF Remaining
<1>3. ASSUME NEW s, Remaining(s), s # <<>>
      PROVE  Remaining(Tail(s)) /\ Head(s) \in Range(Sentinels)
  <2>1. /\ Len(s) \in Nat \ {0} /\ Len(Sentinels) \in Nat
        /\ Tail(s) \in Seq(Range(Sentinels)) /\ Len(Tail(s)) = Len(s) - 1
        /\ \A i \in 1..Len(Tail(s)) : Tail(s)[i] = s[i + 1]
    BY <1>3, SentinelConstants DEF Remaining
  <2>2. \A i \in 1..Len(Tail(s)) : Tail(s)[i] = Sentinels[Len(Sentinels) - Len(Tail(s)) + i]
    BY <1>3, <2>1 DEF Remaining
  <2> QED
    BY <1>3, <2>1, <2>2 DEF Remaining
<1> QED
  BY <1>1, <1>2, <1>3

\* It is a suffix of the list.
LEMMA RemainingIsSuffix ==
    ASSUME NEW s, Remaining(s)
    PROVE  IsSuffix(s, Sentinels)
<1>1. Len(s) \in Nat /\ Len(Sentinels) \in Nat /\ Len(s) <= Len(Sentinels)
  BY SentinelConstants DEF Remaining
<1>2. PICK a, b : a = Reverse(s) /\ b = Reverse(Sentinels)
  OBVIOUS
<1>3. /\ a \in Seq(Range(Sentinels)) /\ b \in Seq(Range(Sentinels))
      /\ Len(a) = Len(s) /\ Len(b) = Len(Sentinels)
      /\ \A i \in 1..Len(s) : a[i] = s[Len(s) - i + 1]
      /\ \A i \in 1..Len(Sentinels) : b[i] = Sentinels[Len(Sentinels) - i + 1]
  BY <1>1, <1>2, SentinelConstants DEF Remaining, Reverse
<1>4. \A i \in 1..Len(s) : a[i] = b[i]
  <2> SUFFICES ASSUME NEW i \in 1..Len(s) PROVE a[i] = b[i]
    OBVIOUS
  <2>1. Len(s) - i + 1 \in 1..Len(s) /\ i \in 1..Len(Sentinels)
    BY <1>1
  <2>2. PICK j \in 1..Len(s) : j = Len(s) - i + 1
    BY <2>1
  <2>3. s[j] = Sentinels[Len(Sentinels) - Len(s) + j]
    BY DEF Remaining
  <2>4. Len(Sentinels) - Len(s) + j = Len(Sentinels) - i + 1
    BY <1>1, <2>2
  <2>5. a[i] = s[j] /\ b[i] = Sentinels[Len(Sentinels) - i + 1]
    BY <1>3, <2>1, <2>2
  <2> QED
    BY <2>3, <2>4, <2>5
<1>5. SubSeq(a, 1, Len(a)) = SubSeq(b, 1, Len(a))
  BY <1>1, <1>3, <1>4
<1> QED
  BY <1>1, <1>2, <1>3, <1>5 DEF IsSuffix, IsPrefix

-----------------------------------------------------------------------------
(* Every step preserves the invariant *)

\* The state before the first discovery satisfies it.
LEMMA InitIInv == Init => IInv
<1> SUFFICES ASSUME Init PROVE IInv
  OBVIOUS
<1>1. EnvironmentOK
  BY DEF Init, EnvironmentOK
<1>2. ReplicaOK
  BY RemainingFacts DEF Init, ReplicaOK, ConnsOK
<1> QED
  BY <1>1, <1>2 DEF Init, IInv, Underway, HadCovers, UsesVerifiedServer, Remembered

\* A failed sentinel or server sends discovery to the next sentinel, or ends it.
LEMMA TryNextStep ==
    ASSUME IInv, TryNext, phase \in {"sentinel", "query", "verify", "role"}
    PROVE  IInv'
<1>1. EnvironmentOK'
  BY DEF IInv, EnvironmentOK, TryNext, environment
<1>2. Remaining(rest')
  BY RemainingFacts DEF IInv, Underway, ReplicaOK, TryNext
<1>3. ReplicaOK'
  BY <1>2 DEF IInv, ReplicaOK, ConnsOK, TryNext
<1>4. Underway' /\ HadCovers' /\ UsesVerifiedServer' /\ Remembered'
  BY DEF IInv, Underway, HadCovers, UsesVerifiedServer, Remembered, Matching, HasRole, TryNext,
         environment
<1> QED
  BY <1>1, <1>3, <1>4 DEF IInv

\* The steps of the replica process.
LEMMA StepStep ==
    ASSUME IInv, Step \/ \E server \in Servers : QueryServerAddress(server)
    PROVE  IInv'
<1> USE DEF IInv, EnvironmentOK, ReplicaOK, ConnsOK, Underway, HadCovers, UsesVerifiedServer,
            Remembered, Matching, HasRole, environment
<1>1. CASE DiscoverServer
  BY <1>1, RemainingFacts, SentinelConstants DEF DiscoverServer
<1>2. CASE ConnectToSentinel
  BY <1>2, TryNextStep DEF ConnectToSentinel
<1>3. CASE QueryFails
  BY <1>3, TryNextStep DEF QueryFails
<1>4. CASE VerifyRole
  BY <1>4, TryNextStep DEF VerifyRole
<1>5. CASE CheckRole
  BY <1>5, TryNextStep DEF CheckRole
<1>6. CASE ConnectDirectly
  BY <1>6 DEF ConnectDirectly
<1>7. CASE Disconnect
  BY <1>7 DEF Disconnect
<1>8. CASE \E server \in Servers : QueryServerAddress(server)
  BY <1>8 DEF QueryServerAddress
<1> QED
  BY <1>1, <1>2, <1>3, <1>4, <1>5, <1>6, <1>7, <1>8 DEF Step

\* What happens to servers and sentinels meanwhile.
LEMMA EnvironmentStep ==
    ASSUME IInv,
           \/ Failover \/ ServerFails \/ ServerReturns
           \/ SentinelFails \/ SentinelReturns \/ SentinelLearns
    PROVE  IInv'
<1> USE DEF IInv, EnvironmentOK, ReplicaOK, ConnsOK, Underway, HadCovers, UsesVerifiedServer,
            Remembered, Matching, HasRole, replica, Changed
<1>1. CASE Failover
  BY <1>1 DEF Failover
<1>2. CASE ServerFails
  BY <1>2 DEF ServerFails
<1>3. CASE ServerReturns
  BY <1>3 DEF ServerReturns
<1>4. CASE SentinelFails
  BY <1>4 DEF SentinelFails
<1>5. CASE SentinelReturns
  BY <1>5 DEF SentinelReturns
<1>6. CASE SentinelLearns
  BY <1>6 DEF SentinelLearns
<1> QED
  BY <1>1, <1>2, <1>3, <1>4, <1>5, <1>6

-----------------------------------------------------------------------------
(* The theorems *)

\* The inductive invariant holds in every reachable state.
THEOREM SentinelInductive == Spec => []IInv
<1>1. ASSUME IInv, [Next]_vars
      PROVE  IInv'
  <2>1. CASE UNCHANGED vars
    BY <1>1, <2>1 DEF vars, IInv, EnvironmentOK, ReplicaOK, ConnsOK, Underway, HadCovers,
                      UsesVerifiedServer, Remembered, Matching, HasRole
  <2> QED
    BY <1>1, <2>1, StepStep, EnvironmentStep DEF Next
<1> QED
  BY <1>1, InitIInv, PTL DEF Spec

\* No Redix connection outlives the request it was opened for, whatever fails
\* between two requests, and the sentinels are tried in their order.
THEOREM SentinelTypeCorrect == Spec => []TypeOK
<1>1. IInv => TypeOK
  BY RemainingIsSuffix DEF IInv, ReplicaOK, ConnsOK, TypeOK
<1> QED
  BY <1>1, SentinelInductive, PTL

\* discover_and_connect_via_sentinel connects only to a server that had the
\* configured role since the discovery began, however stale the sentinels are.
THEOREM UsesVerifiedServerAlways == Spec => []UsesVerifiedServer
  BY SentinelInductive, PTL DEF IInv
=============================================================================
