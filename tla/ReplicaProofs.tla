--------------------------- MODULE ReplicaProofs ---------------------------
(***************************************************************************)
(* Proofs about Replica, for any number of sockets, timer references and   *)
(* failures and any bound on the mailbox.                                  *)
(***************************************************************************)
EXTENDS Replica, TLAPS

\* What Tail does to a mailbox.
LEMMA TailFacts ==
    ASSUME NEW S, NEW s \in Seq(S), s # <<>>
    PROVE  /\ Tail(s) \in Seq(S)
           /\ Len(s) \in Nat /\ Len(s) >= 1
           /\ Head(s) = s[1] /\ s[1] \in S
           /\ Len(Tail(s)) = Len(s) - 1
           /\ \A i \in 1..Len(Tail(s)) : Tail(s)[i] = s[i + 1]
           /\ \A i \in 1..Len(s) : i # 1 => i - 1 \in 1..Len(Tail(s)) /\ Tail(s)[i - 1] = s[i]
  OBVIOUS

\* What Append does to a mailbox.
LEMMA AppendFacts ==
    ASSUME NEW S, NEW s \in Seq(S), NEW m \in S
    PROVE  /\ Append(s, m) \in Seq(S)
           /\ Len(s) \in Nat
           /\ Len(Append(s, m)) = Len(s) + 1
           /\ \A i \in 1..Len(s) : Append(s, m)[i] = s[i]
           /\ Append(s, m)[Len(s) + 1] = m
  OBVIOUS

\* A handler consumes a message of the current socket, which is no timer's.
LEMMA MessageFacts ==
    ASSUME TypeOK, inbox # <<>>
    PROVE  /\ Head(inbox) \in Messages
           /\ Head(inbox).type \in {"data", "closed", "error"} <=> Head(inbox).socket \in Sockets
           /\ Head(inbox).type \in {"data", "closed", "error"} <=> Head(inbox).socket # Nil
<1>1. inbox \in Seq(Messages)
  BY DEF TypeOK
<1>2. Head(inbox) \in Messages
  BY <1>1
<1> QED
  BY <1>2, ReplicaConstants DEF Messages

----------------------------------------------------------------------------
\* The back-off of schedule_reconnect stays within its cap.
LEMMA MinimumType ==
    ASSUME NEW d \in 0..LargestDelay
    PROVE  Minimum(2 * d, MaxReconnectDelay) \in 0..LargestDelay
  BY ReplicaConstants DEF Minimum, LargestDelay

\* THEOREM: every variable keeps its type and the back-off stays capped.
THEOREM TypeCorrect == Spec => []TypeOK
<1>1. Init => TypeOK
  BY ReplicaConstants DEF Init, TypeOK, LargestDelay, Phases, ParserStates
<1>2. TypeOK /\ [Next]_vars => TypeOK'
  <2> SUFFICES ASSUME TypeOK, [Next]_vars
               PROVE  TypeOK'
    OBVIOUS
  <2> USE ReplicaConstants DEF TypeOK
  <2>m. \A d \in 0..LargestDelay : Minimum(2 * d, MaxReconnectDelay) \in 0..LargestDelay
    BY MinimumType
  <2>l. ReconnectDelay \in 0..LargestDelay
    BY DEF LargestDelay
  <2>t. inbox # <<>> => Tail(inbox) \in Seq(Messages)
    BY TailFacts
  <2>f. Fault => faults' \in Nat
    BY DEF Fault
  <2>s. ASSUME NEW reason \in Stopped, StopWith(reason), UNCHANGED opts, faults' \in Nat
        PROVE  TypeOK'
    <3>1. port' \in [Sockets -> {"closed", "active", "passive"}]
      BY <2>s DEF StopWith
    <3>2. inbox' \in Seq(Messages)
      BY <2>s DEF StopWith
    <3>3. armed' \subseteq ({"reconnect_timeout", "send_periodic_ack"} \X TimerRefs)
      BY <2>s DEF StopWith
    <3> QED
      BY <2>s, <3>1, <3>2, <3>3 DEF StopWith
  <2>r. ASSUME NEW running, running \subseteq (Timers \X TimerRefs), ScheduleReconnect(running)
        PROVE  /\ reconnect_timer_ref' \in TimerRefs
               /\ armed' \subseteq (Timers \X TimerRefs)
               /\ current_reconnect_delay' \in 0..LargestDelay
               /\ state' \in Phases
               /\ continue' \in BOOLEAN
               /\ status' = status
    <3>1. PICK r \in TimerRefs :
             /\ reconnect_timer_ref' = r
             /\ armed' = (running \ {<<"reconnect_timeout", reconnect_timer_ref>>})
                            \cup {<<"reconnect_timeout", r>>}
      BY <2>r DEF ScheduleReconnect
    <3>2. <<"reconnect_timeout", r>> \in Timers \X TimerRefs
      BY <3>1 DEF Timers
    <3>3. armed' \subseteq (Timers \X TimerRefs)
      BY <2>r, <3>1, <3>2, Zenon
    <3> QED
      BY <2>r, <2>m, <3>1, <3>3 DEF ScheduleReconnect, Phases
  <2>d. ASSUME inbox # <<>>, HandleDisconnect(Tail(inbox)), UNCHANGED opts, faults' \in Nat
        PROVE  TypeOK'
    <3>1. CASE opts.reconnect_enabled
      <4>1. ScheduleReconnect(CancelAckTimer)
        BY <2>d, <3>1 DEF HandleDisconnect
      <4>2. CancelAckTimer \subseteq (Timers \X TimerRefs)
        BY DEF CancelAckTimer, Timers
      <4>3. port' \in [Sockets -> {"closed", "active", "passive"}]
        BY <2>d, <3>1 DEF HandleDisconnect, Closed, StopWith
      <4>4. /\ socket' = Nil /\ parser' = "none" /\ ack_timer_ref' = Nil
            /\ inbox' = Tail(inbox)
        BY <2>d, <3>1 DEF HandleDisconnect
      <4>5. /\ reconnect_timer_ref' \in TimerRefs
            /\ armed' \subseteq (Timers \X TimerRefs)
            /\ current_reconnect_delay' \in 0..LargestDelay
            /\ state' \in Phases
            /\ continue' \in BOOLEAN
            /\ status' = status
        BY <2>r, <4>1, <4>2
      <4> QED
        BY <2>d, <2>t, <4>3, <4>4, <4>5 DEF ParserStates, Timers
    <3>2. CASE ~opts.reconnect_enabled
      BY <2>d, <2>s, <3>2 DEF HandleDisconnect, Stopped, ScheduleReconnect
    <3> QED
      BY <3>1, <3>2
  <2>a. ASSUME SchedulePeriodicAck
        PROVE  ack_timer_ref' \in TimerRefs /\ armed' \subseteq (Timers \X TimerRefs)
    BY <2>a DEF SchedulePeriodicAck, CancelAckTimer, FreshRef, Timers
  <2>c. ASSUME NEW p \in Phases, MoveTo(p), inbox # <<>>, UNCHANGED opts, faults' \in Nat
        PROVE  TypeOK'
    BY <2>c, <2>t DEF MoveTo, Rearm, timerVars
  <2>1. CASE ConnectOk /\ UNCHANGED opts
    BY <2>1, <2>l DEF ConnectOk, FreshSocket, Phases, Handshake
  <2>2. CASE ConnectFails /\ UNCHANGED opts
    <3>1. armed \subseteq (Timers \X TimerRefs)
      BY DEF Timers
    <3> QED
      BY <2>2, <2>s, <2>r, <2>f, <3>1 DEF ConnectFails, Stopped, Timers
  <2>3. CASE ConnectSendFails /\ UNCHANGED opts
    <3>1. armed \subseteq (Timers \X TimerRefs)
      BY DEF Timers
    <3>2. CASE ~opts.reconnect_enabled /\ StopWith("reconnect_disabled")
      BY <2>3, <2>s, <2>f, <3>2 DEF ConnectSendFails, Stopped
    <3>3. CASE /\ ScheduleReconnect(armed)
               /\ \E s \in Sockets : FreshSocket(s) /\ port' = [port EXCEPT ![s] = "active"]
               /\ UNCHANGED <<parser, socket, ack_timer_ref, inbox>>
      BY <2>3, <2>r, <2>f, <3>1, <3>3 DEF ConnectSendFails, Timers
    <3> QED
      BY <2>3, <3>2, <3>3 DEF ConnectSendFails
  <2>4. CASE DataIncomplete /\ UNCHANGED opts
    BY <2>4, <2>c, <2>f DEF DataIncomplete, ReceivesData, Receives, Phases
  <2>5. CASE ReplyError /\ UNCHANGED opts
    BY <2>5, <2>d, <2>f DEF ReplyError, ReceivesData, Receives
  <2>6. CASE HandleAuthResponse /\ UNCHANGED opts
    BY <2>6, <2>c, <2>d, <2>f DEF HandleAuthResponse, ReceivesData, Receives, Phases, Handshake
  <2>7. CASE HandlePingResponse /\ UNCHANGED opts
    BY <2>7, <2>c, <2>s, <2>f
       DEF HandlePingResponse, ReceivesData, Receives, Phases, Handshake, Stopped
  <2>8. CASE HandleReplconfResponse /\ UNCHANGED opts
    <3>1. inbox # <<>>
      BY <2>8 DEF HandleReplconfResponse, ReceivesData, Receives
    <3>2. "replconf_capa" \in Phases /\ "psync" \in Phases
      BY DEF Phases, Handshake
    <3>3. CASE Fault /\ StopWith("send_failed")
      BY <2>8, <2>s, <2>f, <3>3 DEF Stopped
    <3>4. CASE MoveTo("replconf_capa") /\ UNCHANGED faults
      BY <2>8, <2>c, <3>1, <3>2, <3>4
    <3>5. CASE MoveTo("psync") /\ UNCHANGED faults
      BY <2>8, <2>c, <3>1, <3>2, <3>5
    <3> QED
      BY <2>8, <3>3, <3>4, <3>5 DEF HandleReplconfResponse
  <2>9. CASE HandlePsyncResponse /\ UNCHANGED opts
    <3>1. inbox # <<>>
      BY <2>9 DEF HandlePsyncResponse, ReceivesData, Receives
    <3>2. CASE Fault /\ HandleDisconnect(Tail(inbox))
      BY <2>9, <2>d, <2>f, <3>1, <3>2
    <3>3. CASE Fault /\ StopWith("callback_failed")
      BY <2>9, <2>s, <2>f, <3>3 DEF Stopped
    <3>4. CASE /\ state' = "replication"
               /\ parser' \in {"rdb", "streaming"}
               /\ SchedulePeriodicAck
               /\ inbox' = Tail(inbox)
               /\ Rearm
               /\ UNCHANGED <<status, continue, socket, timerVars, faults>>
      BY <2>9, <2>a, <2>t, <3>1, <3>4 DEF Rearm, timerVars, Phases, ParserStates, Timers
    <3> QED
      BY <2>9, <3>2, <3>3, <3>4 DEF HandlePsyncResponse
  <2>10. CASE HandleReplicationData /\ UNCHANGED opts
    <3>1. inbox # <<>>
      BY <2>10 DEF HandleReplicationData, ReceivesData, Receives
    <3>2. CASE Fault /\ HandleDisconnect(Tail(inbox))
      BY <2>10, <2>d, <2>f, <3>1, <3>2
    <3>3. CASE Fault /\ StopWith("callback_failed")
      BY <2>10, <2>s, <2>f, <3>3 DEF Stopped
    <3>4. CASE /\ parser' \in {parser, "streaming"}
               /\ inbox' = Tail(inbox)
               /\ Rearm
               /\ UNCHANGED <<status, continue, state, socket, timerVars, ack_timer_ref,
                              armed, faults>>
      BY <2>10, <2>t, <3>1, <3>4 DEF Rearm, timerVars, ParserStates
    <3> QED
      BY <2>10, <3>2, <3>3, <3>4 DEF HandleReplicationData
  <2>11. CASE HandleConnectionLost /\ UNCHANGED opts
    BY <2>11, <2>d DEF HandleConnectionLost, Receives
  <2>12. CASE HandleStaleSocketMessage /\ UNCHANGED opts
    BY <2>12, <2>t DEF HandleStaleSocketMessage, Receives, timerVars
  <2>13. CASE HandleReconnectTimeout /\ UNCHANGED opts
    BY <2>13, <2>t DEF HandleReconnectTimeout, Receives
  <2>14. CASE HandleSendPeriodicAck /\ UNCHANGED opts
    BY <2>14, <2>a, <2>t DEF HandleSendPeriodicAck, Receives, timerVars, Timers
  <2>15. CASE Shutdown /\ UNCHANGED opts
    BY <2>15, <2>s, <2>f DEF Shutdown, Stopped
  <2>16. ASSUME NEW m \in Timers, TimerFires(m), UNCHANGED opts
         PROVE  TypeOK'
    <3>1. Timer(m) \in Messages
      BY DEF Timer, Messages, Timers
    <3> QED
      BY <2>16, <3>1, AppendFacts DEF TimerFires, timerVars
  <2>17. ASSUME NEW s \in Sockets, PeerSends(s), UNCHANGED opts
         PROVE  TypeOK'
    <3>1. FromSocket("data", s) \in Messages
      BY DEF FromSocket, Messages
    <3> QED
      BY <2>17, <3>1, AppendFacts DEF PeerSends, timerVars
  <2>18. ASSUME NEW s \in Sockets, PeerCloses(s), UNCHANGED opts
         PROVE  TypeOK'
    <3>1. FromSocket("closed", s) \in Messages /\ FromSocket("error", s) \in Messages
      BY DEF FromSocket, Messages
    <3>2. inbox \in Seq(Messages)
      OBVIOUS
    <3>3. Append(inbox, FromSocket("closed", s)) \in Seq(Messages)
      BY <3>1, <3>2, AppendFacts
    <3>4. Append(inbox, FromSocket("error", s)) \in Seq(Messages)
      BY <3>1, <3>2, AppendFacts
    <3>5. Append(Append(inbox, FromSocket("error", s)), FromSocket("closed", s)) \in Seq(Messages)
      BY <3>1, <3>4, AppendFacts
    <3>6. inbox' \in Seq(Messages)
      BY <2>18, <3>3, <3>5 DEF PeerCloses
    <3> QED
      BY <2>18, <2>f, <3>6 DEF PeerCloses, timerVars
  <2>19. CASE UNCHANGED vars
    BY <2>19 DEF vars
  <2> QED
    BY <2>1, <2>2, <2>3, <2>4, <2>5, <2>6, <2>7, <2>8, <2>9, <2>10, <2>11, <2>12, <2>13,
       <2>14, <2>15, <2>16, <2>17, <2>18, <2>19 DEF Next, Process, Runtime, Terminated
<1> QED
  BY <1>1, <1>2, PTL DEF Spec

----------------------------------------------------------------------------
(* The mailbox under the two things that happen to it. *)

\* Consuming the oldest message loses that one and no other.
LEMMA TailMailbox ==
    ASSUME NEW box \in Seq(Messages), box # <<>>
    PROVE  /\ \A m : Head(box).type # m => (Waiting(Tail(box), m) <=> Waiting(box, m))
           /\ \A m : AtMostOne(box, m) => AtMostOne(Tail(box), m)
           /\ \A m : AtMostOne(box, m) /\ Head(box).type = m => ~Waiting(Tail(box), m)
           /\ \A s : Head(box).socket # s => (Delivered(Tail(box), s) <=> Delivered(box, s))
           /\ Waiting(box, Head(box).type)
<1>1. /\ Len(box) \in Nat /\ Len(box) >= 1
      /\ Head(box) = box[1]
      /\ Len(Tail(box)) = Len(box) - 1
      /\ \A i \in 1..Len(Tail(box)) : Tail(box)[i] = box[i + 1] /\ i + 1 \in 1..Len(box)
      /\ \A i \in 1..Len(box) : i # 1 => i - 1 \in 1..Len(Tail(box)) /\ Tail(box)[i - 1] = box[i]
  BY TailFacts
<1>2. ASSUME NEW m, Head(box).type # m
      PROVE  Waiting(Tail(box), m) <=> Waiting(box, m)
  BY <1>1, <1>2 DEF Waiting
<1>3. ASSUME NEW m, AtMostOne(box, m)
      PROVE  AtMostOne(Tail(box), m)
  <2> SUFFICES ASSUME NEW i \in 1..Len(Tail(box)), NEW j \in 1..Len(Tail(box)),
                      Tail(box)[i].type = m, Tail(box)[j].type = m
               PROVE  i = j
    BY DEF AtMostOne
  <2>1. i + 1 = j + 1
    BY <1>1, <1>3 DEF AtMostOne
  <2> QED
    BY <2>1, <1>1
<1>4. ASSUME NEW m, AtMostOne(box, m), Head(box).type = m
      PROVE  ~Waiting(Tail(box), m)
  <2> SUFFICES ASSUME NEW i \in 1..Len(Tail(box)), Tail(box)[i].type = m
               PROVE  FALSE
    BY DEF Waiting
  <2>1. box[i + 1].type = m /\ i + 1 \in 1..Len(box) /\ 1 \in 1..Len(box)
    BY <1>1
  <2>2. i + 1 = 1
    BY <1>1, <1>4, <2>1 DEF AtMostOne
  <2> QED
    BY <2>2, <1>1
<1>5. ASSUME NEW s, Head(box).socket # s
      PROVE  Delivered(Tail(box), s) <=> Delivered(box, s)
  BY <1>1, <1>5 DEF Delivered
<1>6. Waiting(box, Head(box).type)
  BY <1>1 DEF Waiting
<1> QED
  BY <1>2, <1>3, <1>4, <1>5, <1>6

\* Delivering a message adds that one and no other.
LEMMA AppendMailbox ==
    ASSUME NEW box \in Seq(Messages), NEW msg \in Messages
    PROVE  /\ \A m : Waiting(Append(box, msg), m) <=> (Waiting(box, m) \/ msg.type = m)
           /\ \A m : AtMostOne(box, m) /\ (msg.type = m => ~Waiting(box, m))
                        => AtMostOne(Append(box, msg), m)
           /\ \A s : Delivered(Append(box, msg), s) <=> (Delivered(box, s) \/ msg.socket = s)
<1> DEFINE app == Append(box, msg)
<1>1. /\ Len(box) \in Nat
      /\ Len(app) = Len(box) + 1
      /\ \A i \in 1..Len(box) : app[i] = box[i]
      /\ app[Len(box) + 1] = msg
      /\ \A i \in 1..Len(app) : i \in 1..Len(box) \/ i = Len(box) + 1
      /\ \A i \in 1..Len(box) : i \in 1..Len(app)
      /\ Len(box) + 1 \in 1..Len(app)
  BY AppendFacts
<1> HIDE DEF app
<1>2. ASSUME NEW m
      PROVE  Waiting(app, m) <=> (Waiting(box, m) \/ msg.type = m)
  BY <1>1 DEF Waiting
<1>3. ASSUME NEW m, AtMostOne(box, m), msg.type = m => ~Waiting(box, m)
      PROVE  AtMostOne(app, m)
  <2> SUFFICES ASSUME NEW i \in 1..Len(app), NEW j \in 1..Len(app),
                      app[i].type = m, app[j].type = m
               PROVE  i = j
    BY DEF AtMostOne
  <2>1. CASE i \in 1..Len(box) /\ j \in 1..Len(box)
    BY <1>1, <1>3, <2>1 DEF AtMostOne
  <2>2. CASE i = Len(box) + 1 /\ j \in 1..Len(box)
    BY <1>1, <1>3, <2>2 DEF Waiting
  <2>3. CASE j = Len(box) + 1 /\ i \in 1..Len(box)
    BY <1>1, <1>3, <2>3 DEF Waiting
  <2>4. CASE i = Len(box) + 1 /\ j = Len(box) + 1
    BY <2>4
  <2> QED
    BY <1>1, <2>1, <2>2, <2>3, <2>4
<1>4. ASSUME NEW s
      PROVE  Delivered(app, s) <=> (Delivered(box, s) \/ msg.socket = s)
  BY <1>1 DEF Delivered
<1> QED
  BY <1>2, <1>3, <1>4 DEF app

----------------------------------------------------------------------------
(* The inductive invariant: who owns the timers, and who hears the socket. *)

\* The three properties hold together: a reconnect timeout is consumed only
\* when there is no socket, and a message of the current socket only when no
\* reconnect is on its way.
IInv == TypeOK /\ ReconnectOwned /\ SocketHeard /\ AckTimerOwned

\* terminate/2 ends the process, and with it what the properties speak of.
LEMMA StopSteps ==
    ASSUME NEW reason \in Stopped, StopWith(reason)
    PROVE  ReconnectOwned' /\ SocketHeard' /\ AckTimerOwned'
<1>1. ~Running'
  BY DEF StopWith, Stopped, Running
<1> QED
  BY <1>1 DEF ReconnectOwned, SocketHeard, AckTimerOwned

\* A step that leaves the reconnect timer, its messages and the presence of a
\* socket alone keeps ReconnectOwned.
LEMMA QuietReconnect ==
    ASSUME ReconnectOwned, Running,
           \A r : <<"reconnect_timeout", r>> \in armed' <=> <<"reconnect_timeout", r>> \in armed,
           UNCHANGED <<reconnect_timer_ref, continue>>,
           (socket' = Nil) <=> (socket = Nil),
           Waiting(inbox', "reconnect_timeout") <=> Waiting(inbox, "reconnect_timeout"),
           AtMostOne(inbox, "reconnect_timeout") => AtMostOne(inbox', "reconnect_timeout")
    PROVE  ReconnectOwned'
<1>1. ReconnectArmed' <=> ReconnectArmed
  BY DEF ReconnectArmed
<1> QED
  BY <1>1 DEF ReconnectOwned

\* A process without a socket and without a connection attempt of its own
\* that schedules a reconnect owns exactly that one.
LEMMA ReconnectScheduled ==
    ASSUME TypeOK, ReconnectOwned, Running,
           reconnect_timer_ref = Nil,
           NEW running, running \subseteq armed,
           ScheduleReconnect(running),
           socket' = Nil,
           Waiting(inbox', "reconnect_timeout") => Waiting(inbox, "reconnect_timeout"),
           AtMostOne(inbox, "reconnect_timeout") => AtMostOne(inbox', "reconnect_timeout")
    PROVE  ReconnectOwned'
<1>1. PICK r \in TimerRefs :
         /\ reconnect_timer_ref' = r
         /\ armed' = (running \ {<<"reconnect_timeout", reconnect_timer_ref>>})
                        \cup {<<"reconnect_timeout", r>>}
  BY DEF ScheduleReconnect
<1>2. r # Nil
  BY ReplicaConstants
<1>3. \A q \in TimerRefs : <<"reconnect_timeout", q>> \notin running
  BY ReplicaConstants DEF ReconnectOwned
<1>4. \A q \in TimerRefs : <<"reconnect_timeout", q>> \in armed' => q = reconnect_timer_ref'
  BY <1>1, <1>3
<1>5. ReconnectArmed'
  BY <1>1 DEF ReconnectArmed
<1>6. ~Waiting(inbox', "reconnect_timeout") /\ AtMostOne(inbox', "reconnect_timeout")
  BY DEF ReconnectOwned
<1>7. ~continue'
  BY DEF ScheduleReconnect
<1> QED
  BY <1>1, <1>2, <1>4, <1>5, <1>6, <1>7 DEF ReconnectOwned

\* handle_disconnect, reached from a message of the current socket.
LEMMA DisconnectReconnect ==
    ASSUME TypeOK, ReconnectOwned, Running, ~continue,
           inbox # <<>>, Head(inbox).socket = socket,
           Head(inbox).type \in {"data", "closed", "error"},
           HandleDisconnect(Tail(inbox))
    PROVE  ReconnectOwned'
<1>1. CASE ~opts.reconnect_enabled /\ StopWith("reconnect_disabled")
  BY <1>1, StopSteps DEF Stopped
<1>2. CASE ScheduleReconnect(CancelAckTimer) /\ socket' = Nil /\ inbox' = Tail(inbox)
  <2>1. socket # Nil
    BY MessageFacts
  <2>2. reconnect_timer_ref = Nil
    BY <2>1 DEF ReconnectOwned
  <2>3. inbox \in Seq(Messages)
    BY DEF TypeOK
  <2>4. Waiting(inbox', "reconnect_timeout") => Waiting(inbox, "reconnect_timeout")
    BY <1>2, <2>3, TailMailbox
  <2>5. AtMostOne(inbox, "reconnect_timeout") => AtMostOne(inbox', "reconnect_timeout")
    BY <1>2, <2>3, TailMailbox
  <2>6. CancelAckTimer \subseteq armed
    BY DEF CancelAckTimer
  <2> QED
    BY <1>2, <2>2, <2>4, <2>5, <2>6, ReconnectScheduled
<1> QED
  BY <1>1, <1>2 DEF HandleDisconnect

\* Every step keeps ReconnectOwned.
LEMMA ReconnectStep ==
    ASSUME TypeOK, ReconnectOwned, Next
    PROVE  ReconnectOwned'
<1> DEFINE rt == "reconnect_timeout"
<1>s. ASSUME NEW reason \in Stopped, StopWith(reason)
      PROVE  ReconnectOwned'
  BY <1>s, StopSteps
<1>b. inbox \in Seq(Messages) /\ continue \in BOOLEAN
  BY DEF TypeOK
<1>c. continue /\ Running => socket = Nil /\ reconnect_timer_ref = Nil
  BY DEF ReconnectOwned
<1>t. ASSUME inbox # <<>>, inbox' = Tail(inbox), Head(inbox).type # rt
      PROVE  /\ Waiting(inbox', rt) <=> Waiting(inbox, rt)
             /\ AtMostOne(inbox, rt) => AtMostOne(inbox', rt)
  BY <1>b, <1>t, TailMailbox
<1>m. ASSUME NEW p, Running, inbox # <<>>, Head(inbox).type # rt, MoveTo(p)
      PROVE  ReconnectOwned'
  <2>1. /\ inbox' = Tail(inbox)
        /\ UNCHANGED <<reconnect_timer_ref, continue, armed, socket>>
    BY <1>m DEF MoveTo, timerVars
  <2> QED
    BY <1>m, <1>t, <2>1, QuietReconnect
<1>d. ASSUME Running, ~continue, inbox # <<>>, Head(inbox).socket = socket,
             Head(inbox).type \in {"data", "closed", "error"}, HandleDisconnect(Tail(inbox))
      PROVE  ReconnectOwned'
  BY <1>d, DisconnectReconnect
<1>1. CASE ConnectOk
  <2>1. PICK s \in Sockets : socket' = s
    BY <1>1 DEF ConnectOk
  <2>2. socket' # Nil
    BY <2>1, ReplicaConstants
  <2>3. /\ Running /\ continue /\ ~continue'
        /\ reconnect_timer_ref' = Nil
        /\ armed' \subseteq armed
        /\ inbox' = inbox
    BY <1>1 DEF ConnectOk
  <2>4. \A r \in TimerRefs : <<rt, r>> \notin armed
    BY <1>c, <2>3, ReplicaConstants DEF ReconnectOwned
  <2>5. ~ReconnectArmed'
    BY <2>3, ReplicaConstants DEF ReconnectArmed, TypeOK
  <2>6. ~Waiting(inbox', rt) /\ AtMostOne(inbox', rt)
    BY <1>c, <2>3 DEF ReconnectOwned
  <2> QED
    BY <2>2, <2>3, <2>4, <2>5, <2>6 DEF ReconnectOwned
<1>2. CASE ConnectFails \/ ConnectSendFails
  <2>1. Running /\ socket = Nil /\ reconnect_timer_ref = Nil
    BY <1>2, <1>c DEF ConnectFails, ConnectSendFails
  <2>2. CASE StopWith("reconnect_disabled")
    BY <1>s, <2>2 DEF Stopped
  <2>3. CASE ScheduleReconnect(armed) /\ UNCHANGED <<socket, inbox>>
    BY <2>1, <2>3, ReconnectScheduled
  <2> QED
    BY <1>2, <2>2, <2>3 DEF ConnectFails, ConnectSendFails
<1>3. CASE DataIncomplete
  <2>1. PICK p \in Handshake : ReceivesData(p) /\ MoveTo(p)
    BY <1>3 DEF DataIncomplete
  <2> QED
    BY <1>m, <2>1 DEF ReceivesData, Receives
<1>4. CASE ReplyError
  BY <1>4, <1>d DEF ReplyError, ReceivesData, Receives
<1>5. CASE HandleAuthResponse
  BY <1>5, <1>m, <1>d DEF HandleAuthResponse, ReceivesData, Receives
<1>6. CASE HandlePingResponse
  BY <1>6, <1>m, <1>s DEF HandlePingResponse, ReceivesData, Receives, Stopped
<1>7. CASE HandleReplconfResponse
  <2>1. Running /\ inbox # <<>> /\ Head(inbox).type = "data"
    BY <1>7 DEF HandleReplconfResponse, ReceivesData, Receives
  <2>2. CASE StopWith("send_failed")
    BY <1>s, <2>2 DEF Stopped
  <2>3. CASE MoveTo(IF state = "replconf_listening_port" THEN "replconf_capa" ELSE "psync")
    BY <1>m, <2>1, <2>3
  <2> QED
    BY <1>7, <2>2, <2>3 DEF HandleReplconfResponse
<1>8. CASE HandlePsyncResponse \/ HandleReplicationData
  <2>1. /\ Running /\ ~continue /\ inbox # <<>>
        /\ Head(inbox).type = "data" /\ Head(inbox).socket = socket
    BY <1>8 DEF HandlePsyncResponse, HandleReplicationData, ReceivesData, Receives
  <2>2. CASE StopWith("callback_failed")
    BY <1>s, <2>2 DEF Stopped
  <2>3. CASE HandleDisconnect(Tail(inbox))
    BY <1>d, <2>1, <2>3
  <2>4. CASE /\ SchedulePeriodicAck \/ UNCHANGED armed
             /\ inbox' = Tail(inbox)
             /\ UNCHANGED <<continue, socket, timerVars>>
    <3>1. \A r : <<rt, r>> \in armed' <=> <<rt, r>> \in armed
      BY <2>4 DEF SchedulePeriodicAck, CancelAckTimer
    <3>2. reconnect_timer_ref' = reconnect_timer_ref
      BY <2>4 DEF timerVars
    <3> QED
      BY <1>t, <2>1, <2>4, <3>1, <3>2, QuietReconnect
  <2> QED
    BY <1>8, <2>2, <2>3, <2>4 DEF HandlePsyncResponse, HandleReplicationData
<1>9. CASE HandleConnectionLost
  BY <1>9, <1>d DEF HandleConnectionLost, Receives
<1>10. CASE HandleStaleSocketMessage
  <2>1. /\ Running /\ inbox # <<>> /\ Head(inbox).type # rt /\ inbox' = Tail(inbox)
        /\ UNCHANGED <<reconnect_timer_ref, continue, armed, socket>>
    BY <1>10 DEF HandleStaleSocketMessage, Receives, timerVars
  <2> QED
    BY <1>t, <2>1, QuietReconnect
<1>11. CASE HandleReconnectTimeout
  <2>1. /\ Running /\ ~continue /\ inbox # <<>> /\ Head(inbox).type = rt
        /\ inbox' = Tail(inbox)
        /\ UNCHANGED <<status, socket, armed>>
    BY <1>11 DEF HandleReconnectTimeout, Receives
  <2>2. Waiting(inbox, rt)
    BY <1>b, <2>1, TailMailbox
  <2>3. reconnect_timer_ref # Nil /\ socket = Nil /\ ~ReconnectArmed
    BY <2>1, <2>2 DEF ReconnectOwned
  <2>4. reconnect_timer_ref' = Nil /\ continue'
    BY <1>11, <2>3 DEF HandleReconnectTimeout
  <2>5. ~Waiting(inbox', rt) /\ AtMostOne(inbox', rt)
    BY <1>b, <2>1, TailMailbox DEF ReconnectOwned
  <2>6. \A r \in TimerRefs : <<rt, r>> \notin armed
    BY <2>1, <2>3 DEF ReconnectOwned, ReconnectArmed
  <2>7. ~ReconnectArmed'
    BY <2>1, <2>4, ReplicaConstants DEF ReconnectArmed, TypeOK
  <2> QED
    BY <2>1, <2>3, <2>4, <2>5, <2>6, <2>7 DEF ReconnectOwned
<1>12. CASE HandleSendPeriodicAck
  <2>1. /\ Running /\ inbox # <<>> /\ Head(inbox).type # rt /\ inbox' = Tail(inbox)
        /\ UNCHANGED <<reconnect_timer_ref, continue, socket>>
    BY <1>12 DEF HandleSendPeriodicAck, Receives, timerVars
  <2>2. \A r : <<rt, r>> \in armed' <=> <<rt, r>> \in armed
    BY <1>12 DEF HandleSendPeriodicAck, SchedulePeriodicAck, CancelAckTimer
  <2> QED
    BY <1>t, <2>1, <2>2, QuietReconnect
<1>13. CASE Shutdown
  BY <1>13, <1>s DEF Shutdown, Stopped
<1>14. ASSUME TimerFires(rt)
       PROVE  ReconnectOwned'
  <2>1. PICK r \in TimerRefs : /\ <<rt, r>> \in armed
                               /\ armed' = armed \ {<<rt, r>>}
                               /\ inbox' = Append(inbox, Timer(rt))
    BY <1>14 DEF TimerFires
  <2>2. Running /\ UNCHANGED <<status, socket, continue, reconnect_timer_ref>>
    BY <1>14 DEF TimerFires, timerVars
  <2>3. r = reconnect_timer_ref /\ ReconnectArmed /\ ~Waiting(inbox, rt)
    BY <2>1, <2>2 DEF ReconnectOwned, ReconnectArmed
  <2>4. Timer(rt) \in Messages /\ Timer(rt).type = rt
    BY DEF Timer, Messages
  <2>5. Waiting(inbox', rt) /\ (AtMostOne(inbox, rt) => AtMostOne(inbox', rt))
    BY <1>b, <2>1, <2>3, <2>4, AppendMailbox
  <2>6. ~ReconnectArmed'
    BY <2>1, <2>2, <2>3 DEF ReconnectArmed
  <2> QED
    BY <2>1, <2>2, <2>3, <2>5, <2>6 DEF ReconnectOwned, Running
<1>15. ASSUME TimerFires("send_periodic_ack")
       PROVE  ReconnectOwned'
  <2>1. PICK r \in TimerRefs : /\ armed' = armed \ {<<"send_periodic_ack", r>>}
                               /\ inbox' = Append(inbox, Timer("send_periodic_ack"))
    BY <1>15 DEF TimerFires
  <2>2. Timer("send_periodic_ack") \in Messages /\ Timer("send_periodic_ack").type # rt
    BY DEF Timer, Messages
  <2>3. /\ Waiting(inbox', rt) <=> Waiting(inbox, rt)
        /\ AtMostOne(inbox, rt) => AtMostOne(inbox', rt)
    BY <1>b, <2>1, <2>2, AppendMailbox
  <2>4. Running /\ UNCHANGED <<socket, continue, reconnect_timer_ref>>
    BY <1>15 DEF TimerFires, timerVars
  <2>5. \A q : <<rt, q>> \in armed' <=> <<rt, q>> \in armed
    BY <2>1
  <2> QED
    BY <2>3, <2>4, <2>5, QuietReconnect
<1>16. ASSUME NEW s \in Sockets, PeerSends(s)
       PROVE  ReconnectOwned'
  <2>1. FromSocket("data", s) \in Messages /\ FromSocket("data", s).type # rt
    BY DEF FromSocket, Messages
  <2>2. /\ Running /\ inbox' = Append(inbox, FromSocket("data", s))
        /\ UNCHANGED <<armed, socket, continue, reconnect_timer_ref>>
    BY <1>16 DEF PeerSends, timerVars
  <2>3. /\ Waiting(inbox', rt) <=> Waiting(inbox, rt)
        /\ AtMostOne(inbox, rt) => AtMostOne(inbox', rt)
    BY <1>b, <2>1, <2>2, AppendMailbox
  <2> QED
    BY <2>2, <2>3, QuietReconnect
<1>17. ASSUME NEW s \in Sockets, PeerCloses(s)
       PROVE  ReconnectOwned'
  <2> DEFINE closed == FromSocket("closed", s)
             error == FromSocket("error", s)
  <2>1. /\ closed \in Messages /\ closed.type # rt
        /\ error \in Messages /\ error.type # rt
    BY DEF FromSocket, Messages
  <2>2. /\ Running
        /\ inbox' = Append(inbox, closed) \/ inbox' = Append(Append(inbox, error), closed)
        /\ UNCHANGED <<armed, socket, continue, reconnect_timer_ref>>
    BY <1>17 DEF PeerCloses, timerVars
  <2> HIDE DEF closed, error
  <2>3. /\ Append(inbox, error) \in Seq(Messages)
        /\ Waiting(Append(inbox, error), rt) <=> Waiting(inbox, rt)
        /\ AtMostOne(inbox, rt) => AtMostOne(Append(inbox, error), rt)
    BY <1>b, <2>1, AppendFacts, AppendMailbox
  <2>4. /\ Waiting(inbox', rt) <=> Waiting(inbox, rt)
        /\ AtMostOne(inbox, rt) => AtMostOne(inbox', rt)
    <3>1. CASE inbox' = Append(inbox, closed)
      BY <1>b, <2>1, <3>1, AppendMailbox
    <3>2. CASE inbox' = Append(Append(inbox, error), closed)
      BY <2>1, <2>3, <3>2, AppendMailbox
    <3> QED
      BY <2>2, <3>1, <3>2
  <2> QED
    BY <2>2, <2>4, QuietReconnect
<1>18. CASE Terminated
  BY <1>18 DEF Terminated, vars, ReconnectOwned, ReconnectArmed, Waiting, AtMostOne, Running
<1> QED
  BY <1>1, <1>2, <1>3, <1>4, <1>5, <1>6, <1>7, <1>8, <1>9, <1>10, <1>11, <1>12, <1>13,
     <1>14, <1>15, <1>16, <1>17, <1>18 DEF Next, Process, Runtime, Timers

\* Every step keeps SocketHeard: only the handlers of the socket's own
\* messages consume them, and they re-arm it or let it go.
LEMMA SocketStep ==
    ASSUME TypeOK, ReconnectOwned, SocketHeard, Next
    PROVE  SocketHeard'
<1>s. ASSUME NEW reason \in Stopped, StopWith(reason)
      PROVE  SocketHeard'
  BY <1>s, StopSteps
<1>b. inbox \in Seq(Messages) /\ port \in [Sockets -> {"closed", "active", "passive"}]
      /\ socket \in Sockets \cup {Nil}
  BY DEF TypeOK
<1>n. ASSUME socket' = Nil
      PROVE  SocketHeard'
  BY <1>n DEF SocketHeard
<1>r. ASSUME UNCHANGED socket, Rearm
      PROVE  SocketHeard'
  BY <1>b, <1>r DEF SocketHeard, Rearm
<1>k. ASSUME Running, UNCHANGED <<socket, port>>, Delivered(inbox, socket) => Delivered(inbox', socket)
      PROVE  SocketHeard'
  BY <1>k DEF SocketHeard
<1>d. ASSUME HandleDisconnect(Tail(inbox))
      PROVE  SocketHeard'
  BY <1>d, <1>s, <1>n DEF HandleDisconnect, Stopped
<1>1. CASE ConnectOk
  BY <1>1, <1>b DEF ConnectOk, SocketHeard
<1>2. CASE ConnectFails \/ ConnectSendFails
  <2>1. socket = Nil
    BY <1>2 DEF ConnectFails, ConnectSendFails, ReconnectOwned
  <2> QED
    BY <1>2, <1>s, <1>n, <2>1 DEF ConnectFails, ConnectSendFails, Stopped
<1>3. CASE DataIncomplete \/ ReplyError
  BY <1>3, <1>r, <1>d DEF DataIncomplete, ReplyError, MoveTo
<1>4. CASE HandleAuthResponse \/ HandlePingResponse \/ HandleReplconfResponse
  BY <1>4, <1>r, <1>d, <1>s
     DEF HandleAuthResponse, HandlePingResponse, HandleReplconfResponse, MoveTo, Stopped
<1>5. CASE HandlePsyncResponse \/ HandleReplicationData
  BY <1>5, <1>r, <1>d, <1>s DEF HandlePsyncResponse, HandleReplicationData, Stopped
<1>6. CASE HandleConnectionLost
  BY <1>6, <1>d DEF HandleConnectionLost
<1>7. CASE HandleStaleSocketMessage
  <2>1. Running /\ inbox # <<>> /\ Head(inbox).socket # socket /\ inbox' = Tail(inbox)
    BY <1>7 DEF HandleStaleSocketMessage, Receives
  <2>2. UNCHANGED <<socket, port>>
    BY <1>7 DEF HandleStaleSocketMessage
  <2> QED
    BY <1>b, <1>k, <2>1, <2>2, TailMailbox
<1>8. CASE HandleReconnectTimeout \/ HandleSendPeriodicAck
  <2>1. /\ Running /\ inbox # <<>> /\ inbox' = Tail(inbox)
        /\ Head(inbox).type \in {"reconnect_timeout", "send_periodic_ack"}
        /\ UNCHANGED <<socket, port>>
    BY <1>8 DEF HandleReconnectTimeout, HandleSendPeriodicAck, Receives
  <2>2. Head(inbox).socket = Nil
    BY <2>1, MessageFacts
  <2>3. CASE socket = Nil
    BY <1>n, <2>1, <2>3
  <2>4. CASE socket # Nil
    BY <1>b, <1>k, <2>1, <2>2, <2>4, TailMailbox
  <2> QED
    BY <2>3, <2>4
<1>9. CASE Shutdown
  BY <1>9, <1>s DEF Shutdown, Stopped
<1>10. ASSUME NEW m \in Timers, TimerFires(m)
       PROVE  SocketHeard'
  <2>1. Timer(m) \in Messages
    BY DEF Timer, Messages, Timers
  <2>2. Running /\ inbox' = Append(inbox, Timer(m)) /\ UNCHANGED <<socket, port>>
    BY <1>10 DEF TimerFires
  <2> QED
    BY <1>b, <1>k, <2>1, <2>2, AppendMailbox
<1>11. ASSUME NEW s \in Sockets, PeerSends(s)
       PROVE  SocketHeard'
  <2>1. FromSocket("data", s) \in Messages /\ FromSocket("data", s).socket = s
    BY DEF FromSocket, Messages
  <2>2. /\ Running /\ inbox' = Append(inbox, FromSocket("data", s))
        /\ socket' = socket /\ port' = [port EXCEPT ![s] = "passive"]
    BY <1>11 DEF PeerSends
  <2>3. Delivered(inbox', socket) <=> (Delivered(inbox, socket) \/ s = socket)
    BY <1>b, <2>1, <2>2, AppendMailbox
  <2> QED
    BY <1>b, <2>2, <2>3 DEF SocketHeard
<1>12. ASSUME NEW s \in Sockets, PeerCloses(s)
       PROVE  SocketHeard'
  <2> DEFINE closed == FromSocket("closed", s)
             error == FromSocket("error", s)
  <2>1. /\ closed \in Messages /\ closed.socket = s
        /\ error \in Messages /\ error.socket = s
    BY DEF FromSocket, Messages
  <2>2. /\ Running
        /\ inbox' = Append(inbox, closed) \/ inbox' = Append(Append(inbox, error), closed)
        /\ socket' = socket /\ port' = [port EXCEPT ![s] = "closed"]
    BY <1>12 DEF PeerCloses
  <2> HIDE DEF closed, error
  <2>3. /\ Append(inbox, error) \in Seq(Messages)
        /\ Delivered(Append(inbox, error), socket) <=> (Delivered(inbox, socket) \/ s = socket)
    BY <1>b, <2>1, AppendFacts, AppendMailbox
  <2>4. Delivered(inbox', socket) <=> (Delivered(inbox, socket) \/ s = socket)
    <3>1. CASE inbox' = Append(inbox, closed)
      BY <1>b, <2>1, <3>1, AppendMailbox
    <3>2. CASE inbox' = Append(Append(inbox, error), closed)
      BY <2>1, <2>3, <3>2, AppendMailbox
    <3> QED
      BY <2>2, <3>1, <3>2
  <2> QED
    BY <1>b, <2>2, <2>4 DEF SocketHeard
<1>13. CASE Terminated
  BY <1>13 DEF Terminated, vars, SocketHeard, Delivered, Running
<1> QED
  BY <1>1, <1>2, <1>3, <1>4, <1>5, <1>6, <1>7, <1>8, <1>9, <1>10, <1>11, <1>12, <1>13
     DEF Next, Process, Runtime

\* Every step keeps AckTimerOwned.
LEMMA AckStep ==
    ASSUME TypeOK, ReconnectOwned, AckTimerOwned, Next
    PROVE  AckTimerOwned'
<1> DEFINE ack == "send_periodic_ack"
           owned == \A r \in TimerRefs : <<ack, r>> \in armed => r = ack_timer_ref
<1>s. ASSUME NEW reason \in Stopped, StopWith(reason)
      PROVE  AckTimerOwned'
  BY <1>s, StopSteps
<1>b. inbox \in Seq(Messages)
  BY DEF TypeOK
<1>o. Running => owned
  BY DEF AckTimerOwned
\* Outside "replication" it is enough that the timer is still owned.
<1>n. ASSUME owned', state' # "replication"
      PROVE  AckTimerOwned'
  BY <1>n DEF AckTimerOwned
\* A step that consumes or adds another message and keeps the timer.
<1>k. ASSUME Running, UNCHANGED <<state, ack_timer_ref>>,
             \A r : <<ack, r>> \in armed' <=> <<ack, r>> \in armed,
             Waiting(inbox, ack) => Waiting(inbox', ack)
      PROVE  AckTimerOwned'
  BY <1>k DEF AckTimerOwned
<1>a. ASSUME Running, SchedulePeriodicAck
      PROVE  AckTimerOwned'
  <2>1. PICK r \in TimerRefs : /\ ack_timer_ref' = r
                               /\ armed' = CancelAckTimer \cup {<<ack, r>>}
    BY <1>a DEF SchedulePeriodicAck
  <2>2. owned'
    BY <1>a, <1>o, <2>1 DEF CancelAckTimer
  <2>3. <<ack, ack_timer_ref>>' \in armed'
    BY <2>1
  <2> QED
    BY <2>2, <2>3 DEF AckTimerOwned
<1>d. ASSUME Running, HandleDisconnect(Tail(inbox))
      PROVE  AckTimerOwned'
  <2>1. CASE ScheduleReconnect(CancelAckTimer) /\ ack_timer_ref' = Nil
    <3>1. \A r \in TimerRefs : <<ack, r>> \notin armed'
      BY <1>d, <1>o, <2>1 DEF ScheduleReconnect, CancelAckTimer
    <3>2. state' = "init"
      BY <2>1 DEF ScheduleReconnect
    <3> QED
      BY <1>n, <3>1, <3>2
  <2>2. CASE StopWith("reconnect_disabled")
    BY <1>s, <2>2 DEF Stopped
  <2> QED
    BY <1>d, <2>1, <2>2 DEF HandleDisconnect
<1>m. ASSUME NEW p \in Handshake, Running, MoveTo(p)
      PROVE  AckTimerOwned'
  BY <1>m, <1>o, <1>n DEF MoveTo, Handshake
<1>1. CASE ConnectOk
  <2>1. owned' /\ state' # "replication"
    BY <1>1, <1>o DEF ConnectOk
  <2> QED
    BY <1>n, <2>1
<1>2. CASE ConnectFails \/ ConnectSendFails
  <2>1. CASE StopWith("reconnect_disabled")
    BY <1>s, <2>1 DEF Stopped
  <2>2. CASE ScheduleReconnect(armed) /\ UNCHANGED ack_timer_ref
    <3>1. Running
      BY <1>2 DEF ConnectFails, ConnectSendFails
    <3>2. owned' /\ state' # "replication"
      BY <1>o, <2>2, <3>1 DEF ScheduleReconnect
    <3> QED
      BY <1>n, <3>2
  <2> QED
    BY <1>2, <2>1, <2>2 DEF ConnectFails, ConnectSendFails
<1>3. CASE DataIncomplete \/ ReplyError
  BY <1>3, <1>m, <1>d DEF DataIncomplete, ReplyError, ReceivesData, Receives
<1>4. CASE HandleAuthResponse \/ HandlePingResponse
  BY <1>4, <1>m, <1>d, <1>s
     DEF HandleAuthResponse, HandlePingResponse, ReceivesData, Receives, Handshake, Stopped
<1>5. CASE HandleReplconfResponse
  <2>1. Running
    BY <1>5 DEF HandleReplconfResponse, ReceivesData, Receives
  <2>2. CASE StopWith("send_failed")
    BY <1>s, <2>2 DEF Stopped
  <2>3. CASE MoveTo(IF state = "replconf_listening_port" THEN "replconf_capa" ELSE "psync")
    BY <1>m, <2>1, <2>3 DEF Handshake
  <2> QED
    BY <1>5, <2>2, <2>3 DEF HandleReplconfResponse
<1>6. CASE HandlePsyncResponse
  BY <1>6, <1>a, <1>d, <1>s DEF HandlePsyncResponse, ReceivesData, Receives, Stopped
<1>7. CASE HandleReplicationData
  <2>1. Running /\ inbox # <<>> /\ Head(inbox).type # ack
    BY <1>7 DEF HandleReplicationData, ReceivesData, Receives
  <2>2. CASE inbox' = Tail(inbox) /\ UNCHANGED <<state, ack_timer_ref, armed>>
    BY <1>b, <1>k, <2>1, <2>2, TailMailbox
  <2> QED
    BY <1>7, <1>d, <1>s, <2>1, <2>2 DEF HandleReplicationData, Stopped
<1>8. CASE HandleConnectionLost
  BY <1>8, <1>d DEF HandleConnectionLost, Receives
<1>9. CASE HandleStaleSocketMessage \/ HandleReconnectTimeout
  <2>1. /\ Running /\ inbox # <<>> /\ Head(inbox).type # ack /\ inbox' = Tail(inbox)
        /\ UNCHANGED <<state, ack_timer_ref, armed>>
    BY <1>9 DEF HandleStaleSocketMessage, HandleReconnectTimeout, Receives
  <2> QED
    BY <1>b, <1>k, <2>1, TailMailbox
<1>10. CASE HandleSendPeriodicAck
  BY <1>10, <1>a DEF HandleSendPeriodicAck, Receives
<1>11. CASE Shutdown
  BY <1>11, <1>s DEF Shutdown, Stopped
<1>12. ASSUME TimerFires(ack)
       PROVE  AckTimerOwned'
  <2>1. Timer(ack) \in Messages /\ Timer(ack).type = ack
    BY DEF Timer, Messages
  <2>2. Running /\ inbox' = Append(inbox, Timer(ack)) /\ armed' \subseteq armed
    BY <1>12 DEF TimerFires
  <2>3. UNCHANGED <<state, ack_timer_ref>>
    BY <1>12 DEF TimerFires
  <2>4. Waiting(inbox', ack)
    BY <1>b, <2>1, <2>2, AppendMailbox
  <2> QED
    BY <1>o, <2>2, <2>3, <2>4 DEF AckTimerOwned
<1>13. ASSUME TimerFires("reconnect_timeout")
       PROVE  AckTimerOwned'
  <2>1. Timer("reconnect_timeout") \in Messages
    BY DEF Timer, Messages
  <2>2. /\ Running /\ inbox' = Append(inbox, Timer("reconnect_timeout"))
        /\ \A r : <<ack, r>> \in armed' <=> <<ack, r>> \in armed
        /\ UNCHANGED <<state, ack_timer_ref>>
    BY <1>13 DEF TimerFires
  <2> QED
    BY <1>b, <1>k, <2>1, <2>2, AppendMailbox
<1>14. ASSUME NEW s \in Sockets, PeerSends(s)
       PROVE  AckTimerOwned'
  <2>1. FromSocket("data", s) \in Messages
    BY DEF FromSocket, Messages
  <2>2. /\ Running /\ inbox' = Append(inbox, FromSocket("data", s))
        /\ UNCHANGED <<state, ack_timer_ref, armed>>
    BY <1>14 DEF PeerSends
  <2> QED
    BY <1>b, <1>k, <2>1, <2>2, AppendMailbox
<1>15. ASSUME NEW s \in Sockets, PeerCloses(s)
       PROVE  AckTimerOwned'
  <2> DEFINE closed == FromSocket("closed", s)
             error == FromSocket("error", s)
  <2>1. closed \in Messages /\ error \in Messages
    BY DEF FromSocket, Messages
  <2>2. /\ Running
        /\ inbox' = Append(inbox, closed) \/ inbox' = Append(Append(inbox, error), closed)
        /\ UNCHANGED <<state, ack_timer_ref, armed>>
    BY <1>15 DEF PeerCloses
  <2> HIDE DEF closed, error
  <2>3. Append(inbox, error) \in Seq(Messages)
        /\ (Waiting(inbox, ack) => Waiting(Append(inbox, error), ack))
    BY <1>b, <2>1, AppendFacts, AppendMailbox
  <2>4. Waiting(inbox, ack) => Waiting(inbox', ack)
    <3>1. CASE inbox' = Append(inbox, closed)
      BY <1>b, <2>1, <3>1, AppendMailbox
    <3>2. CASE inbox' = Append(Append(inbox, error), closed)
      BY <2>1, <2>3, <3>2, AppendMailbox
    <3> QED
      BY <2>2, <3>1, <3>2
  <2> QED
    BY <1>k, <2>2, <2>4
<1>16. CASE Terminated
  BY <1>16 DEF Terminated, vars, AckTimerOwned, Waiting, Running
<1> QED
  BY <1>1, <1>2, <1>3, <1>4, <1>5, <1>6, <1>7, <1>8, <1>9, <1>10, <1>11, <1>12, <1>13,
     <1>14, <1>15, <1>16 DEF Next, Process, Runtime, Timers

----------------------------------------------------------------------------
\* The inductive invariant holds in every reachable state.
THEOREM Inductive == Spec => []IInv
<1>1. Init => IInv
  <2> SUFFICES ASSUME Init
               PROVE  ReconnectOwned /\ SocketHeard /\ AckTimerOwned /\ TypeOK
    BY DEF IInv
  <2>1. inbox = <<>> /\ Len(inbox) = 0 /\ 1..Len(inbox) = {}
    BY DEF Init
  <2>2. ReconnectOwned
    BY <2>1, ReplicaConstants
       DEF Init, ReconnectOwned, ReconnectArmed, Waiting, AtMostOne
  <2>3. SocketHeard /\ AckTimerOwned
    BY DEF Init, SocketHeard, AckTimerOwned
  <2>4. TypeOK
    BY ReplicaConstants DEF Init, TypeOK, LargestDelay, Phases, ParserStates
  <2> QED
    BY <2>2, <2>3, <2>4
<1>2. TypeOK /\ IInv /\ [Next]_vars /\ TypeOK' => IInv'
  <2> SUFFICES ASSUME TypeOK, IInv, [Next]_vars, TypeOK'
               PROVE  ReconnectOwned' /\ SocketHeard' /\ AckTimerOwned'
    BY DEF IInv
  <2>1. CASE Next
    BY <2>1, ReconnectStep, SocketStep, AckStep DEF IInv
  <2>2. CASE UNCHANGED vars
    BY <2>2 DEF vars, IInv, ReconnectOwned, SocketHeard, AckTimerOwned, ReconnectArmed,
                Waiting, AtMostOne, Delivered, Running
  <2> QED
    BY <2>1, <2>2
<1> QED
  BY <1>1, <1>2, TypeCorrect, PTL DEF Spec

\* schedule_reconnect, cancel_reconnect_timer and the stale-timer check keep
\* exactly one reconnect attempt for a replica that has no connection.
THEOREM ReconnectOwnedAlways == Spec => []ReconnectOwned
  BY Inductive, PTL DEF IInv

\* No handler leaves the current socket passive with nothing to deliver.
THEOREM SocketHeardAlways == Spec => []SocketHeard
  BY Inductive, PTL DEF IInv

\* There is at most one ACK timer, the replica can cancel it, and a
\* replicating replica has its next ACK on its way.
THEOREM AckTimerOwnedAlways == Spec => []AckTimerOwned
  BY Inductive, PTL DEF IInv
=============================================================================
