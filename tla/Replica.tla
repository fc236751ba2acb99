------------------------------ MODULE Replica ------------------------------
(***************************************************************************)
(* The life cycle of Vdr.RedisStream.Replica, the GenServer that owns the  *)
(* replication connection (lib/veidrodelis/redis_stream/replica.ex):       *)
(* connecting, the handshake up to PSYNC, reconnection with exponential    *)
(* back-off, the reconnect timer, the periodic ACK timer and the mailbox   *)
(* through which timers and sockets reach the process.                     *)
(*                                                                         *)
(* What the bytes of a reply or of a chunk parse to is a choice of the     *)
(* environment; what the parsed commands do is the subject of Replication  *)
(* and TSProj.                                                             *)
(***************************************************************************)
EXTENDS Naturals, Sequences

CONSTANTS
    Sockets,            \* socket identities
    TimerRefs,          \* timer references
    Nil,                \* the nil of socket, reconnect_timer_ref, ack_timer_ref
    ReconnectDelay,     \* reconnect_delay_ms
    MaxReconnectDelay,  \* max_reconnect_delay_ms
    MaxFaults,          \* bound on the failures of the environment
    MaxInbox            \* bound on the mailbox

ASSUME ReplicaConstants ==
    /\ Nil \notin Sockets \cup TimerRefs
    /\ ReconnectDelay \in Nat \ {0}
    /\ MaxReconnectDelay \in Nat
    /\ MaxFaults \in Nat
    /\ MaxInbox \in Nat

VARIABLES
    opts,       \* start options: reconnect_enabled, and whether there is a password
    status,     \* "running", or why the process has stopped
    continue,   \* TRUE: the {:continue, :connect} is still to be run
    state,      \* the phase of the connection (the field `state`)
    parser,     \* state of replica_parser, "none" when it is nil
    socket,     \* the current socket or Nil
    reconnect_timer_ref,
    ack_timer_ref,
    current_reconnect_delay,
    armed,      \* running timers: pairs <<message, reference>>
    port,       \* what each socket of the runtime may still deliver
    inbox,      \* the mailbox, oldest message first
    faults      \* failures of the environment so far

vars == <<opts, status, continue, state, parser, socket, reconnect_timer_ref,
          ack_timer_ref, current_reconnect_delay, armed, port, inbox, faults>>

\* The runtime's side of the connection, and the bookkeeping of timers.
timerVars == <<reconnect_timer_ref, current_reconnect_delay>>

Running == status = "running"

Handshake == {"auth", "ping", "replconf_listening_port", "replconf_capa", "psync"}
Phases == {"init", "replication"} \cup Handshake
Stopped == {"send_failed", "callback_failed", "reconnect_disabled", "shutdown"}
ParserStates == {"none", "rdb", "streaming"}

Timer(m) == [type |-> m, socket |-> Nil]
FromSocket(m, s) == [type |-> m, socket |-> s]
Messages == [type : {"reconnect_timeout", "send_periodic_ack"}, socket : {Nil}]
            \cup [type : {"data", "closed", "error"}, socket : Sockets]

LargestDelay == IF ReconnectDelay < MaxReconnectDelay THEN MaxReconnectDelay ELSE ReconnectDelay

\* Every variable has its type, and the back-off of schedule_reconnect never
\* exceeds max_reconnect_delay_ms (or the configured first delay).
TypeOK ==
    /\ opts \in [reconnect_enabled : BOOLEAN, password : BOOLEAN]
    /\ status \in {"running"} \cup Stopped
    /\ continue \in BOOLEAN
    /\ state \in Phases
    /\ parser \in ParserStates
    /\ socket \in Sockets \cup {Nil}
    /\ reconnect_timer_ref \in TimerRefs \cup {Nil}
    /\ ack_timer_ref \in TimerRefs \cup {Nil}
    /\ current_reconnect_delay \in 0 .. LargestDelay
    /\ armed \subseteq ({"reconnect_timeout", "send_periodic_ack"} \X TimerRefs)
    /\ port \in [Sockets -> {"closed", "active", "passive"}]
    /\ inbox \in Seq(Messages)
    /\ faults \in Nat

Init ==
    /\ opts \in [reconnect_enabled : BOOLEAN, password : BOOLEAN]
    /\ status = "running"
    /\ continue = TRUE
    /\ state = "init"
    /\ parser = "none"
    /\ socket = Nil
    /\ reconnect_timer_ref = Nil
    /\ ack_timer_ref = Nil
    /\ current_reconnect_delay = ReconnectDelay
    /\ armed = {}
    /\ port = [s \in Sockets |-> "closed"]
    /\ inbox = <<>>
    /\ faults = 0

----------------------------------------------------------------------------
(* Helpers *)

\* Slip for TypeOK: the back-off doubles without its cap.
Uncapped(a, b) == a

Minimum(a, b) == IF a < b THEN a ELSE b

\* Process.send_after hands out references that name no other timer.
FreshRef(r) == /\ r \in TimerRefs \ {reconnect_timer_ref, ack_timer_ref}
               /\ \A m \in {"reconnect_timeout", "send_periodic_ack"} : <<m, r>> \notin armed

FreshSocket(s) == /\ s \in Sockets \ {socket}
                  /\ port[s] = "closed"
                  /\ \A i \in 1..Len(inbox) : inbox[i].socket # s

\* The environment may fail only a bounded number of times.
Fault == faults < MaxFaults /\ faults' = faults + 1

\* transport_close: the runtime delivers nothing more from the socket.
Closed(p, s) == IF s = Nil THEN p ELSE [p EXCEPT ![s] = "closed"]

CancelAckTimer == armed \ {<<"send_periodic_ack", ack_timer_ref>>}

\* terminate/2: cancels the ACK timer and closes the socket, then the
\* process is gone, and its mailbox and remaining timers with it.
StopWith(reason) ==
    /\ status' = reason
    /\ armed' = {}
    /\ port' = [s \in Sockets |-> "closed"]
    /\ inbox' = <<>>
    /\ continue' = FALSE
    /\ UNCHANGED <<state, parser, socket, reconnect_timer_ref, ack_timer_ref,
                   current_reconnect_delay>>

\* schedule_reconnect on a state whose socket is already nil; `running` is
\* the set of timers left after any cancellation its caller has done.
ScheduleReconnect(running) ==
    /\ opts.reconnect_enabled
    /\ \E r \in TimerRefs :
          /\ FreshRef(r)
          /\ reconnect_timer_ref' = r
          /\ armed' = (running \ {<<"reconnect_timeout", reconnect_timer_ref>>})
                         \cup {<<"reconnect_timeout", r>>}
    /\ current_reconnect_delay' = Minimum(2 * current_reconnect_delay, MaxReconnectDelay)
    /\ state' = "init"
    /\ continue' = FALSE
    /\ UNCHANGED status

\* handle_disconnect: close, cancel the ACK timer, forget the connection
\* and schedule a reconnect (or stop when reconnection is disabled).
HandleDisconnect(box) ==
    \/ /\ ScheduleReconnect(CancelAckTimer)
       /\ port' = Closed(port, socket)
       /\ socket' = Nil
       /\ parser' = "none"
       /\ ack_timer_ref' = Nil
       /\ inbox' = box
    \/ /\ ~opts.reconnect_enabled
       /\ StopWith("reconnect_disabled")

\* Slip for AckTimerOwned: the previous ACK timer is not cancelled.
ScheduleSecondAck ==
    \E r \in TimerRefs :
       /\ FreshRef(r)
       /\ ack_timer_ref' = r
       /\ armed' = armed \cup {<<"send_periodic_ack", r>>}

SchedulePeriodicAck ==
    \E r \in TimerRefs :
       /\ FreshRef(r)
       /\ ack_timer_ref' = r
       /\ armed' = CancelAckTimer \cup {<<"send_periodic_ack", r>>}

----------------------------------------------------------------------------
(* handle_continue(:connect): the connection attempt and the first request. *)

ConnectOk ==
    /\ Running /\ continue
    /\ \E s \in Sockets :
          /\ FreshSocket(s)
          /\ socket' = s
          /\ port' = [port EXCEPT ![s] = "active"]
    /\ state' = IF opts.password THEN "auth" ELSE "ping"
    /\ continue' = FALSE
    /\ current_reconnect_delay' = ReconnectDelay
    /\ armed' = armed \ {<<"reconnect_timeout", reconnect_timer_ref>>}
    /\ reconnect_timer_ref' = Nil
    /\ UNCHANGED <<status, parser, ack_timer_ref, inbox, faults>>

\* transport_connect (or Sentinel discovery) fails.
ConnectFails ==
    /\ Running /\ continue
    /\ Fault
    /\ \/ /\ ScheduleReconnect(armed)
          /\ UNCHANGED <<parser, socket, ack_timer_ref, port, inbox>>
       \/ ~opts.reconnect_enabled /\ StopWith("reconnect_disabled")

\* The socket opens but the first request cannot be sent: schedule_reconnect
\* gets the state from before the connection, so nobody closes the socket.
ConnectSendFails ==
    /\ Running /\ continue
    /\ Fault
    /\ \/ /\ ScheduleReconnect(armed)
          /\ \E s \in Sockets :
                FreshSocket(s) /\ port' = [port EXCEPT ![s] = "active"]
          /\ UNCHANGED <<parser, socket, ack_timer_ref, inbox>>
       \/ ~opts.reconnect_enabled /\ StopWith("reconnect_disabled")

----------------------------------------------------------------------------
(* handle_info: one message of the mailbox at a time. *)

Receives(m) == Running /\ ~continue /\ inbox # <<>> /\ Head(inbox).type = m

ReceivesData(phase) == Receives("data") /\ Head(inbox).socket = socket /\ state = phase

\* The handler returned {:noreply, state}: the socket is re-armed.
Rearm == port' = [port EXCEPT ![socket] = "active"]

\* Slip for SocketHeard: the handler returns without active: :once.
MoveToDeaf(phase) ==
    /\ state' = phase
    /\ inbox' = Tail(inbox)
    /\ UNCHANGED <<status, continue, parser, socket, timerVars, ack_timer_ref, armed, port>>

MoveTo(phase) ==
    /\ state' = phase
    /\ inbox' = Tail(inbox)
    /\ Rearm
    /\ UNCHANGED <<status, continue, parser, socket, timerVars, ack_timer_ref, armed>>

\* The reply is not complete yet: keep it in the buffer and wait for more.
DataIncomplete ==
    /\ \E p \in Handshake : ReceivesData(p) /\ MoveTo(p)
    /\ Fault

ReplyError ==
    /\ \E p \in Handshake : ReceivesData(p)
    /\ Fault
    /\ HandleDisconnect(Tail(inbox))

HandleAuthResponse ==
    /\ ReceivesData("auth")
    /\ \/ MoveTo("ping") /\ UNCHANGED faults
       \/ Fault /\ HandleDisconnect(Tail(inbox))

HandlePingResponse ==
    /\ ReceivesData("ping")
    /\ \/ MoveTo("replconf_listening_port") /\ UNCHANGED faults
       \/ Fault /\ StopWith("send_failed")

HandleReplconfResponse ==
    /\ ReceivesData("replconf_listening_port") \/ ReceivesData("replconf_capa")
    /\ \/ /\ MoveTo(IF state = "replconf_listening_port" THEN "replconf_capa" ELSE "psync")
          /\ UNCHANGED faults
       \/ Fault /\ StopWith("send_failed")

\* FULLRESYNC or CONTINUE, and whatever part of the stream came with it.
HandlePsyncResponse ==
    /\ ReceivesData("psync")
    /\ \/ /\ state' = "replication"
          /\ parser' \in {"rdb", "streaming"}
          /\ SchedulePeriodicAck
          /\ inbox' = Tail(inbox)
          /\ Rearm
          /\ UNCHANGED <<status, continue, socket, timerVars, faults>>
       \/ Fault /\ HandleDisconnect(Tail(inbox))     \* the rest does not parse
       \/ Fault /\ StopWith("callback_failed")

HandleReplicationData ==
    /\ ReceivesData("replication")
    /\ \/ /\ parser' \in {parser, "streaming"}
          /\ inbox' = Tail(inbox)
          /\ Rearm
          /\ UNCHANGED <<status, continue, state, socket, timerVars, ack_timer_ref, armed, faults>>
       \/ Fault /\ HandleDisconnect(Tail(inbox))     \* parse_failed
       \/ Fault /\ StopWith("callback_failed")

\* tcp_closed, ssl_closed, tcp_error and ssl_error of the current socket.
HandleConnectionLost ==
    /\ Receives("closed") \/ Receives("error")
    /\ Head(inbox).socket = socket
    /\ HandleDisconnect(Tail(inbox))
    /\ UNCHANGED faults

\* Messages of a socket that is no longer the current one: a stale close is
\* dropped, stale data and errors go to the callback, which ignores them.
HandleStaleSocketMessage ==
    /\ Receives("closed") \/ Receives("error") \/ Receives("data")
    /\ Head(inbox).socket # socket
    /\ inbox' = Tail(inbox)
    /\ UNCHANGED <<status, continue, state, parser, socket, timerVars, ack_timer_ref,
                   armed, port, faults>>

\* Slip for ReconnectOwned: the reference of the fired timer is kept.
HandleReconnectTimeoutKeepingRef ==
    /\ Receives("reconnect_timeout")
    /\ inbox' = Tail(inbox)
    /\ continue' = (reconnect_timer_ref # Nil)
    /\ UNCHANGED <<status, state, parser, socket, reconnect_timer_ref, ack_timer_ref,
                   current_reconnect_delay, armed, port, faults>>

\* Slip for EventuallyReplicating: every reconnect timeout is taken for stale.
HandleReconnectTimeoutIgnored ==
    /\ Receives("reconnect_timeout")
    /\ inbox' = Tail(inbox)
    /\ UNCHANGED <<status, continue, state, parser, socket, reconnect_timer_ref, ack_timer_ref,
                   current_reconnect_delay, armed, port, faults>>

HandleReconnectTimeout ==
    /\ Receives("reconnect_timeout")
    /\ inbox' = Tail(inbox)
    /\ \/ /\ reconnect_timer_ref # Nil
          /\ reconnect_timer_ref' = Nil
          /\ continue' = TRUE
       \/ /\ reconnect_timer_ref = Nil
          /\ UNCHANGED <<reconnect_timer_ref, continue>>
    /\ UNCHANGED <<status, state, parser, socket, ack_timer_ref, current_reconnect_delay,
                   armed, port, faults>>

\* The ACK itself changes nothing here: a failed send is only logged.
HandleSendPeriodicAck ==
    /\ Receives("send_periodic_ack")
    /\ SchedulePeriodicAck
    /\ inbox' = Tail(inbox)
    /\ UNCHANGED <<status, continue, state, parser, socket, timerVars, port, faults>>

\* GenServer.stop: terminate/2 runs whatever the replica was doing.
Shutdown ==
    /\ Running /\ ~continue
    /\ Fault
    /\ StopWith("shutdown")

----------------------------------------------------------------------------
(* The runtime: timers and sockets put messages into the mailbox. *)

RoomInInbox == Len(inbox) < MaxInbox

TimerFires(m) ==
    /\ Running /\ RoomInInbox
    /\ \E r \in TimerRefs :
          /\ <<m, r>> \in armed
          /\ armed' = armed \ {<<m, r>>}
          /\ inbox' = Append(inbox, Timer(m))
    /\ UNCHANGED <<status, continue, state, parser, socket, timerVars, ack_timer_ref,
                   port, faults>>

\* With {active, :once} a socket delivers one chunk and turns passive.
PeerSends(s) ==
    /\ Running /\ RoomInInbox
    /\ port[s] = "active"
    /\ port' = [port EXCEPT ![s] = "passive"]
    /\ inbox' = Append(inbox, FromSocket("data", s))
    /\ UNCHANGED <<status, continue, state, parser, socket, timerVars, ack_timer_ref,
                   armed, faults>>

\* An orderly close, or an error followed by the close message.
PeerCloses(s) ==
    /\ Running /\ RoomInInbox
    /\ Fault
    /\ port[s] = "active"
    /\ port' = [port EXCEPT ![s] = "closed"]
    /\ \/ inbox' = Append(inbox, FromSocket("closed", s))
       \/ inbox' = Append(Append(inbox, FromSocket("error", s)), FromSocket("closed", s))
    /\ UNCHANGED <<status, continue, state, parser, socket, timerVars, ack_timer_ref, armed>>

\* A stopped process stays stopped.
Terminated == ~Running /\ UNCHANGED vars

----------------------------------------------------------------------------
Process ==
    \/ ConnectOk \/ ConnectFails \/ ConnectSendFails
    \/ DataIncomplete \/ ReplyError
    \/ HandleAuthResponse \/ HandlePingResponse \/ HandleReplconfResponse
    \/ HandlePsyncResponse \/ HandleReplicationData
    \/ HandleConnectionLost \/ HandleStaleSocketMessage
    \/ HandleReconnectTimeout \/ HandleSendPeriodicAck

Timers == {"reconnect_timeout", "send_periodic_ack"}

Runtime ==
    \/ \E m \in Timers : TimerFires(m)
    \/ \E s \in Sockets : PeerSends(s) \/ PeerCloses(s)

Next == (Process \/ Runtime \/ Shutdown \/ Terminated) /\ UNCHANGED opts

Spec == Init /\ [][Next]_vars

\* The scheduler runs the process whenever it has something to do, a timer
\* that is armed fires, and a peer that is connected answers.  The failures
\* are bounded, so they do not go on for ever.
FairSpec ==
    /\ Spec
    /\ WF_vars(Process /\ UNCHANGED opts)
    /\ \A m \in Timers : WF_vars(TimerFires(m) /\ UNCHANGED opts)
    /\ \A s \in Sockets : WF_vars(PeerSends(s) /\ UNCHANGED opts)

----------------------------------------------------------------------------
(* Properties *)

\* A mailbox holds a message of a kind; no two of them; one of a socket.
Waiting(box, m) == \E i \in 1..Len(box) : box[i].type = m
AtMostOne(box, m) ==
    \A i, j \in 1..Len(box) : box[i].type = m /\ box[j].type = m => i = j
Delivered(box, s) == \E i \in 1..Len(box) : box[i].socket = s

\* The current reconnect timer is running.
ReconnectArmed == <<"reconnect_timeout", reconnect_timer_ref>> \in armed

\* A running replica is connected, about to connect, or has exactly one
\* reconnect attempt on its way: schedule_reconnect, cancel_reconnect_timer
\* and the stale-timer check of handle_info(:reconnect_timeout) never lose
\* the attempt and never leave a second one behind.
ReconnectOwned ==
    Running =>
       /\ \A r \in TimerRefs : <<"reconnect_timeout", r>> \in armed => r = reconnect_timer_ref
       /\ AtMostOne(inbox, "reconnect_timeout")
       /\ ~(Waiting(inbox, "reconnect_timeout") /\ ReconnectArmed)
       /\ (reconnect_timer_ref # Nil) <=> (Waiting(inbox, "reconnect_timeout") \/ ReconnectArmed)
       /\ (reconnect_timer_ref # Nil) <=> (socket = Nil /\ ~continue)
       /\ continue => socket = Nil

\* The current socket can always wake the process: it is armed with
\* active: :once or something it delivered is still in the mailbox.  A
\* handler that forgot to re-arm it would leave the replica deaf.
SocketHeard ==
    Running /\ socket # Nil => port[socket] = "active" \/ Delivered(inbox, socket)

\* schedule_periodic_ack, cancel_ack_timer and the reconnect path never
\* lose track of a running ACK timer: the one in ack_timer_ref is the only
\* one, so a disconnect can always cancel it; and while replicating the next
\* ACK is always on its way.
AckTimerOwned ==
    Running =>
       /\ \A r \in TimerRefs : <<"send_periodic_ack", r>> \in armed => r = ack_timer_ref
       /\ state = "replication" =>
             \/ <<"send_periodic_ack", ack_timer_ref>> \in armed
             \/ Waiting(inbox, "send_periodic_ack")

\* Once the failures stop, a replica that keeps running is streaming its
\* replication connection for ever.
EventuallyReplicating == <>[](Running => state = "replication")
=============================================================================
