--------------------------- MODULE RegistryProofs ---------------------------
(***************************************************************************)
(* The registry for any instances and ids: its table, its map of instances *)
(* and its monitors stay consistent, a swap is refused only for the two    *)
(* reasons SwapAccepted names, and nobody takes the entry of a live        *)
(* instance.                                                               *)
(*                                                                         *)
(* The properties speak of the tables and of where the instances are; why  *)
(* they hold is in the mailbox.  A request was sent by a process that now  *)
(* waits for the answer or has died, each process has at most one of them  *)
(* under way, and only dead processes are reported.                        *)
(***************************************************************************)
EXTENDS Registry, MailboxLemmas

----------------------------------------------------------------------------
(* The inductive invariant *)

\* A process has an id from its start on, and is registered under that one;
\* what a crash of the registry has lost is not registered.
KnownById ==
    \A p \in Pids : /\ status[p] = "new" <=> id[p] = Nil
                    /\ instances[p] # Nil => instances[p].id = id[p]
                    /\ p \in lost => instances[p] = Nil

\* What the sender of a message is doing while the message waits.
Fits(m) ==
    /\ m.type = "register" =>
          /\ status[m.pid] \in {"starting", "swapping", "dead"}
          /\ m.id = id[m.pid]
          /\ m.ready \/ instances[m.pid] = Nil
    /\ m.type = "unregister" => status[m.pid] \in {"leaving", "dead"} /\ m.pid \in left
    /\ m.type = "DOWN" => status[m.pid] = "dead"

\* Every message fits what its sender is doing.
MailboxFits == \A k \in 1..Len(inbox) : Fits(inbox[k])

\* A process has one request under way at most.
OneRequestIn(box) ==
    \A k, l \in 1..Len(box) :
       /\ box[k].type # "DOWN" /\ box[l].type # "DOWN"
       /\ box[k].pid = box[l].pid
       => k = l

OneRequest == OneRequestIn(inbox)

\* An instance that has been accepted stays registered until it leaves, dies,
\* or the registry crashes.
StaysRegistered ==
    \A p \in Pids : status[p] \in {"running", "swapping", "terminating"} =>
       p \in left \cup lost \/ instances[p] # Nil

IInv ==
    /\ TypeOK /\ OneOwner /\ SwapAccepted
    /\ KnownById /\ MailboxFits /\ OneRequest /\ StaysRegistered
----------------------------------------------------------------------------
(* Messages *)

\* The fields of a message.
LEMMA MessageFacts ==
    ASSUME NEW n \in Messages
    PROVE  /\ n.pid \in Pids
           /\ n.type \in {"register", "unregister", "DOWN"}
           /\ n.type = "register" => n.id \in Ids /\ n.ready \in BOOLEAN
           /\ n.type = "unregister" => n.id \in Ids
  BY DEF Messages

\* Taking messages out of the mailbox leaves at most one request each.
LEMMA OneRequestWithin ==
    ASSUME NEW old \in Seq(Messages), NEW new \in Seq(Messages),
           Within(new, old), OneRequestIn(old)
    PROVE  OneRequestIn(new)
<1>1. PICK at \in [1..Len(new) -> 1..Len(old)] :
         /\ \A k \in 1..Len(new) : new[k] = old[at[k]]
         /\ \A k, l \in 1..Len(new) : at[k] = at[l] => k = l
  BY DEF Within
<1> QED
  BY <1>1 DEF OneRequestIn

\* Sending leaves at most one request each when the sender had none under way.
LEMMA OneRequestAppend ==
    ASSUME NEW box \in Seq(Messages), NEW m \in Messages, OneRequestIn(box),
           \/ m.type = "DOWN"
           \/ \A n \in Messages : In(box, n) /\ n.pid = m.pid => n.type = "DOWN"
    PROVE  OneRequestIn(Append(box, m))
<1>1. /\ Len(box) \in Nat /\ Len(Append(box, m)) = Len(box) + 1
      /\ Append(box, m)[Len(box) + 1] = m
      /\ \A k \in 1..Len(box) : Append(box, m)[k] = box[k] /\ box[k] \in Messages
  OBVIOUS
<1>2. \A k \in 1..Len(Append(box, m)) : k \in 1..Len(box) \/ k = Len(box) + 1
  BY <1>1
<1>3. \A k \in 1..Len(box) : In(box, box[k])
  BY DEF In
<1>4. m.type = "DOWN" \/ \A k \in 1..Len(box) : box[k].pid = m.pid => box[k].type = "DOWN"
  BY <1>1, <1>3
<1> QED
  BY <1>1, <1>2, <1>4 DEF OneRequestIn

\* The registry has received a message: what it and the ones behind it say.
LEMMA ReceivedFacts ==
    ASSUME IInv, NEW t, Receives(t)
    PROVE  /\ Head(inbox) \in Messages /\ Head(inbox).type = t /\ Fits(Head(inbox))
           /\ Tail(inbox) \in Seq(Messages) /\ OneRequestIn(Tail(inbox))
           /\ \A n \in Messages : In(Tail(inbox), n) =>
                 /\ Fits(n)
                 /\ n.type # "DOWN" /\ t # "DOWN" => n.pid # Head(inbox).pid
           /\ \A n : In(inbox, n) /\ n # Head(inbox) => In(Tail(inbox), n)
<1>1. inbox \in Seq(Messages) /\ inbox # <<>> /\ Head(inbox).type = t
  BY DEF IInv, TypeOK, Receives
<1>2. /\ Head(inbox) \in Messages
      /\ Tail(inbox) \in Seq(Messages)
      /\ In(inbox, Head(inbox)) /\ Within(Tail(inbox), inbox)
      /\ \A m : In(Tail(inbox), m) => In(inbox, m)
      /\ \A m : In(inbox, m) /\ m # Head(inbox) => In(Tail(inbox), m)
  BY <1>1, TailIn
<1>3. \A n : In(inbox, n) => Fits(n)
  BY DEF IInv, MailboxFits, In
<1>4. OneRequestIn(Tail(inbox))
  BY <1>1, <1>2, OneRequestWithin DEF IInv, OneRequest
<1>5. ASSUME NEW n \in Messages, In(Tail(inbox), n), n.type # "DOWN", t # "DOWN"
      PROVE  n.pid # Head(inbox).pid
  <2>1. PICK k \in 1..Len(Tail(inbox)) : Tail(inbox)[k] = n
    BY <1>5 DEF In
  <2>2. k + 1 \in 1..Len(inbox) /\ 1 \in 1..Len(inbox) /\ inbox[k + 1] = n /\ inbox[1] = Head(inbox)
        /\ k + 1 # 1
    BY <1>1, <2>1
  <2> QED
    BY <2>2, <1>1, <1>5 DEF IInv, OneRequest, OneRequestIn
<1> QED
  BY <1>1, <1>2, <1>3, <1>4, <1>5, Zenon

\* The invariant about the mailbox follows from what is in it.
LEMMA FitsIfEach ==
    ASSUME inbox' \in Seq(Messages), \A n \in Messages : In(inbox', n) => Fits(n)'
    PROVE  MailboxFits'
<1>1. \A k \in 1..Len(inbox') : inbox'[k] \in Messages /\ In(inbox', inbox'[k])
  BY DEF In
<1> QED
  BY <1>1 DEF MailboxFits

\* A reply moves its caller, if it lives, and nobody else.
LEMMA ReplyFacts ==
    ASSUME TypeOK, NEW p \in Pids, NEW answer \in {"running"} \cup Failed, Reply(p, answer)
    PROVE  /\ status' \in [Pids -> {"new", "dead"} \cup LiveStates]
           /\ \A q \in Pids : q # p => status'[q] = status[q]
           /\ status'[p] = IF Live(p) THEN answer ELSE status[p]
  BY DEF TypeOK, Reply, LiveStates, Failed

----------------------------------------------------------------------------
(* Every action preserves it *)

\* Before anything is registered the tables are empty and nothing is sent.
LEMMA InitIInv == Init => IInv
<1> SUFFICES ASSUME Init PROVE IInv
  OBVIOUS
<1>1. TypeOK
  BY RegistryConstants DEF Init, TypeOK
<1>2. Len(inbox) = 0
  BY DEF Init
<1>3. OneOwner /\ SwapAccepted /\ KnownById /\ StaysRegistered
  BY DEF Init, OneOwner, DeadTold, SwapAccepted, KnownById, StaysRegistered
<1>4. MailboxFits /\ OneRequest
  BY <1>2 DEF MailboxFits, OneRequest, OneRequestIn
<1> QED
  BY <1>1, <1>3, <1>4 DEF IInv

\* handle_call({:register, ...}) for a process that has no entry.
LEMMA RegisterNewStep ==
    ASSUME IInv, HandleRegister,
           RegisterNew(Head(inbox).pid, Head(inbox).id, Head(inbox).ready)
    PROVE  IInv'
<1>1. Receives("register")
  BY DEF HandleRegister
<1>2. PICK m \in Messages :
      /\ m = Head(inbox) /\ m.type = "register" /\ Fits(m)
      /\ Tail(inbox) \in Seq(Messages) /\ OneRequestIn(Tail(inbox))
      /\ \A n \in Messages : In(Tail(inbox), n) => Fits(n) /\ (n.type # "DOWN" => n.pid # m.pid)
      /\ \A n : In(inbox, n) /\ n # m => In(Tail(inbox), n)
  BY <1>1, ReceivedFacts
<1>3. PICK p \in Pids, i \in Ids : p = m.pid /\ i = m.id /\ m.ready \in BOOLEAN
  BY <1>2, MessageFacts
<1>4. status[p] \in {"starting", "swapping", "dead"} /\ i = id[p]
  BY <1>2, <1>3 DEF Fits
<1>a. refs \in Nat /\ refs + 1 \in Nat /\ refs + 1 \in 1..(refs + 1)
  BY DEF IInv, TypeOK
<1>b. PICK h \in Handles : h = [pid |-> p, ready |-> m.ready]
  BY <1>3 DEF Handles
<1>c. PICK e \in [id : Ids, ref : Nat] : e = [id |-> i, ref |-> refs + 1]
  BY <1>3, <1>a
<1>d. PICK d \in Messages : d = [type |-> "DOWN", ref |-> refs + 1, pid |-> p]
  BY <1>3, <1>a DEF Messages
<1>5. /\ instances[p] = Nil /\ ets[i] = Nil
      /\ ets' = [ets EXCEPT ![i] = h] /\ instances' = [instances EXCEPT ![p] = e]
      /\ refs' = refs + 1
      /\ inbox' = IF Live(p) THEN Tail(inbox) ELSE Append(Tail(inbox), d)
      /\ Reply(p, "running")
      /\ lost' = {q \in lost : instances'[q] = Nil}
      /\ UNCHANGED <<id, left, restarts>>
  BY <1>2, <1>3, <1>b, <1>c, <1>d DEF HandleRegister, RegisterNew
<1>6. /\ status' \in [Pids -> {"new", "dead"} \cup LiveStates]
      /\ \A q \in Pids : q # p => status'[q] = status[q]
      /\ status'[p] = IF Live(p) THEN "running" ELSE status[p]
  BY <1>3, <1>5, ReplyFacts DEF IInv
<1>7. h # Nil /\ h.pid = p /\ e # Nil /\ e.id = i /\ e.ref = refs + 1
  BY <1>b, <1>c, RegistryConstants DEF Handles
<1>8. /\ inbox' \in Seq(Messages)
      /\ \A n : In(inbox', n) => In(Tail(inbox), n) \/ (~Live(p) /\ n = d)
      /\ \A n : In(Tail(inbox), n) => In(inbox', n)
      /\ ~Live(p) => In(inbox', d)
  <2>1. CASE Live(p)
    BY <1>2, <1>5, <2>1
  <2>2. CASE ~Live(p)
    <3>1. PICK t \in Seq(Messages) : t = Tail(inbox)
      BY <1>2
    <3>2. inbox' = Append(t, d)
      BY <1>5, <2>2, <3>1
    <3> QED
      BY <2>2, <3>1, <3>2, AppendIn
  <2> QED
    BY <2>1, <2>2
<1>9. TypeOK'
  <2>1. [id : Ids, ref : 1..refs] \subseteq [id : Ids, ref : 1..(refs + 1)]
    BY <1>a
  <2>2. e \in [id : Ids, ref : 1..(refs + 1)]
    BY <1>a, <1>c
  <2>3. instances' \in [Pids -> [id : Ids, ref : 1..refs'] \cup {Nil}]
    BY <2>1, <2>2, <1>5 DEF IInv, TypeOK
  <2>4. ets' \in [Ids -> Handles \cup {Nil}]
    BY <1>5 DEF IInv, TypeOK
  <2> QED
    BY <2>3, <2>4, <1>a, <1>5, <1>6, <1>8 DEF IInv, TypeOK
<1>10. /\ ets'[i] = h /\ \A j \in Ids : j # i => ets'[j] = ets[j]
       /\ instances'[p] = e /\ \A q \in Pids : q # p => instances'[q] = instances[q]
  BY <1>3, <1>5 DEF IInv, TypeOK
<1>11. OneOwner'
  <2>1. \A j \in Ids : ets'[j] # Nil =>
           instances'[ets'[j].pid] # Nil /\ instances'[ets'[j].pid].id = j
    BY <1>3, <1>5, <1>7, <1>10 DEF IInv, TypeOK, OneOwner, Handles
  <2>2. \A q \in Pids : instances'[q] # Nil =>
           ets'[instances'[q].id] # Nil /\ ets'[instances'[q].id].pid = q
    BY <1>3, <1>5, <1>7, <1>10 DEF IInv, TypeOK, OneOwner
  <2>3. ASSUME NEW q \in Pids, instances'[q] # Nil, ~Live(q)'
        PROVE  In(inbox', DownOf(q)')
    <3>1. CASE q = p
      <4>1. ~Live(p) /\ DownOf(q)' = d
        BY <3>1, <2>3, <1>d, <1>6, <1>7, <1>10 DEF Live, DownOf, LiveStates
      <4> QED
        BY <4>1, <1>8
    <3>2. CASE q # p
      <4>1. instances[q] # Nil /\ ~Live(q) /\ DownOf(q)' = DownOf(q)
        BY <3>2, <2>3, <1>6, <1>10 DEF Live, DownOf
      <4>2. In(inbox, DownOf(q))
        BY <4>1 DEF IInv, OneOwner, DeadTold, In
      <4>3. DownOf(q) # m
        BY <1>2 DEF DownOf
      <4> QED
        BY <4>1, <4>2, <4>3, <1>2, <1>8
    <3> QED
      BY <3>1, <3>2
  <2> QED
    BY <2>1, <2>2, <2>3 DEF OneOwner, DeadTold, In
<1>12. KnownById'
  BY <1>3, <1>4, <1>5, <1>6, <1>7, <1>10, RegistryConstants DEF IInv, KnownById, Live, LiveStates
<1>13. StaysRegistered'
  BY <1>3, <1>5, <1>6, <1>7, <1>10 DEF IInv, StaysRegistered, Live
<1>14. SwapAccepted'
  BY <1>3, <1>4, <1>5, <1>6, <1>7, <1>10 DEF IInv, SwapAccepted, KnownById, Live
<1>15. MailboxFits'
  <2> SUFFICES ASSUME NEW n \in Messages, In(inbox', n)
               PROVE  Fits(n)'
    BY <1>8, FitsIfEach
  <2>1. CASE ~Live(p) /\ n = d
    BY <2>1, <1>d, <1>4, <1>6 DEF Fits, Live, LiveStates
  <2>2. CASE In(Tail(inbox), n)
    <3>1. n.pid \in Pids /\ Fits(n) /\ (n.type # "DOWN" => n.pid # p)
      BY <2>2, <1>2, <1>3, MessageFacts
    <3>2. CASE n.pid # p
      BY <3>1, <3>2, <1>5, <1>6, <1>10 DEF Fits
    <3>3. CASE n.pid = p
      BY <3>1, <3>3, <1>6 DEF Fits, Live, LiveStates, Failed
    <3> QED
      BY <3>2, <3>3
  <2> QED
    BY <2>1, <2>2, <1>8
<1>16. OneRequest'
  <2>1. OneRequestIn(Append(Tail(inbox), d))
    BY <1>2, <1>d, OneRequestAppend
  <2> QED
    BY <2>1, <1>2, <1>5 DEF OneRequest
<1> QED
  BY <1>9, <1>11, <1>12, <1>13, <1>14, <1>15, <1>16 DEF IInv

\* handle_call({:register, ...}) for a process that replaces its handle.
LEMMA RegisterAgainStep ==
    ASSUME IInv, HandleRegister,
           RegisterAgain(Head(inbox).pid, Head(inbox).id, Head(inbox).ready)
    PROVE  IInv'
<1>1. Receives("register")
  BY DEF HandleRegister
<1>2. PICK m \in Messages :
      /\ m = Head(inbox) /\ m.type = "register" /\ Fits(m)
      /\ Tail(inbox) \in Seq(Messages) /\ OneRequestIn(Tail(inbox))
      /\ \A n \in Messages : In(Tail(inbox), n) => Fits(n) /\ (n.type # "DOWN" => n.pid # m.pid)
      /\ \A n : In(inbox, n) /\ n # m => In(Tail(inbox), n)
  BY <1>1, ReceivedFacts
<1>3. PICK p \in Pids, i \in Ids : p = m.pid /\ i = m.id /\ m.ready \in BOOLEAN
  BY <1>2, MessageFacts
<1>4. status[p] \in {"starting", "swapping", "dead"} /\ i = id[p]
  BY <1>2, <1>3 DEF Fits
<1>5. PICK h \in Handles : h = [pid |-> p, ready |-> m.ready]
  BY <1>3 DEF Handles
<1>6. /\ instances[p] # Nil /\ instances[p].id = i
      /\ ets' = [ets EXCEPT ![i] = h] /\ inbox' = Tail(inbox)
      /\ Reply(p, "running")
      /\ lost' = {q \in lost : instances'[q] = Nil}
      /\ UNCHANGED <<instances, refs, id, left, restarts>>
  BY <1>2, <1>3, <1>5 DEF HandleRegister, RegisterAgain
<1>7. /\ status' \in [Pids -> {"new", "dead"} \cup LiveStates]
      /\ \A q \in Pids : q # p => status'[q] = status[q]
      /\ status'[p] = IF Live(p) THEN "running" ELSE status[p]
  BY <1>3, <1>6, ReplyFacts DEF IInv
<1>8. h # Nil /\ h.pid = p
  BY <1>5, RegistryConstants DEF Handles
<1>9. ets'[i] = h /\ \A j \in Ids : j # i => ets'[j] = ets[j]
  BY <1>6 DEF IInv, TypeOK
<1>10. TypeOK'
  BY <1>2, <1>6, <1>7 DEF IInv, TypeOK
<1>11. OneOwner'
  <2>1. \A j \in Ids : ets'[j] # Nil =>
           instances'[ets'[j].pid] # Nil /\ instances'[ets'[j].pid].id = j
    BY <1>6, <1>8, <1>9 DEF IInv, OneOwner
  <2>2. \A q \in Pids : instances'[q] # Nil =>
           ets'[instances'[q].id] # Nil /\ ets'[instances'[q].id].pid = q
    BY <1>6, <1>8, <1>9 DEF IInv, TypeOK, OneOwner
  <2>3. ASSUME NEW q \in Pids, instances'[q] # Nil, ~Live(q)'
        PROVE  In(inbox', DownOf(q)')
    <3>1. instances[q] # Nil /\ ~Live(q) /\ DownOf(q)' = DownOf(q)
      BY <2>3, <1>6, <1>7 DEF Live, DownOf, LiveStates
    <3>2. In(inbox, DownOf(q)) /\ DownOf(q) # m
      BY <3>1, <1>2 DEF IInv, OneOwner, DeadTold, In, DownOf
    <3> QED
      BY <3>1, <3>2, <1>2, <1>6
  <2> QED
    BY <2>1, <2>2, <2>3 DEF OneOwner, DeadTold, In
<1>12. KnownById'
  BY <1>6, <1>7 DEF IInv, KnownById, Live, LiveStates, Failed
<1>13. StaysRegistered'
  BY <1>6, <1>7 DEF IInv, StaysRegistered, KnownById, Live
<1>14. SwapAccepted'
  BY <1>6, <1>7 DEF IInv, SwapAccepted, KnownById, Live, LiveStates, Failed
<1>15. MailboxFits'
  <2> SUFFICES ASSUME NEW n \in Messages, In(inbox', n)
               PROVE  Fits(n)'
    BY <1>2, <1>6, FitsIfEach
  <2>1. n.pid \in Pids /\ Fits(n) /\ (n.type # "DOWN" => n.pid # p)
    BY <1>2, <1>3, <1>6, MessageFacts
  <2>2. CASE n.pid # p
    BY <2>1, <2>2, <1>6, <1>7 DEF Fits
  <2>3. CASE n.pid = p
    BY <2>1, <2>3, <1>7 DEF Fits, Live, LiveStates, Failed
  <2> QED
    BY <2>2, <2>3
<1>16. OneRequest'
  BY <1>2, <1>6 DEF OneRequest
<1> QED
  BY <1>10, <1>11, <1>12, <1>13, <1>14, <1>15, <1>16 DEF IInv

\* handle_call({:register, ...}) for an id that belongs to another process: an
\* instance that swaps its storage meets this only after its entry was lost.
LEMMA RegisterRefusedStep ==
    ASSUME IInv, HandleRegister, RegisterRefused(Head(inbox).pid, Head(inbox).id)
    PROVE  IInv'
<1>1. Receives("register")
  BY DEF HandleRegister
<1>2. PICK m \in Messages :
      /\ m = Head(inbox) /\ m.type = "register" /\ Fits(m)
      /\ Tail(inbox) \in Seq(Messages) /\ OneRequestIn(Tail(inbox))
      /\ \A n \in Messages : In(Tail(inbox), n) => Fits(n) /\ (n.type # "DOWN" => n.pid # m.pid)
      /\ \A n : In(inbox, n) /\ n # m => In(Tail(inbox), n)
  BY <1>1, ReceivedFacts
<1>3. PICK p \in Pids, i \in Ids : p = m.pid /\ i = m.id
  BY <1>2, MessageFacts
<1>4. status[p] \in {"starting", "swapping", "dead"} /\ i = id[p]
  BY <1>2, <1>3 DEF Fits
<1>5. PICK answer \in {"init_failed", "swap_failed"} :
      /\ answer = IF status[p] = "starting" THEN "init_failed" ELSE "swap_failed"
      /\ Reply(p, answer)
  BY <1>2, <1>3 DEF RegisterRefused
<1>6. /\ \/ instances[p] = Nil /\ ets[i] # Nil
         \/ instances[p] # Nil /\ instances[p].id # i
      /\ inbox' = Tail(inbox)
      /\ lost' = {q \in lost : instances'[q] = Nil}
      /\ UNCHANGED <<ets, instances, refs, id, left, restarts>>
  BY <1>2, <1>3 DEF HandleRegister, RegisterRefused
<1>7. /\ status' \in [Pids -> {"new", "dead"} \cup LiveStates]
      /\ \A q \in Pids : q # p => status'[q] = status[q]
      /\ status'[p] = IF Live(p) THEN answer ELSE status[p]
  BY <1>3, <1>5, ReplyFacts DEF IInv, Failed
<1>8. \A q \in Pids : Live(q)' <=> Live(q)
  BY <1>5, <1>7 DEF Live, LiveStates, Failed
<1>9. lost' = lost
  BY <1>6 DEF IInv, KnownById, TypeOK
<1>10. TypeOK'
  BY <1>2, <1>6, <1>7, <1>9 DEF IInv, TypeOK
<1>11. OneOwner'
  <2>1. ASSUME NEW q \in Pids, instances'[q] # Nil, ~Live(q)'
        PROVE  In(inbox', DownOf(q)')
    <3>1. instances[q] # Nil /\ ~Live(q) /\ DownOf(q)' = DownOf(q)
      BY <2>1, <1>6, <1>8 DEF DownOf
    <3>2. In(inbox, DownOf(q)) /\ DownOf(q) # m
      BY <3>1, <1>2 DEF IInv, OneOwner, DeadTold, In, DownOf
    <3> QED
      BY <3>1, <3>2, <1>2, <1>6
  <2> QED
    BY <2>1, <1>6 DEF IInv, OneOwner, DeadTold, In
<1>12. KnownById'
  BY <1>4, <1>5, <1>6, <1>7, <1>9 DEF IInv, KnownById, Live, LiveStates, Failed
<1>13. StaysRegistered'
  BY <1>4, <1>5, <1>6, <1>7, <1>9 DEF IInv, StaysRegistered
<1>14. SwapAccepted'
  <2>1. ASSUME status[p] = "swapping", p \notin left
        PROVE  p \in lost /\ \E q \in Pids \ {p} : id[q] = id[p]
    <3>1. instances[p] = Nil /\ ets[i] # Nil
      BY <1>4, <1>6 DEF IInv, KnownById
    <3>2. p \in lost
      BY <2>1, <3>1 DEF IInv, StaysRegistered
    <3>3. PICK q \in Pids : q = ets[i].pid
      BY <3>1 DEF IInv, TypeOK, Handles
    <3>4. instances[q] # Nil /\ instances[q].id = i
      BY <3>1, <3>3 DEF IInv, OneOwner
    <3> QED
      BY <3>1, <3>2, <3>4, <1>4 DEF IInv, KnownById
  <2>2. ASSUME NEW q \in Pids, status'[q] = "swap_failed"
        PROVE  \/ q \in left'
               \/ q \in lost' /\ \E r \in Pids \ {q} : id'[r] = id'[q]
    <3>1. CASE q # p
      BY <3>1, <2>2, <1>6, <1>7, <1>9 DEF IInv, SwapAccepted
    <3>2. CASE q = p
      <4>1. status[p] = "swapping"
        BY <3>2, <2>2, <1>4, <1>5, <1>7 DEF Live, LiveStates, Failed
      <4> QED
        BY <4>1, <3>2, <2>1, <1>6, <1>9
    <3> QED
      BY <3>1, <3>2
  <2> QED
    BY <2>2 DEF SwapAccepted
<1>15. MailboxFits'
  <2> SUFFICES ASSUME NEW n \in Messages, In(inbox', n)
               PROVE  Fits(n)'
    BY <1>2, <1>6, FitsIfEach
  <2>1. n.pid \in Pids /\ Fits(n) /\ (n.type # "DOWN" => n.pid # p)
    BY <1>2, <1>3, <1>6, MessageFacts
  <2>2. CASE n.pid # p
    BY <2>1, <2>2, <1>6, <1>7 DEF Fits
  <2>3. CASE n.pid = p
    BY <2>1, <2>3, <1>7 DEF Fits, Live, LiveStates, Failed
  <2> QED
    BY <2>2, <2>3
<1>16. OneRequest'
  BY <1>2, <1>6 DEF OneRequest
<1> QED
  BY <1>10, <1>11, <1>12, <1>13, <1>14, <1>15, <1>16 DEF IInv

\* handle_call({:unregister, ...}), with and without an entry to delete.
LEMMA UnregisterStep ==
    ASSUME IInv, HandleUnregister
    PROVE  IInv'
<1>1. Receives("unregister")
  BY DEF HandleUnregister
<1>2. PICK m \in Messages :
      /\ m = Head(inbox) /\ m.type = "unregister" /\ Fits(m)
      /\ Tail(inbox) \in Seq(Messages) /\ OneRequestIn(Tail(inbox))
      /\ \A n \in Messages : In(Tail(inbox), n) => Fits(n) /\ (n.type # "DOWN" => n.pid # m.pid)
      /\ \A n : In(inbox, n) /\ n # m => In(Tail(inbox), n)
  BY <1>1, ReceivedFacts
<1>3. PICK p \in Pids, i \in Ids : p = m.pid /\ i = m.id
  BY <1>2, MessageFacts
<1>4. status[p] \in {"leaving", "dead"} /\ p \in left
  BY <1>2, <1>3 DEF Fits
<1>5. Reply(p, "running") /\ UNCHANGED <<refs, id, left, restarts, lost>>
  BY <1>2, <1>3 DEF HandleUnregister
<1>6. /\ status' \in [Pids -> {"new", "dead"} \cup LiveStates]
      /\ \A q \in Pids : q # p => status'[q] = status[q]
      /\ status'[p] = IF Live(p) THEN "running" ELSE status[p]
  BY <1>3, <1>5, ReplyFacts DEF IInv
<1>7. \A q \in Pids : Live(q)' <=> Live(q)
  BY <1>6 DEF Live, LiveStates
<1>8. \/ /\ instances[p] # Nil /\ instances[p].id = i
         /\ ets' = [ets EXCEPT ![i] = Nil]
         /\ instances' = [instances EXCEPT ![p] = Nil]
         /\ inbox' = RemoveFirst(Tail(inbox), DownOf(p))
      \/ inbox' = Tail(inbox) /\ UNCHANGED <<ets, instances>>
  BY <1>2, <1>3 DEF HandleUnregister
<1>9. /\ inbox' \in Seq(Messages) /\ OneRequestIn(inbox')
      /\ \A n : In(inbox', n) => In(Tail(inbox), n)
      /\ \A n : In(Tail(inbox), n) /\ n # DownOf(p) => In(inbox', n)
      /\ inbox' = Tail(inbox) \/ instances'[p] = Nil
  <2>1. CASE inbox' = Tail(inbox)
    BY <2>1, <1>2
  <2>2. CASE inbox' = RemoveFirst(Tail(inbox), DownOf(p)) /\ instances' = [instances EXCEPT ![p] = Nil]
    <3>1. /\ inbox' \in Seq(Messages) /\ Within(inbox', Tail(inbox))
          /\ \A n : In(inbox', n) => In(Tail(inbox), n)
          /\ \A n : In(Tail(inbox), n) /\ n # DownOf(p) => In(inbox', n)
      BY <2>2, <1>2, RemoveFirstIn
    <3>2. OneRequestIn(inbox')
      BY <3>1, <1>2, OneRequestWithin
    <3>3. instances'[p] = Nil
      BY <2>2 DEF IInv, TypeOK
    <3> QED
      BY <3>1, <3>2, <3>3
  <2> QED
    BY <2>1, <2>2, <1>8
<1>10. TypeOK'
  <2>1. /\ ets' \in [Ids -> Handles \cup {Nil}]
        /\ instances' \in [Pids -> [id : Ids, ref : 1..refs] \cup {Nil}]
    BY <1>8 DEF IInv, TypeOK
  <2> QED
    BY <1>5, <1>6, <1>9, <2>1 DEF IInv, TypeOK
<1>11. /\ \A q \in Pids : q # p => instances'[q] = instances[q]
       /\ instances'[p] \in {instances[p], Nil}
       /\ \/ /\ instances'[p] = instances[p] /\ ets' = ets
          \/ /\ instances'[p] = Nil /\ instances[p] # Nil /\ instances[p].id = i
             /\ ets'[i] = Nil /\ \A j \in Ids : j # i => ets'[j] = ets[j]
  BY <1>8 DEF IInv, TypeOK
<1>12. OneOwner'
  <2>1. \A j \in Ids : ets'[j] # Nil =>
           instances'[ets'[j].pid] # Nil /\ instances'[ets'[j].pid].id = j
    <3> SUFFICES ASSUME NEW j \in Ids, ets'[j] # Nil
                 PROVE  instances'[ets'[j].pid] # Nil /\ instances'[ets'[j].pid].id = j
      OBVIOUS
    <3>1. ets'[j] = ets[j]
      BY <1>11
    <3>2. PICK q \in Pids : q = ets[j].pid
      BY <3>1 DEF IInv, TypeOK, Handles
    <3>3. instances[q] # Nil /\ instances[q].id = j
      BY <3>1, <3>2 DEF IInv, OneOwner
    <3> QED
      BY <3>1, <3>2, <3>3, <1>11
  <2>2. \A q \in Pids : instances'[q] # Nil =>
           ets'[instances'[q].id] # Nil /\ ets'[instances'[q].id].pid = q
    <3> SUFFICES ASSUME NEW q \in Pids, instances'[q] # Nil
                 PROVE  ets'[instances'[q].id] # Nil /\ ets'[instances'[q].id].pid = q
      OBVIOUS
    <3>1. instances'[q] = instances[q]
      BY <1>11
    <3>2. PICK j \in Ids : j = instances[q].id
      BY <3>1 DEF IInv, TypeOK
    <3>3. ets[j] # Nil /\ ets[j].pid = q
      BY <3>1, <3>2 DEF IInv, OneOwner
    <3>4. ets' = ets \/ q # p
      BY <1>11
    <3>5. instances[p] # Nil /\ instances[p].id = i => ets[i].pid = p
      BY DEF IInv, OneOwner
    <3> QED
      BY <3>1, <3>2, <3>3, <3>4, <3>5, <1>11
  <2>3. ASSUME NEW q \in Pids, instances'[q] # Nil, ~Live(q)'
        PROVE  In(inbox', DownOf(q)')
    <3>1. instances[q] # Nil /\ ~Live(q) /\ DownOf(q)' = DownOf(q)
      BY <2>3, <1>7, <1>11 DEF DownOf
    <3>2. In(inbox, DownOf(q)) /\ DownOf(q) # m
      BY <3>1, <1>2 DEF IInv, OneOwner, DeadTold, In, DownOf
    <3>3. inbox' = Tail(inbox) \/ DownOf(q) # DownOf(p)
      BY <2>3, <1>9 DEF DownOf
    <3> QED
      BY <3>1, <3>2, <3>3, <1>2, <1>9
  <2> QED
    BY <2>1, <2>2, <2>3 DEF OneOwner, DeadTold, In
<1>13. KnownById'
  BY <1>4, <1>5, <1>6, <1>11 DEF IInv, KnownById
<1>14. StaysRegistered'
  BY <1>4, <1>5, <1>6, <1>11 DEF IInv, StaysRegistered
<1>15. SwapAccepted'
  BY <1>4, <1>5, <1>6 DEF IInv, SwapAccepted
<1>16. MailboxFits'
  <2> SUFFICES ASSUME NEW n \in Messages, In(inbox', n)
               PROVE  Fits(n)'
    BY <1>9, FitsIfEach
  <2>1. n.pid \in Pids /\ Fits(n) /\ (n.type # "DOWN" => n.pid # p)
    BY <1>2, <1>3, <1>9, MessageFacts
  <2>2. CASE n.pid # p
    BY <2>1, <2>2, <1>5, <1>6, <1>11 DEF Fits
  <2>3. CASE n.pid = p
    BY <2>1, <2>3, <1>6 DEF Fits, Live, LiveStates, Failed
  <2> QED
    BY <2>2, <2>3
<1>17. OneRequest'
  BY <1>9 DEF OneRequest
<1> QED
  BY <1>10, <1>12, <1>13, <1>14, <1>15, <1>16, <1>17 DEF IInv

\* handle_info({:DOWN, ...}), for the current monitor of a process or another.
LEMMA DownStep ==
    ASSUME IInv, HandleDown
    PROVE  IInv'
<1>1. Receives("DOWN")
  BY DEF HandleDown
<1>2. PICK m \in Messages :
      /\ m = Head(inbox) /\ m.type = "DOWN" /\ Fits(m)
      /\ Tail(inbox) \in Seq(Messages) /\ OneRequestIn(Tail(inbox))
      /\ \A n \in Messages : In(Tail(inbox), n) => Fits(n)
      /\ \A n : In(inbox, n) /\ n # m => In(Tail(inbox), n)
  BY <1>1, ReceivedFacts
<1>3. PICK p \in Pids : p = m.pid
  BY <1>2, MessageFacts
<1>4. status[p] = "dead"
  BY <1>2, <1>3 DEF Fits
<1>5. inbox' = Tail(inbox) /\ UNCHANGED <<refs, status, id, left, restarts, lost>>
  BY DEF HandleDown
<1>6. \/ /\ instances[p] # Nil /\ instances[p].ref = m.ref
         /\ ets' = [ets EXCEPT ![instances[p].id] = Nil]
         /\ instances' = [instances EXCEPT ![p] = Nil]
      \/ ~(instances[p] # Nil /\ instances[p].ref = m.ref) /\ UNCHANGED <<ets, instances>>
  BY <1>2, <1>3 DEF HandleDown
<1>7. TypeOK'
  <2>1. ets' \in [Ids -> Handles \cup {Nil}]
    BY <1>6 DEF IInv, TypeOK
  <2>2. instances' \in [Pids -> [id : Ids, ref : 1..refs] \cup {Nil}]
    BY <1>6 DEF IInv, TypeOK
  <2> QED
    BY <2>1, <2>2, <1>2, <1>5 DEF IInv, TypeOK
<1>8. /\ \A q \in Pids : q # p => instances'[q] = instances[q]
      /\ \/ /\ ~(instances[p] # Nil /\ instances[p].ref = m.ref)
            /\ instances'[p] = instances[p] /\ ets' = ets
         \/ /\ instances'[p] = Nil /\ instances[p] # Nil
            /\ \E i \in Ids : /\ i = instances[p].id /\ ets'[i] = Nil
                             /\ \A j \in Ids : j # i => ets'[j] = ets[j]
  BY <1>6 DEF IInv, TypeOK
<1>9. OneOwner'
  <2>1. \A j \in Ids : ets'[j] # Nil =>
           instances'[ets'[j].pid] # Nil /\ instances'[ets'[j].pid].id = j
    <3> SUFFICES ASSUME NEW j \in Ids, ets'[j] # Nil
                 PROVE  instances'[ets'[j].pid] # Nil /\ instances'[ets'[j].pid].id = j
      OBVIOUS
    <3>1. ets'[j] = ets[j]
      BY <1>8
    <3>2. PICK q \in Pids : q = ets[j].pid
      BY <3>1 DEF IInv, TypeOK, Handles
    <3>3. instances[q] # Nil /\ instances[q].id = j
      BY <3>1, <3>2 DEF IInv, OneOwner
    <3> QED
      BY <3>1, <3>2, <3>3, <1>8
  <2>2. \A q \in Pids : instances'[q] # Nil =>
           ets'[instances'[q].id] # Nil /\ ets'[instances'[q].id].pid = q
    <3> SUFFICES ASSUME NEW q \in Pids, instances'[q] # Nil
                 PROVE  ets'[instances'[q].id] # Nil /\ ets'[instances'[q].id].pid = q
      OBVIOUS
    <3>1. instances'[q] = instances[q]
      BY <1>8
    <3>2. PICK j \in Ids : j = instances[q].id
      BY <3>1 DEF IInv, TypeOK
    <3>3. ets[j] # Nil /\ ets[j].pid = q
      BY <3>1, <3>2 DEF IInv, OneOwner
    <3>4. ets' = ets \/ q # p
      BY <1>8
    <3>5. \A i \in Ids : instances[p] # Nil /\ instances[p].id = i => ets[i].pid = p
      BY DEF IInv, OneOwner
    <3>6. ets'[j] = ets[j]
      BY <3>3, <3>4, <3>5, <1>8
    <3> QED
      BY <3>1, <3>2, <3>3, <3>6
  <2>3. ASSUME NEW q \in Pids, instances'[q] # Nil, ~Live(q)'
        PROVE  In(inbox', DownOf(q)')
    <3>1. instances'[q] = instances[q] /\ instances[q] # Nil /\ ~Live(q) /\ DownOf(q)' = DownOf(q)
      BY <2>3, <1>5, <1>8 DEF DownOf, Live
    <3>2. In(inbox, DownOf(q))
      BY <3>1 DEF IInv, OneOwner, DeadTold, In
    <3>3. DownOf(q) # m
      BY <3>1, <1>3, <1>8 DEF DownOf
    <3> QED
      BY <3>1, <3>2, <3>3, <1>2, <1>5
  <2> QED
    BY <2>1, <2>2, <2>3 DEF OneOwner, DeadTold, In
<1>10. KnownById'
  BY <1>5, <1>8 DEF IInv, KnownById
<1>11. StaysRegistered'
  BY <1>4, <1>5, <1>8 DEF IInv, StaysRegistered
<1>12. SwapAccepted'
  BY <1>5 DEF IInv, SwapAccepted
<1>13. MailboxFits'
  <2> SUFFICES ASSUME NEW n \in Messages, In(inbox', n)
               PROVE  Fits(n)'
    BY <1>2, <1>5, FitsIfEach
  <2>1. n.pid \in Pids /\ Fits(n)
    BY <1>2, <1>5, MessageFacts
  <2> QED
    BY <2>1, <1>5, <1>8 DEF Fits
<1>14. OneRequest'
  BY <1>2, <1>5 DEF OneRequest
<1> QED
  BY <1>7, <1>9, <1>10, <1>11, <1>12, <1>13, <1>14 DEF IInv

\* The registry crashes and starts again with nothing.
LEMMA RestartStep ==
    ASSUME IInv, Restart
    PROVE  IInv'
<1>1. Len(inbox') = 0 /\ inbox' \in Seq(Messages)
  BY DEF Restart
<1>2. /\ \A q \in Pids : instances'[q] = Nil
      /\ \A i \in Ids : ets'[i] = Nil
      /\ \A q \in Pids : status'[q] = IF status[q] \in Waiting THEN "call_failed" ELSE status[q]
      /\ lost' = lost \cup {q \in Pids : instances[q] # Nil}
      /\ id' = id /\ left' = left
  BY DEF Restart
<1>3. TypeOK'
  <2>1. status' \in [Pids -> {"new", "dead"} \cup LiveStates]
    BY DEF IInv, TypeOK, Restart, LiveStates, Failed
  <2> QED
    BY <2>1, <1>1, RegistryConstants DEF IInv, TypeOK, Restart
<1>4. OneOwner' /\ KnownById' /\ StaysRegistered'
  BY <1>2 DEF IInv, OneOwner, DeadTold, KnownById, StaysRegistered, Waiting
<1>5. SwapAccepted'
  BY <1>2 DEF IInv, SwapAccepted, Waiting
<1>6. MailboxFits' /\ OneRequest'
  BY <1>1 DEF MailboxFits, OneRequest, OneRequestIn
<1> QED
  BY <1>3, <1>4, <1>5, <1>6 DEF IInv

\* A step of an instance that sends at most one message: what has to be shown
\* is that the message and the new state of its sender fit.
LEMMA InstanceStep ==
    ASSUME IInv, NEW p \in Pids, NEW s \in {"dead"} \cup LiveStates, Moves(p, s),
           s # "swap_failed", status[p] # "dead",
           UNCHANGED <<ets, instances, refs, restarts, lost>>,
           id' \in [Pids -> Ids \cup {Nil}], id'[p] # Nil,
           \A q \in Pids : q # p => id'[q] = id[q],
           status[p] # "new" => id'[p] = id[p],
           left \subseteq left', left' \subseteq Pids,
           s \in {"running", "swapping", "terminating"} => status[p] = "running",
           inbox' \in Seq(Messages), OneRequest',
           \A n \in Messages : In(inbox', n) /\ (In(inbox, n) => n.pid = p) => Fits(n)',
           \A n : In(inbox, n) => In(inbox', n),
           s = "dead" /\ instances[p] # Nil => In(inbox', DownOf(p))
    PROVE  IInv'
<1>1. /\ status' \in [Pids -> {"new", "dead"} \cup LiveStates]
      /\ status'[p] = s
      /\ \A q \in Pids : q # p => status'[q] = status[q]
  BY DEF IInv, TypeOK, Moves
<1>2. TypeOK'
  BY <1>1 DEF IInv, TypeOK
<1>3. OneOwner'
  <2>1. ASSUME NEW q \in Pids, instances'[q] # Nil, ~Live(q)'
        PROVE  In(inbox', DownOf(q)')
    <3>1. instances[q] # Nil /\ DownOf(q)' = DownOf(q)
      BY <2>1 DEF DownOf
    <3>2. CASE q = p
      BY <3>1, <3>2, <2>1, <1>1 DEF Live
    <3>3. CASE q # p
      <4>1. ~Live(q)
        BY <3>3, <2>1, <1>1 DEF Live
      <4>2. In(inbox, DownOf(q))
        BY <4>1, <3>1 DEF IInv, OneOwner, DeadTold, In
      <4> QED
        BY <4>2, <3>1
    <3> QED
      BY <3>2, <3>3
  <2> QED
    BY <2>1 DEF IInv, OneOwner, DeadTold, In
<1>4. KnownById'
  <2>1. instances[p] # Nil => id[p] # Nil
    BY RegistryConstants DEF IInv, KnownById, TypeOK
  <2> QED
    BY <2>1, <1>1 DEF IInv, KnownById, LiveStates, Failed
<1>5. StaysRegistered'
  BY <1>1 DEF IInv, StaysRegistered
<1>6. SwapAccepted'
  <2> SUFFICES ASSUME NEW q \in Pids, status'[q] = "swap_failed"
               PROVE  q \in left' \/ (q \in lost' /\ \E r \in Pids \ {q} : id'[r] = id'[q])
    BY DEF SwapAccepted
  <2>1. q # p /\ status[q] = "swap_failed" /\ id'[q] = id[q] /\ id[q] # Nil
    BY <1>1 DEF IInv, KnownById
  <2>2. \A r \in Pids : id[r] = id[q] => id'[r] = id[q]
    BY <2>1 DEF IInv, KnownById
  <2> QED
    BY <2>1, <2>2 DEF IInv, SwapAccepted
<1>7. MailboxFits'
  <2> SUFFICES ASSUME NEW n \in Messages, In(inbox', n)
               PROVE  Fits(n)'
    BY FitsIfEach
  <2>1. CASE In(inbox, n) => n.pid = p
    BY <2>1
  <2>2. CASE In(inbox, n) /\ n.pid # p
    <3>1. Fits(n) /\ n.pid \in Pids
      BY <2>2, MessageFacts DEF IInv, MailboxFits, In
    <3> QED
      BY <3>1, <2>2, <1>1 DEF Fits
  <2> QED
    BY <2>1, <2>2
<1> QED
  BY <1>2, <1>3, <1>4, <1>5, <1>6, <1>7 DEF IInv

\* What is under way from a process that does not wait for an answer.
LEMMA IdleSendsNothing ==
    ASSUME IInv, NEW p \in Pids, status[p] \in {"new", "running"}
    PROVE  \A n \in Messages : In(inbox, n) => n.pid # p
  BY DEF IInv, MailboxFits, In, Fits, Messages

\* An instance that was idle sends a request.
LEMMA RequestStep ==
    ASSUME IInv, NEW p \in Pids, status[p] \in {"new", "running"},
           NEW m \in Messages, m.pid = p, m.type # "DOWN", Asks(m)
    PROVE  /\ inbox' \in Seq(Messages) /\ OneRequest'
           /\ \A n : In(inbox, n) => In(inbox', n)
           /\ \A n \in Messages : In(inbox', n) /\ (In(inbox, n) => n.pid = p) => n = m
<1>1. inbox \in Seq(Messages) /\ inbox' = Append(inbox, m) /\ OneRequestIn(inbox)
  BY DEF IInv, TypeOK, Asks, OneRequest
<1>2. \A n \in Messages : In(inbox, n) => n.pid # p
  BY IdleSendsNothing
<1>3. inbox' \in Seq(Messages) /\ \A n : In(inbox', n) <=> In(inbox, n) \/ n = m
  BY <1>1, AppendIn
<1>4. OneRequestIn(inbox')
  BY <1>1, <1>2, OneRequestAppend
<1> QED
  BY <1>2, <1>3, <1>4 DEF OneRequest

\* TSProj.init.
LEMMA StartStep ==
    ASSUME IInv, NEW p \in Pids, NEW i \in Ids, Start(p, i)
    PROVE  IInv'
<1>1. PICK m \in Messages :
         m = [type |-> "register", pid |-> p, id |-> i, ready |-> FALSE] /\ Asks(m)
  BY DEF Start, Messages
<1>2. /\ inbox' \in Seq(Messages) /\ OneRequest'
      /\ \A n : In(inbox, n) => In(inbox', n)
      /\ \A n \in Messages : In(inbox', n) /\ (In(inbox, n) => n.pid = p) => n = m
  BY <1>1, RequestStep DEF Start
<1>3. instances[p] = Nil
  BY RegistryConstants DEF IInv, KnownById, TypeOK, Start
<1>4. Fits(m)'
  BY <1>1, <1>3 DEF Start, Fits, Moves, Asks, IInv, TypeOK
<1>5. id' \in [Pids -> Ids \cup {Nil}] /\ id'[p] # Nil /\ \A q \in Pids : q # p => id'[q] = id[q]
  BY RegistryConstants DEF IInv, TypeOK, Start
<1>6. /\ UNCHANGED <<ets, instances, refs, restarts, lost>> /\ status[p] = "new"
      /\ left \subseteq left' /\ left' \subseteq Pids
      /\ "starting" \in LiveStates
  BY DEF Start, Asks, LiveStates, IInv, TypeOK
<1>7. \A n \in Messages : In(inbox', n) /\ (In(inbox, n) => n.pid = p) => Fits(n)'
  BY <1>2, <1>4
<1>8. Moves(p, "starting")
  BY DEF Start
<1> QED
  BY <1>2, <1>5, <1>6, <1>7, <1>8, InstanceStep

\* handle_streaming_start.
LEMMA SwapStep ==
    ASSUME IInv, NEW p \in Pids, Swap(p)
    PROVE  IInv'
<1>1. id \in [Pids -> Ids \cup {Nil}] /\ id[p] \in Ids
  BY DEF IInv, KnownById, TypeOK, Swap
<1>2. PICK m \in Messages :
         m = [type |-> "register", pid |-> p, id |-> id[p], ready |-> TRUE] /\ Asks(m)
  BY <1>1 DEF Swap, Messages
<1>3. /\ inbox' \in Seq(Messages) /\ OneRequest'
      /\ \A n : In(inbox, n) => In(inbox', n)
      /\ \A n \in Messages : In(inbox', n) /\ (In(inbox, n) => n.pid = p) => n = m
  BY <1>2, RequestStep DEF Swap
<1>4. Fits(m)'
  BY <1>2 DEF Swap, Fits, Moves, IInv, TypeOK
<1> QED
  BY <1>1, <1>2, <1>3, <1>4, RegistryConstants, InstanceStep
     DEF Swap, Asks, LiveStates, IInv, TypeOK

\* Registry.unregister.
LEMMA LeaveStep ==
    ASSUME IInv, NEW p \in Pids, Leave(p)
    PROVE  IInv'
<1>1. id \in [Pids -> Ids \cup {Nil}] /\ id[p] \in Ids
  BY DEF IInv, KnownById, TypeOK, Leave
<1>2. PICK m \in Messages :
         m = [type |-> "unregister", pid |-> p, id |-> id[p]] /\ Asks(m)
  BY <1>1 DEF Leave, Messages
<1>3. /\ inbox' \in Seq(Messages) /\ OneRequest'
      /\ \A n : In(inbox, n) => In(inbox', n)
      /\ \A n \in Messages : In(inbox', n) /\ (In(inbox, n) => n.pid = p) => n = m
  BY <1>2, RequestStep DEF Leave
<1>4. Fits(m)'
  BY <1>2 DEF Leave, Fits, Moves, IInv, TypeOK
<1> QED
  BY <1>1, <1>2, <1>3, <1>4, RegistryConstants, InstanceStep
     DEF Leave, Asks, LiveStates, IInv, TypeOK

\* terminate/2.
LEMMA TerminateStep ==
    ASSUME IInv, NEW p \in Pids, Terminate(p)
    PROVE  IInv'
<1>1. id \in [Pids -> Ids \cup {Nil}] /\ id[p] # Nil
  BY DEF IInv, KnownById, TypeOK, Terminate
<1>2. inbox' \in Seq(Messages) /\ OneRequest' /\ inbox' = inbox
  BY DEF IInv, TypeOK, Terminate, OneRequest
<1>3. \A n \in Messages : In(inbox, n) => n.pid # p
  BY IdleSendsNothing DEF Terminate
<1> QED
  BY <1>1, <1>2, <1>3, InstanceStep DEF Terminate, LiveStates, IInv, TypeOK

\* The end of an instance, whatever it was doing.
LEMMA ExitStep ==
    ASSUME IInv, NEW p \in Pids, Exit(p)
    PROVE  IInv'
<1>1. id \in [Pids -> Ids \cup {Nil}] /\ id[p] # Nil /\ status[p] \notin {"new", "dead"}
  BY DEF IInv, KnownById, TypeOK, Exit, Live, LiveStates, Failed
<1>2. inbox \in Seq(Messages) /\ OneRequestIn(inbox)
  BY DEF IInv, TypeOK, OneRequest
<1>3. /\ inbox' \in Seq(Messages) /\ OneRequest'
      /\ \A n : In(inbox, n) => In(inbox', n)
      /\ \A n : In(inbox', n) => In(inbox, n) \/ n = DownOf(p)
      /\ instances[p] # Nil => In(inbox', DownOf(p))
  <2>1. CASE instances[p] = Nil
    BY <2>1, <1>2 DEF Exit, OneRequest
  <2>2. CASE instances[p] # Nil
    <3>1. DownOf(p) \in Messages /\ DownOf(p).type = "DOWN"
      BY <2>2 DEF IInv, TypeOK, DownOf, Messages
    <3>2. inbox' = Append(inbox, DownOf(p))
      BY <2>2 DEF Exit
    <3>3. OneRequestIn(inbox')
      BY <3>1, <3>2, <1>2, OneRequestAppend
    <3>4. inbox' \in Seq(Messages) /\ \A n : In(inbox', n) <=> In(inbox, n) \/ n = DownOf(p)
      BY <3>1, <3>2, <1>2, AppendIn
    <3> QED
      BY <3>3, <3>4 DEF OneRequest
  <2> QED
    BY <2>1, <2>2
<1>4. ASSUME NEW n \in Messages, In(inbox', n), In(inbox, n) => n.pid = p
      PROVE  Fits(n)'
  <2>1. status'[p] = "dead" /\ UNCHANGED <<id, instances, left>>
    BY DEF Exit, Moves, IInv, TypeOK
  <2>2. CASE In(inbox, n)
    <3>1. Fits(n) /\ n.pid = p
      BY <2>2, <1>4 DEF IInv, MailboxFits, In
    <3> QED
      BY <3>1, <2>1 DEF Fits
  <2>3. CASE n = DownOf(p)
    BY <2>3, <2>1 DEF Fits, DownOf
  <2> QED
    BY <2>2, <2>3, <1>3, <1>4
<1> QED
  BY <1>1, <1>3, <1>4, InstanceStep DEF Exit, IInv, TypeOK

----------------------------------------------------------------------------
(* The theorems *)

\* One step of the registry or of an instance.
LEMMA NextIInv ==
    ASSUME IInv, [Next]_vars
    PROVE  IInv'
<1>1. CASE HandleRegister
  <2>1. \/ RegisterNew(Head(inbox).pid, Head(inbox).id, Head(inbox).ready)
        \/ RegisterAgain(Head(inbox).pid, Head(inbox).id, Head(inbox).ready)
        \/ RegisterRefused(Head(inbox).pid, Head(inbox).id)
    BY <1>1 DEF HandleRegister
  <2> QED
    BY <2>1, <1>1, RegisterNewStep, RegisterAgainStep, RegisterRefusedStep
<1>2. CASE HandleUnregister
  BY <1>2, UnregisterStep
<1>3. CASE HandleDown
  BY <1>3, DownStep
<1>4. CASE Restart
  BY <1>4, RestartStep
<1>5. ASSUME NEW p \in Pids,
             \/ \E i \in Ids : Start(p, i)
             \/ Swap(p) \/ Leave(p) \/ Terminate(p) \/ Exit(p)
      PROVE  IInv'
  BY <1>5, StartStep, SwapStep, LeaveStep, TerminateStep, ExitStep
<1>6. CASE UNCHANGED vars
  BY <1>6 DEF vars, IInv, TypeOK, OneOwner, DeadTold, DownOf, Live, SwapAccepted, KnownById,
             MailboxFits, Fits, OneRequest, OneRequestIn, StaysRegistered
<1> QED
  BY <1>1, <1>2, <1>3, <1>4, <1>5, <1>6 DEF Next, Handle

\* The inductive invariant holds in every reachable state.
THEOREM RegistryInductive == Spec => []IInv
  BY InitIInv, NextIInv, PTL DEF Spec

\* The registry's state keeps its types: references are those of monitors it
\* has created.
THEOREM RegistryTypeCorrect == Spec => []TypeOK
  BY RegistryInductive, PTL DEF IInv

\* The ETS table, the instances map and the monitors name each other, and a
\* registered process that has died has its DOWN message on the way.
THEOREM OneOwnerAlways == Spec => []OneOwner
  BY RegistryInductive, PTL DEF IInv

\* A swap fails only for an instance that has left, or whose entry was lost in
\* a crash of the registry and whose id another instance has taken.
THEOREM SwapAcceptedAlways == Spec => []SwapAccepted
  BY RegistryInductive, PTL DEF IInv

\* An entry of a live instance that has not left survives every step but a
\* crash of the registry, and does not become unready.
LEMMA EntryKept ==
    ASSUME IInv, [Next]_vars, NEW i \in Ids,
           ets[i] # Nil, Live(ets[i].pid), ets[i].pid \notin left, restarts' = restarts
    PROVE  /\ ets'[i] # Nil /\ ets'[i].pid = ets[i].pid
           /\ ets[i].ready => ets'[i].ready
<1>1. PICK p \in Pids : p = ets[i].pid
  BY DEF IInv, TypeOK, Handles
<1>2. instances[p] # Nil /\ instances[p].id = i /\ Live(p) /\ p \notin left
  BY <1>1 DEF IInv, OneOwner
<1>3. CASE ets' = ets
  BY <1>3
<1>4. CASE HandleRegister
  <2>1. PICK m \in Messages : m = Head(inbox) /\ m.type = "register" /\ Fits(m)
    BY <1>4, ReceivedFacts DEF HandleRegister
  <2>2. PICK q \in Pids, j \in Ids : q = m.pid /\ j = m.id /\ m.ready \in BOOLEAN
    BY <2>1, MessageFacts
  <2>3. CASE RegisterNew(q, j, m.ready)
    <3>1. j # i /\ ets' = [ets EXCEPT ![j] = [pid |-> q, ready |-> m.ready]]
      BY <2>3 DEF RegisterNew
    <3> QED
      BY <3>1 DEF IInv, TypeOK
  <2>4. CASE RegisterAgain(q, j, m.ready)
    <3>1. /\ instances[q] # Nil /\ instances[q].id = j
          /\ ets' = [ets EXCEPT ![j] = [pid |-> q, ready |-> m.ready]]
      BY <2>4 DEF RegisterAgain
    <3>2. m.ready
      BY <2>1, <2>2, <3>1 DEF Fits
    <3>3. ets[j].pid = q
      BY <3>1 DEF IInv, OneOwner
    <3>4. PICK h \in Handles : h = [pid |-> q, ready |-> m.ready]
      BY <2>2 DEF Handles
    <3>5. h # Nil /\ h.pid = q /\ h.ready
      BY <3>2, <3>4, RegistryConstants DEF Handles
    <3>6. ets'[i] = IF i = j THEN h ELSE ets[i]
      BY <3>1, <3>4 DEF IInv, TypeOK
    <3> QED
      BY <3>3, <3>5, <3>6
  <2>5. CASE RegisterRefused(q, j)
    BY <2>5 DEF RegisterRefused
  <2> QED
    BY <2>1, <2>2, <2>3, <2>4, <2>5, <1>4 DEF HandleRegister
<1>5. CASE HandleUnregister
  <2>1. PICK m \in Messages : m = Head(inbox) /\ m.type = "unregister" /\ Fits(m)
    BY <1>5, ReceivedFacts DEF HandleUnregister
  <2>2. m.pid \in Pids /\ m.pid \in left
    BY <2>1, MessageFacts DEF Fits
  <2>3. \/ ets' = ets
        \/ /\ instances[m.pid] # Nil /\ instances[m.pid].id = m.id
           /\ ets' = [ets EXCEPT ![m.id] = Nil]
    BY <1>5, <2>1 DEF HandleUnregister
  <2>4. instances[m.pid] # Nil /\ instances[m.pid].id = m.id => m.id # i
    BY <2>2, <1>1, <1>2 DEF IInv, OneOwner
  <2> QED
    BY <2>3, <2>4 DEF IInv, TypeOK
<1>6. CASE HandleDown
  <2>1. PICK m \in Messages : m = Head(inbox) /\ m.type = "DOWN" /\ Fits(m)
    BY <1>6, ReceivedFacts DEF HandleDown
  <2>2. PICK q \in Pids : q = m.pid /\ status[q] = "dead"
    BY <2>1, MessageFacts DEF Fits
  <2>3. \/ ets' = ets
        \/ instances[q] # Nil /\ ets' = [ets EXCEPT ![instances[q].id] = Nil]
    BY <1>6, <2>1, <2>2 DEF HandleDown
  <2>4. q # p
    BY <1>2, <2>2 DEF Live, LiveStates, Failed
  <2>5. instances[q] # Nil => instances[q].id # i
    BY <2>4, <1>1 DEF IInv, OneOwner
  <2> QED
    BY <2>3, <2>5 DEF IInv, TypeOK
<1>7. CASE Restart
  BY <1>7 DEF Restart, IInv, TypeOK
<1> QED
  BY <1>3, <1>4, <1>5, <1>6, <1>7
     DEF Next, Handle, vars, Start, Swap, Leave, Terminate, Exit, Asks

\* An instance that runs and has not left is found under its id, ready once it
\* was: the state and the action part of KeepsHandle.
THEOREM KeepsHandleAlways == Spec => KeepsHandle
<1>1. IInv => \A p \in Pids : status[p] \in {"running", "swapping", "terminating"} =>
                 p \in left \cup lost \/ (ets[id[p]] # Nil /\ ets[id[p]].pid = p)
  BY DEF IInv, StaysRegistered, KnownById, OneOwner
<1>2. IInv /\ [Next]_vars =>
        [\A i \in Ids :
             ets[i] # Nil /\ Live(ets[i].pid) /\ ets[i].pid \notin left /\ restarts' = restarts =>
                /\ ets'[i] # Nil /\ ets'[i].pid = ets[i].pid
                /\ ets[i].ready => ets'[i].ready]_vars
  BY EntryKept
<1> QED
  BY <1>1, <1>2, RegistryInductive, PTL DEF Spec, KeepsHandle
=============================================================================
