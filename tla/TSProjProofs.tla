---------------------------- MODULE TSProjProofs ----------------------------
(***************************************************************************)
(* Proofs about TSProj, for any set of storages, any commands and batches  *)
(* of any length.                                                          *)
(***************************************************************************)
EXTENDS TSProj, TLAPS

\* The storage being loaded is neither the served nor the registered one.
LoadsApart == new_ts_storage \notin {ts_storage, handle.storage}

\* While handle_streaming_start swaps the storages nothing is being loaded.
SwapsReady == pc \in {"init", "register"} => ready /\ new_ts_storage = Nil

\* BufferOnlyInTransaction, also where the swap of handle_streaming_start is.
HeldBack == pc \in {"idle", "init", "register"} => (tx_buffer # <<>> => in_transaction)

\* What flush_tx_buffer is about to announce has been executed.
ExecutedFirst == pc = "notify" /\ new_ts_storage = Nil
                    => Effects(flushed) \subseteq Effects(storages[ts_storage])

\* After Init, watchers know the storage that is about to be registered.
InitTold == pc = "register" => known = Effects(storages[ts_storage])

\* NoSilentChange in the middle of a callback: at most what flush_tx_buffer
\* has executed last is still to be announced.
Announced == pc \notin {"init", "register"} /\ ready
                => Effects(Visible) \subseteq known \cup Effects(flushed)

ProjInv == /\ ProjTypeOK
           /\ ServesCurrent
           /\ LoadsApart
           /\ SwapsReady
           /\ BufferOnlyInTransaction
           /\ HeldBack
           /\ ExecutedFirst
           /\ InitTold
           /\ NotifiedIsVisible
           /\ Announced

----------------------------------------------------------------------------
\* An empty history has no effects.
LEMMA EffectsEmpty == Effects(<<>>) = {}
  BY DEF Effects

\* The effects of a history are commands.
LEMMA EffectsType ==
    ASSUME NEW s \in Seq(Commands)
    PROVE  Effects(s) \subseteq Commands
  BY DEF Effects

\* A TS.tx at the end of a history adds the effects of its commands.
LEMMA EffectsConcat ==
    ASSUME NEW s \in Seq(Commands), NEW t \in Seq(Commands)
    PROVE  Effects(s \o t) = Effects(s) \cup Effects(t)
<1>1. /\ Len(s) \in Nat /\ Len(t) \in Nat
      /\ s \o t \in Seq(Commands)
      /\ Len(s \o t) = Len(s) + Len(t)
      /\ \A i \in 1..Len(s) : (s \o t)[i] = s[i]
      /\ \A i \in 1..Len(t) : (s \o t)[Len(s) + i] = t[i]
  OBVIOUS
<1>2. ASSUME NEW c \in Effects(s \o t)
      PROVE  c \in Effects(s) \cup Effects(t)
  <2>1. PICK i \in 1..Len(s \o t) : c = (s \o t)[i] /\ Supported((s \o t)[i])
    BY DEF Effects
  <2>2. CASE i <= Len(s)
    BY <1>1, <2>1, <2>2 DEF Effects
  <2>3. CASE ~(i <= Len(s))
    <3>1. i - Len(s) \in 1..Len(t) /\ i = Len(s) + (i - Len(s))
      BY <1>1, <2>1, <2>3
    <3>2. c = t[i - Len(s)] /\ Supported(t[i - Len(s)])
      BY <1>1, <2>1, <3>1
    <3> QED
      BY <3>1, <3>2 DEF Effects
  <2> QED
    BY <2>2, <2>3
<1>3. ASSUME NEW c \in Effects(s)
      PROVE  c \in Effects(s \o t)
  <2>1. PICK i \in 1..Len(s) : c = s[i] /\ Supported(s[i])
    BY DEF Effects
  <2>2. i \in 1..Len(s \o t) /\ (s \o t)[i] = s[i]
    BY <1>1, <2>1
  <2> QED
    BY <2>1, <2>2 DEF Effects
<1>4. ASSUME NEW c \in Effects(t)
      PROVE  c \in Effects(s \o t)
  <2>1. PICK i \in 1..Len(t) : c = t[i] /\ Supported(t[i])
    BY DEF Effects
  <2>2. Len(s) + i \in 1..Len(s \o t) /\ (s \o t)[Len(s) + i] = t[i]
    BY <1>1, <2>1
  <2> QED
    BY <2>1, <2>2 DEF Effects
<1> QED
  BY <1>2, <1>3, <1>4

----------------------------------------------------------------------------
\* The initial state of the projection.
LEMMA InitInv == ProjInit => ProjInv
<1> SUFFICES ASSUME ProjInit
             PROVE  ProjInv
  OBVIOUS
<1>1. ProjTypeOK
  <2>1. <<>> \in Seq(Commands)
    OBVIOUS
  <2>2. storages \in [Storages -> Seq(Commands)]
    BY <2>1 DEF ProjInit
  <2>3. handle \in [storage : Storages, ready : BOOLEAN]
    BY DEF ProjInit
  <2> QED
    BY <2>1, <2>2, <2>3 DEF ProjInit, ProjTypeOK
<1>2. ServesCurrent /\ LoadsApart /\ SwapsReady
  BY ProjConstants DEF ProjInit, ServesCurrent, LoadsApart, SwapsReady
<1>3. BufferOnlyInTransaction /\ HeldBack /\ ExecutedFirst /\ InitTold
  BY DEF ProjInit, BufferOnlyInTransaction, HeldBack, ExecutedFirst, InitTold
<1>4. NotifiedIsVisible /\ Announced
  BY DEF ProjInit, NotifiedIsVisible, Announced
<1> QED
  BY <1>1, <1>2, <1>3, <1>4 DEF ProjInv

\* What one execution of flush_tx_buffer does: the commands go to the target
\* alone, they are now to be announced, and a storage being loaded is not the
\* one that readers have.
LEMMA FlushFacts ==
    ASSUME ProjInv, pc = "commands", NEW cmds \in Seq(Commands), Flush(cmds),
           UNCHANGED <<ts_storage, new_ts_storage, ready, handle, known>>
    PROVE  /\ storages' \in [Storages -> Seq(Commands)]
           /\ flushed' \in Seq(Commands)
           /\ pc' \in {"commands", "notify"}
           /\ pc' = "commands" => flushed' = <<>>
           /\ new_ts_storage # Nil => Visible' = Visible
           /\ new_ts_storage = Nil =>
                 /\ handle.storage = ts_storage
                 /\ Effects(Visible') = Effects(Visible) \cup Effects(flushed')
<1> USE DEF ProjInv
<1>1. /\ Target \in Storages
      /\ storages \in [Storages -> Seq(Commands)]
      /\ handle.storage = ts_storage /\ ts_storage \in Storages
      /\ handle.storage \in Storages
  BY DEF Target, ProjTypeOK, ServesCurrent
<1>2. storages' = [storages EXCEPT ![Target] = @ \o cmds] /\ flushed' = cmds
  BY DEF Flush
<1>3. storages[Target] \o cmds \in Seq(Commands)
  BY <1>1
<1>4. storages' \in [Storages -> Seq(Commands)]
  BY <1>1, <1>2, <1>3
<1>5. ASSUME new_ts_storage # Nil
      PROVE  Visible' = Visible
  BY <1>1, <1>2, <1>5 DEF Visible, Target, LoadsApart
<1>6. ASSUME new_ts_storage = Nil
      PROVE  Effects(Visible') = Effects(Visible) \cup Effects(flushed')
  <2>1. Visible' = Visible \o cmds /\ Visible \in Seq(Commands)
    BY <1>1, <1>2, <1>6 DEF Visible, Target
  <2> QED
    BY <1>2, <2>1, EffectsConcat
<1>7. pc' \in {"commands", "notify"} /\ (pc' = "commands" => flushed' = <<>>)
  BY <1>2 DEF Flush
<1> QED
  BY <1>1, <1>2, <1>4, <1>5, <1>6, <1>7

\* Keeping a storage keeps its history.
LEMMA KeepingFacts ==
    ASSUME ProjTypeOK, NEW held
    PROVE  /\ Keeping(held) \in [Storages -> Seq(Commands)]
           /\ \A x \in Storages \cap held : Keeping(held)[x] = storages[x]
<1>1. <<>> \in Seq(Commands)
  OBVIOUS
<1>2. \A x \in Storages : (IF x \in held THEN storages[x] ELSE <<>>) \in Seq(Commands)
  BY <1>1 DEF ProjTypeOK
<1> QED
  BY <1>2 DEF Keeping

\* handle_replication_start, handle_streaming_start and its two effects.
LEMMA SwapSteps ==
    ASSUME ProjInv,
           \/ HandleReplicationStart
           \/ \E cmds \in Seq(Commands) : HandleStreamingStart(cmds)
           \/ SendInit \/ Register
    PROVE  ProjInv'
<1> USE DEF ProjInv
<1>1. CASE HandleReplicationStart
  <2>1. /\ pc = "idle" /\ new_ts_storage' \in Storages \ {ts_storage, handle.storage}
        /\ storages' = Keeping({ts_storage, handle.storage})
        /\ tx_buffer' = <<>> /\ in_transaction' = FALSE
        /\ UNCHANGED <<ts_storage, ready, handle, pc, batch, flushed, known>>
    BY <1>1 DEF HandleReplicationStart
  <2>2. /\ storages' \in [Storages -> Seq(Commands)]
        /\ Visible' = Visible
    BY <2>1, KeepingFacts DEF Visible, ProjTypeOK
  <2>3. ProjTypeOK'
    <3>0. <<>> \in Seq(Commands)
      OBVIOUS
    <3>1. tx_buffer' \in Seq(Commands) /\ in_transaction' \in BOOLEAN
      BY <2>1, <3>0
    <3>2. new_ts_storage' \in Storages \cup {Nil}
      BY <2>1
    <3> QED
      BY <2>1, <2>2, <3>1, <3>2 DEF ProjTypeOK
  <2>4. ServesCurrent' /\ LoadsApart' /\ SwapsReady'
    BY <2>1 DEF ServesCurrent, LoadsApart, SwapsReady
  <2>5. BufferOnlyInTransaction' /\ HeldBack'
    BY <2>1 DEF BufferOnlyInTransaction, HeldBack
  <2>6. ExecutedFirst' /\ InitTold'
    BY <2>1 DEF ExecutedFirst, InitTold
  <2>7. NotifiedIsVisible'
    BY <2>1, ProjConstants DEF NotifiedIsVisible
  <2>8. Announced'
    BY <2>1, <2>2 DEF Announced
  <2> QED
    BY <2>3, <2>4, <2>5, <2>6, <2>7, <2>8
<1>2. ASSUME NEW cmds \in Seq(Commands), HandleStreamingStart(cmds)
      PROVE  ProjInv'
  <2>1. /\ pc = "idle" /\ new_ts_storage # Nil
        /\ ts_storage' = new_ts_storage /\ new_ts_storage' = Nil
        /\ ready' = TRUE /\ batch' = cmds /\ pc' = "init"
        /\ UNCHANGED <<tx_buffer, in_transaction, storages, handle, flushed, known>>
    BY <1>2 DEF HandleStreamingStart
  <2>2. ProjTypeOK'
    BY <2>1, ProjConstants DEF ProjTypeOK
  <2>3. ServesCurrent' /\ SwapsReady'
    BY <2>1 DEF ServesCurrent, SwapsReady
  <2>4. LoadsApart'
    BY <2>1, ProjConstants DEF LoadsApart, ProjTypeOK
  <2>5. BufferOnlyInTransaction' /\ HeldBack'
    BY <2>1 DEF BufferOnlyInTransaction, HeldBack
  <2>6. ExecutedFirst' /\ InitTold' /\ NotifiedIsVisible' /\ Announced'
    BY <2>1 DEF ExecutedFirst, InitTold, NotifiedIsVisible, Announced
  <2> QED
    BY <2>2, <2>3, <2>4, <2>5, <2>6
<1>3. CASE SendInit
  <2>1. /\ pc = "init" /\ pc' = "register"
        /\ known' = Effects(storages[ts_storage])
        /\ UNCHANGED <<ts_storage, new_ts_storage, ready, tx_buffer, in_transaction, storages,
                       handle, batch, flushed>>
    BY <1>3 DEF SendInit
  <2>2. ProjTypeOK'
    <3>1. known' \subseteq Commands
      BY <2>1, EffectsType DEF ProjTypeOK
    <3> QED
      BY <2>1, <3>1 DEF ProjTypeOK
  <2>3. ServesCurrent' /\ SwapsReady' /\ LoadsApart'
    BY <2>1 DEF ServesCurrent, SwapsReady, LoadsApart
  <2>4. BufferOnlyInTransaction' /\ HeldBack'
    BY <2>1 DEF BufferOnlyInTransaction, HeldBack
  <2>5. ExecutedFirst' /\ InitTold' /\ NotifiedIsVisible' /\ Announced'
    BY <2>1 DEF ExecutedFirst, InitTold, NotifiedIsVisible, Announced
  <2> QED
    BY <2>2, <2>3, <2>4, <2>5
<1>4. CASE Register
  <2>1. /\ pc = "register" /\ pc' = IF batch = <<>> THEN "idle" ELSE "commands"
        /\ handle' = [storage |-> ts_storage, ready |-> TRUE]
        /\ storages' = Keeping({ts_storage})
        /\ UNCHANGED <<ts_storage, new_ts_storage, ready, tx_buffer, in_transaction,
                       batch, flushed, known>>
    BY <1>4 DEF Register
  <2>2. ready = TRUE /\ new_ts_storage = Nil /\ known = Effects(storages[ts_storage])
    BY <2>1 DEF SwapsReady, InitTold, ProjTypeOK
  <2>3. /\ storages' \in [Storages -> Seq(Commands)]
        /\ Visible' = storages[ts_storage]
    BY <2>1, KeepingFacts DEF Visible, ProjTypeOK
  <2>4. ProjTypeOK'
    BY <2>1, <2>3 DEF ProjTypeOK
  <2>5. ServesCurrent' /\ SwapsReady'
    BY <2>1, <2>2 DEF ServesCurrent, SwapsReady
  <2>6. LoadsApart'
    BY <2>1, <2>2, ProjConstants DEF LoadsApart, ProjTypeOK
  <2>7. BufferOnlyInTransaction' /\ HeldBack'
    BY <2>1 DEF BufferOnlyInTransaction, HeldBack
  <2>8. ExecutedFirst' /\ InitTold'
    BY <2>1 DEF ExecutedFirst, InitTold
  <2>9. NotifiedIsVisible' /\ Announced'
    BY <2>1, <2>2, <2>3 DEF NotifiedIsVisible, Announced
  <2> QED
    BY <2>4, <2>5, <2>6, <2>7, <2>8, <2>9
<1> QED
  BY <1>1, <1>2, <1>3, <1>4

\* A step of handle_commands that executes a list of commands.
LEMMA FlushStep ==
    ASSUME ProjInv, pc = "commands", NEW cmds \in Seq(Commands), Flush(cmds),
           UNCHANGED <<ts_storage, new_ts_storage, ready, handle, known>>,
           batch' \in Seq(Commands), tx_buffer' \in Seq(Commands), in_transaction' \in BOOLEAN
    PROVE  ProjInv'
<1> USE DEF ProjInv
<1>f. /\ storages' \in [Storages -> Seq(Commands)]
      /\ flushed' \in Seq(Commands)
      /\ pc' \in {"commands", "notify"}
      /\ pc' = "commands" => flushed' = <<>>
      /\ new_ts_storage # Nil => Visible' = Visible
      /\ new_ts_storage = Nil =>
            /\ handle.storage = ts_storage
            /\ Effects(Visible') = Effects(Visible) \cup Effects(flushed')
  BY FlushFacts
<1>1. ProjTypeOK'
  BY <1>f DEF ProjTypeOK
<1>2. ServesCurrent' /\ LoadsApart' /\ SwapsReady'
  BY <1>f DEF ServesCurrent, LoadsApart, SwapsReady
<1>3. BufferOnlyInTransaction' /\ HeldBack' /\ InitTold'
  BY <1>f DEF BufferOnlyInTransaction, HeldBack, InitTold
<1>4. ExecutedFirst'
  <2>1. new_ts_storage = Nil => Visible' = storages'[ts_storage']
    BY <1>f DEF Visible
  <2> QED
    BY <1>f, <2>1 DEF ExecutedFirst
<1>5. NotifiedIsVisible'
  BY <1>f DEF NotifiedIsVisible
<1>6. Announced'
  <2>1. flushed = <<>>
    BY DEF BufferOnlyInTransaction
  <2>2. ready => Effects(Visible) \subseteq known
    BY <2>1, EffectsEmpty DEF Announced
  <2> QED
    BY <1>f, <2>2 DEF Announced
<1> QED
  BY <1>1, <1>2, <1>3, <1>4, <1>5, <1>6

\* The steps of handle_commands.
LEMMA CommandSteps ==
    ASSUME ProjInv,
           \/ \E cmds \in Seq(Commands) : HandleCommands(cmds)
           \/ ProcessNext \/ EndOfBatch \/ NotifyWatchers
    PROVE  ProjInv'
<1> USE DEF ProjInv
<1>1. ASSUME NEW cmds \in Seq(Commands), HandleCommands(cmds)
      PROVE  ProjInv'
  <2>1. /\ pc = "idle" /\ pc' = "commands" /\ batch' = cmds
        /\ UNCHANGED <<ts_storage, new_ts_storage, ready, tx_buffer, in_transaction, storages,
                       handle, flushed, known, Visible>>
    BY <1>1 DEF HandleCommands, Visible
  <2>2. ProjTypeOK'
    BY <2>1, ProjConstants DEF ProjTypeOK
  <2>3. ServesCurrent' /\ SwapsReady' /\ LoadsApart'
    BY <2>1 DEF ServesCurrent, SwapsReady, LoadsApart
  <2>4. BufferOnlyInTransaction' /\ HeldBack' /\ ExecutedFirst' /\ InitTold'
    BY <2>1 DEF BufferOnlyInTransaction, HeldBack, ExecutedFirst, InitTold
  <2>5. NotifiedIsVisible' /\ Announced'
    BY <2>1 DEF NotifiedIsVisible, Announced
  <2> QED
    BY <2>2, <2>3, <2>4, <2>5
<1>2. CASE ProcessNext
  <2> DEFINE c == Head(batch)
  <2>1. /\ pc = "commands" /\ batch # <<>> /\ batch' = Tail(batch)
        /\ ProcessSingleCommand(c)
        /\ UNCHANGED <<ts_storage, new_ts_storage, ready, handle, known>>
    BY <1>2 DEF ProcessNext
  <2>2. /\ c \in Commands /\ batch' \in Seq(Commands)
        /\ tx_buffer \in Seq(Commands) /\ Append(tx_buffer, c) \in Seq(Commands)
        /\ <<c>> \in Seq(Commands) /\ <<>> \in Seq(Commands)
    BY <2>1 DEF ProjTypeOK
  <2>3. CASE Flush(tx_buffer) /\ in_transaction' = TRUE /\ tx_buffer' = <<c>>
    <3>1. tx_buffer' \in Seq(Commands) /\ in_transaction' \in BOOLEAN
      BY <2>2, <2>3
    <3> QED
      BY <2>1, <2>2, <2>3, <3>1, FlushStep
  <2>4. CASE Flush(Append(tx_buffer, c)) /\ in_transaction' = FALSE /\ tx_buffer' = <<>>
    <3>1. tx_buffer' \in Seq(Commands) /\ in_transaction' \in BOOLEAN
      BY <2>2, <2>4
    <3> QED
      BY <2>1, <2>2, <2>4, <3>1, FlushStep
  <2>5. CASE /\ tx_buffer' = Append(tx_buffer, c)
             /\ UNCHANGED <<in_transaction, storages, flushed, pc>>
    <3>1. Visible' = Visible
      BY <2>1, <2>5 DEF Visible
    <3>2. ProjTypeOK'
      BY <2>1, <2>2, <2>5 DEF ProjTypeOK
    <3>3. ServesCurrent' /\ SwapsReady' /\ LoadsApart'
      BY <2>1, <2>5 DEF ServesCurrent, SwapsReady, LoadsApart
    <3>4. BufferOnlyInTransaction' /\ HeldBack' /\ ExecutedFirst' /\ InitTold'
      BY <2>1, <2>5 DEF BufferOnlyInTransaction, HeldBack, ExecutedFirst, InitTold
    <3>5. NotifiedIsVisible' /\ Announced'
      BY <2>1, <2>5, <3>1 DEF NotifiedIsVisible, Announced
    <3> QED
      BY <3>2, <3>3, <3>4, <3>5
  <2> QED
    BY <2>1, <2>3, <2>4, <2>5 DEF ProcessSingleCommand
<1>3. CASE EndOfBatch
  <2>1. /\ pc = "commands" /\ batch = <<>>
        /\ UNCHANGED <<ts_storage, new_ts_storage, ready, in_transaction, handle, batch, known>>
    BY <1>3 DEF EndOfBatch
  <2>2. CASE Flush(tx_buffer) /\ tx_buffer' = <<>>
    <3>1. /\ batch' \in Seq(Commands) /\ in_transaction' \in BOOLEAN
          /\ tx_buffer \in Seq(Commands) /\ tx_buffer' \in Seq(Commands)
      BY <2>1, <2>2 DEF ProjTypeOK
    <3> QED
      BY <2>1, <2>2, <3>1, FlushStep
  <2>3. CASE /\ in_transaction \/ tx_buffer = <<>>
             /\ pc' = "idle"
             /\ UNCHANGED <<tx_buffer, storages, flushed>>
    <3>1. Visible' = Visible
      BY <2>1, <2>3 DEF Visible
    <3>2. ProjTypeOK'
      BY <2>1, <2>3 DEF ProjTypeOK
    <3>3. ServesCurrent' /\ SwapsReady' /\ LoadsApart'
      BY <2>1, <2>3 DEF ServesCurrent, SwapsReady, LoadsApart
    <3>4. BufferOnlyInTransaction' /\ HeldBack' /\ ExecutedFirst' /\ InitTold'
      BY <2>1, <2>3 DEF BufferOnlyInTransaction, HeldBack, ExecutedFirst, InitTold
    <3>5. NotifiedIsVisible' /\ Announced'
      BY <2>1, <2>3, <3>1 DEF NotifiedIsVisible, Announced
    <3> QED
      BY <3>2, <3>3, <3>4, <3>5
  <2> QED
    BY <1>3, <2>2, <2>3 DEF EndOfBatch
<1>4. CASE NotifyWatchers
  <2>1. /\ pc = "notify" /\ pc' = "commands" /\ flushed' = <<>>
        /\ known' = IF ready THEN known \cup Effects(flushed) ELSE known
        /\ UNCHANGED <<ts_storage, new_ts_storage, ready, tx_buffer, in_transaction, storages,
                       handle, batch, Visible>>
    BY <1>4 DEF NotifyWatchers, Visible
  <2>2. ProjTypeOK'
    <3>1. known' \subseteq Commands
      BY <2>1, EffectsType DEF ProjTypeOK
    <3>2. flushed' \in Seq(Commands)
      BY <2>1
    <3> QED
      BY <2>1, <3>1, <3>2 DEF ProjTypeOK
  <2>3. ServesCurrent' /\ SwapsReady' /\ LoadsApart'
    BY <2>1 DEF ServesCurrent, SwapsReady, LoadsApart
  <2>4. BufferOnlyInTransaction' /\ HeldBack' /\ ExecutedFirst' /\ InitTold'
    BY <2>1 DEF BufferOnlyInTransaction, HeldBack, ExecutedFirst, InitTold
  <2>5. NotifiedIsVisible'
    <3>1. new_ts_storage = Nil => Effects(flushed) \subseteq Effects(Visible)
      BY <2>1 DEF ExecutedFirst, ServesCurrent, Visible
    <3> QED
      BY <2>1, <3>1 DEF NotifiedIsVisible
  <2>6. Announced'
    BY <2>1 DEF Announced
  <2> QED
    BY <2>2, <2>3, <2>4, <2>5, <2>6
<1> QED
  BY <1>1, <1>2, <1>3, <1>4

----------------------------------------------------------------------------
\* The inductive invariant of the projection holds in every reachable state.
THEOREM ProjInductive == ProjSpec => []ProjInv
<1>1. ProjInit => ProjInv
  BY InitInv
<1>2. ProjInv /\ [ProjNext]_projVars => ProjInv'
  <2> SUFFICES ASSUME ProjInv, [ProjNext]_projVars
               PROVE  ProjInv'
    OBVIOUS
  <2>1. CASE ProjNext
    BY <2>1, SwapSteps, CommandSteps, ProjConstants DEF ProjNext, CallbackStep
  <2>2. CASE UNCHANGED projVars
    BY <2>2 DEF projVars, ProjInv, ProjTypeOK, ServesCurrent, LoadsApart, SwapsReady,
                BufferOnlyInTransaction, HeldBack, ExecutedFirst, InitTold,
                NotifiedIsVisible, Announced, Visible
  <2> QED
    BY <2>1, <2>2
<1> QED
  BY <1>1, <1>2, PTL DEF ProjSpec

\* The state of the projection keeps its types: a storage is always served.
THEOREM ProjTypeCorrect == ProjSpec => []ProjTypeOK
  BY ProjInductive, PTL DEF ProjInv

\* handle_streaming_start leaves the registry with the storage that
\* flush_tx_buffer writes to from then on.
THEOREM ServesCurrentAlways == ProjSpec => []ServesCurrent
  BY ProjInductive, PTL DEF ProjInv

\* Only an open transaction holds commands back between callbacks.
THEOREM BufferOnlyInTransactionAlways == ProjSpec => []BufferOnlyInTransaction
  BY ProjInductive, PTL DEF ProjInv

\* A watcher that reads after an Update finds what it was told of.
THEOREM NotifiedIsVisibleAlways == ProjSpec => []NotifiedIsVisible
  BY ProjInductive, PTL DEF ProjInv

\* Between callbacks watchers have been told of everything readers see.
THEOREM NoSilentChangeAlways == ProjSpec => []NoSilentChange
<1>1. ProjInv => NoSilentChange
  BY EffectsEmpty
     DEF ProjInv, Announced, ServesCurrent, BufferOnlyInTransaction, NoSilentChange
<1> QED
  BY <1>1, ProjInductive, PTL

\* While a snapshot is loaded, nothing changes for readers.
THEOREM FrozenWhileLoadingAlways == ProjSpec => FrozenWhileLoading
<1>1. ProjInv /\ [ProjNext]_projVars
        => [new_ts_storage # Nil => UNCHANGED <<handle, storages[handle.storage]>>]_projVars
  <2> SUFFICES ASSUME ProjInv, ProjNext, new_ts_storage # Nil
               PROVE  UNCHANGED <<handle, storages[handle.storage]>>
    BY DEF ProjInv
  <2>v. ASSUME UNCHANGED <<handle, storages>>
        PROVE  UNCHANGED <<handle, storages[handle.storage]>>
    BY <2>v
  <2>f. ASSUME NEW cmds \in Seq(Commands), pc = "commands", Flush(cmds),
               UNCHANGED <<ts_storage, new_ts_storage, ready, handle, known>>
        PROVE  UNCHANGED <<handle, storages[handle.storage]>>
    BY <2>f, FlushFacts DEF Visible
  <2>1. CASE HandleReplicationStart
    BY <2>1, KeepingFacts DEF HandleReplicationStart, ProjInv, ProjTypeOK
  <2>2. CASE SendInit \/ Register
    BY <2>2 DEF SendInit, Register, ProjInv, SwapsReady
  <2>3. CASE ProcessNext
    <3>1. /\ tx_buffer \in Seq(Commands)
          /\ Append(tx_buffer, Head(batch)) \in Seq(Commands)
      BY <2>3 DEF ProcessNext, ProjInv, ProjTypeOK
    <3>2. /\ pc = "commands" /\ ProcessSingleCommand(Head(batch))
          /\ UNCHANGED <<ts_storage, new_ts_storage, ready, handle, known>>
      BY <2>3 DEF ProcessNext
    <3> QED
      BY <2>v, <2>f, <3>1, <3>2 DEF ProcessSingleCommand
  <2>4. CASE EndOfBatch
    <3>1. tx_buffer \in Seq(Commands)
      BY DEF ProjInv, ProjTypeOK
    <3> QED
      BY <2>v, <2>f, <2>4, <3>1 DEF EndOfBatch
  <2>5. CASE NotifyWatchers
    BY <2>v, <2>5 DEF NotifyWatchers
  <2>6. ASSUME NEW cmds, HandleStreamingStart(cmds) \/ HandleCommands(cmds)
        PROVE  UNCHANGED <<handle, storages[handle.storage]>>
    BY <2>v, <2>6 DEF HandleStreamingStart, HandleCommands
  <2> QED
    BY <2>1, <2>2, <2>3, <2>4, <2>5, <2>6 DEF ProjNext, CallbackStep
<1> QED
  BY <1>1, ProjInductive, PTL DEF ProjSpec, FrozenWhileLoading
=============================================================================
