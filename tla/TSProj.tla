------------------------------- MODULE TSProj -------------------------------
(***************************************************************************)
(* Vdr.TSProj (lib/veidrodelis/ts_proj.ex): the callback that projects the *)
(* replicated commands into the in-memory storage.  It keeps two storages, *)
(* one that readers reach through the registered handle and one that is    *)
(* filled while a snapshot is loaded, and it holds back the commands       *)
(* between SET __vdr_tx and DEL __vdr_tx to apply them at once.            *)
(*                                                                         *)
(* The callbacks run inside the replica process, but readers (through the  *)
(* registry's table and the storage's mutex) and watchers (through their   *)
(* mailboxes) run beside it, so each effect they can observe is a step of  *)
(* its own: the Init events, the registration, every storage transaction   *)
(* and the Update events that follow it.                                   *)
(*                                                                         *)
(* The contents of a storage is the sequence of commands applied to it.    *)
(***************************************************************************)
EXTENDS Naturals, Sequences

CONSTANTS
    Storages,       \* identities of TS storages
    Nil,            \* the nil of new_ts_storage
    Commands,       \* commands the parser can deliver: records with a field op
    Batches,        \* the command lists of single handle_commands calls
    MaxApplied      \* bound on the length of a storage's history

\* The ops the projection tells apart: tx_start is SET __vdr_tx, tx_end a DEL
\* that names __vdr_tx, generic a command the storage has no form for.
Ops == {"write", "tx_start", "tx_end", "generic"}

ASSUME ProjConstants ==
    /\ Nil \notin Storages
    /\ \A c \in Commands : c.op \in Ops
    /\ Batches \subseteq Seq(Commands)
    /\ MaxApplied \in Nat

VARIABLES
    ts_storage,     \* the storage being served
    new_ts_storage, \* the storage being loaded, or Nil
    ready,
    tx_buffer,      \* buffered commands, oldest first
    in_transaction,
    storages,       \* the history of each storage
    handle,         \* the handle in the registry: what readers use
    pc,             \* where the running callback is, "idle" between callbacks
    batch,          \* commands of this handle_commands call still to process
    flushed,        \* commands executed whose watchers are still to be told
    known           \* what a process watching every key has been told of

projVars == <<ts_storage, new_ts_storage, ready, tx_buffer, in_transaction, storages,
              handle, pc, batch, flushed, known>>

\* convert_command has no form for a generic command: it changes nothing and
\* touches no key, and stays in a history as the no-op it is.
Supported(c) == c.op # "generic"

\* The commands of a history that have an effect.
Effects(s) == {s[i] : i \in {j \in 1..Len(s) : Supported(s[j])}}

\* The state of Vdr.TSProj and of the registered handle has its types: a
\* storage is always served, and only a load has a second one.
ProjTypeOK ==
    /\ ts_storage \in Storages
    /\ new_ts_storage \in Storages \cup {Nil}
    /\ ready \in BOOLEAN
    /\ tx_buffer \in Seq(Commands)
    /\ in_transaction \in BOOLEAN
    /\ storages \in [Storages -> Seq(Commands)]
    /\ handle \in [storage : Storages, ready : BOOLEAN]
    /\ pc \in {"idle", "init", "register", "commands", "notify"}
    /\ batch \in Seq(Commands)
    /\ flushed \in Seq(Commands)
    /\ known \subseteq Commands

\* init/1: the first storage is registered at once, but not ready.
ProjInit ==
    /\ ts_storage \in Storages
    /\ new_ts_storage = Nil
    /\ ready = FALSE
    /\ tx_buffer = <<>>
    /\ in_transaction = FALSE
    /\ storages = [s \in Storages |-> <<>>]
    /\ handle = [storage |-> ts_storage, ready |-> FALSE]
    /\ pc = "idle"
    /\ batch = <<>>
    /\ flushed = <<>>
    /\ known = {}

\* A storage nobody refers to any more is collected; a new one is empty.
Keeping(held) == [s \in Storages |-> IF s \in held THEN storages[s] ELSE <<>>]

----------------------------------------------------------------------------
(* handle_replication_start *)

\* Slip for FrozenWhileLoading: the snapshot is loaded into the served storage.
LoadInPlace ==
    /\ pc = "idle"
    /\ storages' = [storages EXCEPT ![ts_storage] = <<>>]
    /\ new_ts_storage' = ts_storage
    /\ tx_buffer' = <<>>
    /\ in_transaction' = FALSE
    /\ UNCHANGED <<ts_storage, ready, handle, pc, batch, flushed, known>>

\* Slip for BufferOnlyInTransaction: the open transaction is not abandoned.
LoadKeepingBuffer ==
    /\ pc = "idle"
    /\ new_ts_storage' \in Storages \ {ts_storage, handle.storage}
    /\ storages' = Keeping({ts_storage, handle.storage})
    /\ in_transaction' = FALSE
    /\ UNCHANGED <<ts_storage, ready, tx_buffer, handle, pc, batch, flushed, known>>

\* reinitialize_state: a fresh storage for the snapshot; an open transaction
\* is dropped; the ready flag and the registered handle stay as they are.
HandleReplicationStart ==
    /\ pc = "idle"
    /\ new_ts_storage' \in Storages \ {ts_storage, handle.storage}
    /\ storages' = Keeping({ts_storage, handle.storage})
    /\ tx_buffer' = <<>>
    /\ in_transaction' = FALSE
    /\ UNCHANGED <<ts_storage, ready, handle, pc, batch, flushed, known>>

----------------------------------------------------------------------------
(* handle_streaming_start, and the commands of the same chunk after it. *)

\* Slip for ProjTypeOK: the end of a snapshot may be reported again.
StreamingStartAgain(cmds) ==
    /\ pc = "idle"
    /\ ts_storage' = new_ts_storage
    /\ new_ts_storage' = Nil
    /\ ready' = TRUE
    /\ batch' = cmds
    /\ pc' = "init"
    /\ UNCHANGED <<tx_buffer, in_transaction, storages, handle, flushed, known>>

HandleStreamingStart(cmds) ==
    /\ pc = "idle"
    /\ new_ts_storage # Nil
    /\ ts_storage' = new_ts_storage
    /\ new_ts_storage' = Nil
    /\ ready' = TRUE
    /\ batch' = cmds
    /\ pc' = "init"
    /\ UNCHANGED <<tx_buffer, in_transaction, storages, handle, flushed, known>>

\* Init to every watcher: what it knew is replaced by the loaded storage.
SendInit ==
    /\ pc = "init"
    /\ known' = Effects(storages[ts_storage])
    /\ pc' = "register"
    /\ UNCHANGED <<ts_storage, new_ts_storage, ready, tx_buffer, in_transaction, storages,
                   handle, batch, flushed>>

\* Slip for ServesCurrent: the old handle is left in the registry.
RegisterOld ==
    /\ pc = "register"
    /\ handle' = [handle EXCEPT !.ready = TRUE]
    /\ pc' = IF batch = <<>> THEN "idle" ELSE "commands"
    /\ UNCHANGED <<ts_storage, new_ts_storage, ready, tx_buffer, in_transaction, storages,
                   batch, flushed, known>>

Register ==
    /\ pc = "register"
    /\ handle' = [storage |-> ts_storage, ready |-> TRUE]
    /\ storages' = Keeping({ts_storage})
    /\ pc' = IF batch = <<>> THEN "idle" ELSE "commands"
    /\ UNCHANGED <<ts_storage, new_ts_storage, ready, tx_buffer, in_transaction,
                   batch, flushed, known>>

----------------------------------------------------------------------------
(* handle_commands *)

HandleCommands(cmds) ==
    /\ pc = "idle"
    /\ cmds # <<>>
    /\ batch' = cmds
    /\ pc' = "commands"
    /\ UNCHANGED <<ts_storage, new_ts_storage, ready, tx_buffer, in_transaction, storages,
                   handle, flushed, known>>

\* flush_tx_buffer writes to the storage being loaded, if there is one.
Target == IF new_ts_storage # Nil THEN new_ts_storage ELSE ts_storage

\* Slip for NotifiedIsVisible: watchers are told, but nothing is executed.
FlushWithoutTx(cmds) ==
    /\ flushed' = cmds
    /\ pc' = IF cmds = <<>> THEN pc ELSE "notify"
    /\ UNCHANGED storages

\* flush_tx_buffer up to the notifications: one TS.tx for the whole buffer.
Flush(cmds) ==
    /\ storages' = [storages EXCEPT ![Target] = @ \o cmds]
    /\ flushed' = cmds
    /\ pc' = IF cmds = <<>> THEN pc ELSE "notify"

\* Slip for TxAtomic: a transaction start does not hold its commands back.
BufferedNoTransaction(c) ==
    /\ c.op \in Ops
    /\ tx_buffer' = Append(tx_buffer, c)
    /\ UNCHANGED <<in_transaction, storages, flushed, pc>>

\* process_single_command, one clause per disjunct.
ProcessSingleCommand(c) ==
    \/ /\ c.op = "tx_start"
       /\ Flush(tx_buffer)
       /\ in_transaction' = TRUE
       /\ tx_buffer' = <<c>>
    \/ /\ c.op = "tx_end"
       /\ Flush(Append(tx_buffer, c))
       /\ in_transaction' = FALSE
       /\ tx_buffer' = <<>>
    \/ /\ c.op \in {"write", "generic"}
       /\ tx_buffer' = Append(tx_buffer, c)
       /\ UNCHANGED <<in_transaction, storages, flushed, pc>>

ProcessNext ==
    /\ pc = "commands"
    /\ batch # <<>>
    /\ batch' = Tail(batch)
    /\ ProcessSingleCommand(Head(batch))
    /\ UNCHANGED <<ts_storage, new_ts_storage, ready, handle, known>>

\* The end of handle_commands: flush unless a transaction is open.
EndOfBatch ==
    /\ pc = "commands"
    /\ batch = <<>>
    /\ \/ /\ ~in_transaction /\ tx_buffer # <<>>
          /\ Flush(tx_buffer)
          /\ tx_buffer' = <<>>
       \/ /\ in_transaction \/ tx_buffer = <<>>
          /\ pc' = "idle"
          /\ UNCHANGED <<tx_buffer, storages, flushed>>
    /\ UNCHANGED <<ts_storage, new_ts_storage, ready, in_transaction, handle, batch, known>>

\* Slip for NoSilentChange: the flush at the end of a batch tells nobody.
NotifyExceptLast ==
    /\ pc = "notify"
    /\ known' = IF ready /\ batch # <<>> THEN known \cup Effects(flushed) ELSE known
    /\ flushed' = <<>>
    /\ pc' = "commands"
    /\ UNCHANGED <<ts_storage, new_ts_storage, ready, tx_buffer, in_transaction, storages,
                   handle, batch>>

\* notify_watchers for every flushed command, when the projection is ready.
NotifyWatchers ==
    /\ pc = "notify"
    /\ known' = IF ready THEN known \cup Effects(flushed) ELSE known
    /\ flushed' = <<>>
    /\ pc' = "commands"
    /\ UNCHANGED <<ts_storage, new_ts_storage, ready, tx_buffer, in_transaction, storages,
                   handle, batch>>

----------------------------------------------------------------------------
\* The steps of a callback that has been called.
CallbackStep == SendInit \/ Register \/ ProcessNext \/ EndOfBatch \/ NotifyWatchers

Fits(cmds) == Len(storages[Target]) + Len(tx_buffer) + Len(cmds) <= MaxApplied

\* Replica calls the callbacks one after the other: handle_replication_start
\* at any FULLRESYNC, handle_streaming_start once for it, commands at any time.
ProjNext ==
    \/ HandleReplicationStart
    \/ \E cmds \in Batches : Fits(cmds) /\ HandleStreamingStart(cmds)
    \/ \E cmds \in Batches : Fits(cmds) /\ HandleCommands(cmds)
    \/ CallbackStep

ProjSpec == ProjInit /\ [][ProjNext]_projVars

----------------------------------------------------------------------------
(* Properties *)

Visible == storages[handle.storage]

\* The promise of the double buffer: from the FULLRESYNC until the loaded
\* storage is registered, whatever handle_commands executes, the storage that
\* readers have a handle of does not change.
FrozenWhileLoading ==
    [][new_ts_storage # Nil => UNCHANGED <<handle, storages[handle.storage]>>]_projVars

\* Outside the swap of handle_streaming_start, the handle in the registry is
\* the storage that flush_tx_buffer keeps up to date, with the ready flag of
\* the projection.
ServesCurrent ==
    pc \notin {"init", "register"} => handle = [storage |-> ts_storage, ready |-> ready]

\* Between callbacks nothing is held back except by an open transaction, and
\* nothing executed is still to be announced.
BufferOnlyInTransaction ==
    /\ pc = "idle" => batch = <<>> /\ (tx_buffer # <<>> => in_transaction)
    /\ pc # "notify" => flushed = <<>>

\* Once no snapshot is being loaded, a watcher that reads after an Update
\* finds the command it was told of: flush_tx_buffer executes first and
\* notifies afterwards.
NotifiedIsVisible ==
    new_ts_storage = Nil /\ pc \notin {"init", "register"} => known \subseteq Effects(Visible)

\* Between callbacks, readers of a ready handle see nothing that watchers have
\* not been told of, by an Update or by the Init after the snapshot.
NoSilentChange ==
    pc = "idle" /\ handle.ready => Effects(Visible) \subseteq known
=============================================================================
