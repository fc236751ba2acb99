---------------------------- MODULE Replication ----------------------------
(***************************************************************************)
(* The replication path from end to end: a master (external), the byte     *)
(* stream of the connection, the parser of native/vdr_redis_nif            *)
(* (replica.rs), the offset and PSYNC bookkeeping of replica.ex and the    *)
(* projection of TSProj, with disconnects at any point.                    *)
(*                                                                         *)
(* A command of the stream is three bytes: "*", the one that opens it; a   *)
(* middle one; and the line feed that ends it.  Byte p therefore belongs   *)
(* to command (p + 2) \div 3, offsets count bytes as in Redis, and a chunk *)
(* is an interval of positions.  A snapshot is a list of entries and a     *)
(* trailer; it is out of band and moves no offset.                         *)
(*                                                                         *)
(* The handshake between the connection and the PSYNC reply changes        *)
(* nothing that this module is about; Replica has its steps.               *)
(***************************************************************************)
EXTENDS TSProj

CONSTANTS
    Dbs,            \* database numbers, 0 among them
    NoDb,           \* the master has selected no database yet
    HasBacklog,     \* whether the master can answer CONTINUE
    RdbEntries,     \* entries of a snapshot
    MaxStream,      \* bound on the commands of the stream
    MaxDrops        \* bound on the connections the network drops

\* The commands the parser hands on: entries of a snapshot (op "write") and
\* commands of the stream other than SELECT.
StreamCommands ==
    [op : {"write", "tx_start", "tx_end"}, at : 0 .. 3 * MaxStream, part : 0 .. RdbEntries, db : Dbs]

ASSUME ReplicationConstants ==
    /\ 0 \in Dbs
    /\ NoDb \notin Dbs
    /\ HasBacklog \in BOOLEAN
    /\ RdbEntries \in Nat
    /\ MaxStream \in Nat
    /\ MaxDrops \in Nat
    /\ StreamCommands \subseteq Commands

VARIABLES
    stream,             \* master: the commands propagated so far
    selected_db,        \* master: the database last selected in the stream
    connected,          \* whether the replica has a PSYNCed connection
    rdb_left,           \* units of the snapshot still to deliver
    base,               \* offset of the FULLRESYNC the replica last got
    next,               \* link: the next byte to deliver
    parser_state,       \* "none", "rdb" or "streaming"
    unparsed,           \* first byte not yet turned into commands
    current_db,         \* the parser's selected database
    replication_id, replication_offset,
    saved_replication_id, saved_replication_offset,
    drops,              \* connections dropped so far
    dirty               \* storages a CONTINUE resumed at the wrong place

linkVars == <<connected, rdb_left, base, next, parser_state, unparsed, current_db>>
idVars == <<replication_id, replication_offset, saved_replication_id,
            saved_replication_offset>>
vars == <<projVars, stream, selected_db, linkVars, idVars, drops, dirty>>

\* The end of the stream, in bytes.
MasterOffset == 3 * Len(stream)

\* What the parser hands on: an entry of a snapshot or a command of the stream.
Entry(offset, k) == [op |-> "write", at |-> offset, part |-> k, db |-> 0]
Command(i, db) == [op |-> stream[i].op, at |-> i, part |-> 0, db |-> db]

StreamOps == {"select", "write", "tx_start", "tx_end"}

\* The state of master, link, parser and replica has its types; what the
\* parser hands on is an entry of a snapshot or a command of the stream.
TypeOK ==
    /\ ProjTypeOK
    /\ stream \in Seq([op : StreamOps, db : Dbs])
    /\ selected_db \in Dbs \cup {NoDb}
    /\ connected \in BOOLEAN
    /\ rdb_left \in 0 .. RdbEntries + 1
    /\ base \in Nat
    /\ next \in Nat
    /\ parser_state \in {"none", "rdb", "streaming"}
    /\ unparsed \in Nat
    /\ current_db \in Dbs
    /\ replication_id \in BOOLEAN
    /\ replication_offset \in Nat
    /\ saved_replication_id \in BOOLEAN
    /\ saved_replication_offset \in Nat
    /\ drops \in Nat
    /\ dirty \subseteq Storages

Init ==
    /\ ProjInit
    /\ stream = <<>>
    /\ selected_db = NoDb
    /\ connected = FALSE
    /\ rdb_left = 0
    /\ base = 0
    /\ next = 1
    /\ parser_state = "none"
    /\ unparsed = 1
    /\ current_db = 0
    /\ replication_id = FALSE
    /\ replication_offset = 0
    /\ saved_replication_id = FALSE
    /\ saved_replication_offset = 0
    /\ drops = 0
    /\ dirty = {}

----------------------------------------------------------------------------
(* The master: a write, or a MULTI/EXEC transaction between the markers,    *)
(* with a SELECT before it when the database differs from the last one.     *)

Propagate(db, ops) ==
    LET select == IF selected_db = db THEN <<>> ELSE <<[op |-> "select", db |-> db]>>
        body == [k \in 1..Len(ops) |-> [op |-> ops[k], db |-> db]]
    IN  /\ Len(stream) + Len(select) + Len(ops) <= MaxStream
        /\ stream' = stream \o select \o body
        /\ selected_db' = db
        /\ UNCHANGED <<projVars, linkVars, idVars, drops, dirty>>

MasterWrites(db) == Propagate(db, <<"write">>)
MasterTransaction(db) == Propagate(db, <<"tx_start", "write", "tx_end">>)

----------------------------------------------------------------------------
(* The PSYNC reply *)

\* handle_psync_completed(:fullresync): the master forgets which database it
\* selected, so the stream after a snapshot begins with a SELECT.
Fullresync ==
    /\ ~connected
    /\ HandleReplicationStart
    /\ connected' = TRUE
    /\ selected_db' = NoDb
    /\ base' = MasterOffset
    /\ next' = MasterOffset + 1
    /\ rdb_left' = RdbEntries + 1
    /\ parser_state' = "rdb"
    /\ unparsed' = MasterOffset + 1
    /\ current_db' = 0
    /\ replication_id' = TRUE
    /\ replication_offset' = MasterOffset
    /\ dirty' = dirty \ {new_ts_storage'}
    /\ UNCHANGED <<stream, saved_replication_id, saved_replication_offset, drops>>

\* PSYNC asks for the byte at saved_replication_offset, and CONTINUE sends the
\* stream from there.  That resumes in the right place when the storage being
\* written is the served one, the parser had consumed all but that byte on, or
\* all including that line feed, and the selected database was 0.
ResumesCleanly ==
    /\ new_ts_storage = Nil
    /\ saved_replication_offset \in {unparsed, unparsed - 1}
    /\ current_db = 0

\* Slip for VisibleExact: the request is for the byte after the next one.
ContinueTooFar ==
    /\ ~connected /\ pc = "idle"
    /\ HasBacklog /\ saved_replication_id
    /\ saved_replication_offset + 3 <= MasterOffset
    /\ connected' = TRUE
    /\ next' = saved_replication_offset + 4
    /\ unparsed' = saved_replication_offset + 4
    /\ rdb_left' = 0
    /\ parser_state' = "streaming"
    /\ current_db' = 0
    /\ replication_id' = saved_replication_id
    /\ replication_offset' = saved_replication_offset + 3
    /\ dirty' = IF ResumesCleanly THEN dirty ELSE dirty \cup ({ts_storage, new_ts_storage} \ {Nil})
    /\ UNCHANGED <<projVars, stream, selected_db, base, saved_replication_id,
                   saved_replication_offset, drops>>

\* handle_psync_completed(:continue): a new parser in streaming mode, at
\* database 0; the callback is not told.
Continue ==
    /\ ~connected /\ pc = "idle"
    /\ HasBacklog /\ saved_replication_id
    /\ saved_replication_offset \in 1 .. MasterOffset + 1
    /\ connected' = TRUE
    /\ next' = saved_replication_offset
    /\ unparsed' = saved_replication_offset
    /\ rdb_left' = 0
    /\ parser_state' = "streaming"
    /\ current_db' = 0
    /\ replication_id' = saved_replication_id
    /\ replication_offset' = saved_replication_offset
    /\ dirty' = IF ResumesCleanly THEN dirty ELSE dirty \cup ({ts_storage, new_ts_storage} \ {Nil})
    /\ UNCHANGED <<projVars, stream, selected_db, base, saved_replication_id,
                   saved_replication_offset, drops>>

----------------------------------------------------------------------------
(* A chunk: units of the snapshot, and after the last one bytes of the      *)
(* stream up to position b.                                                 *)

\* parse_command skips a line feed in front of a command.
First(b) == IF unparsed <= b /\ unparsed % 3 = 0 THEN unparsed + 1 ELSE unparsed

\* It expects the "*" of a command there, and fails on anything else.
ParseFails(b) == First(b) <= b /\ First(b) % 3 # 1

\* The commands complete at byte b, in stream positions.
FirstCommand(b) == (First(b) + 2) \div 3
Complete(b) == FirstCommand(b) .. (b \div 3)

\* The database of command i: that of the last SELECT the parser has met.
DbOf(b, i) ==
    LET selects == {j \in FirstCommand(b) .. (i - 1) : stream[j].op = "select"}
    IN  IF selects = {} THEN current_db
        ELSE stream[CHOOSE j \in selects : \A k \in selects : k <= j].db

\* SELECT is consumed by the parser; every other command is handed on.
Handed(cmds) ==
    LET upto[n \in 0..Len(cmds)] ==
           IF n = 0 THEN <<>>
           ELSE IF cmds[n].op = "select" THEN upto[n - 1]
           ELSE Append(upto[n - 1], cmds[n])
    IN  upto[Len(cmds)]

Parsed(b) ==
    Handed([n \in 1 .. ((b \div 3) + 1 - FirstCommand(b)) |->
               Command(FirstCommand(b) + n - 1, DbOf(b, FirstCommand(b) + n - 1))])

\* The next k units of the snapshot; the last unit is the trailer.
Entries(k) ==
    LET done == RdbEntries + 1 - rdb_left
        upto == IF done + k > RdbEntries THEN RdbEntries ELSE done + k
    IN  [n \in 1 .. (upto - done) |-> Entry(base, done + n)]

\* handle_disconnect: the offset and id are saved, the parser is dropped.
\* (unparsed and current_db keep what the dropped parser had reached.)
HandleDisconnect ==
    /\ connected' = FALSE
    /\ parser_state' = "none"
    /\ saved_replication_id' = (replication_id \/ saved_replication_id)
    /\ saved_replication_offset' = replication_offset
    /\ UNCHANGED <<projVars, stream, selected_db, rdb_left, base, next, unparsed, current_db,
                   replication_id, replication_offset, dirty>>

\* Slip for OffsetTracksStream: the offset also counts the chunks of the RDB.
CountsEveryChunk(k, b) ==
    replication_offset' = replication_offset + k + (b + 1 - next)

\* Only a chunk that finds the parser streaming moves the offset.
CountsChunk(k, b) ==
    replication_offset' = IF parser_state = "streaming"
                          THEN replication_offset + (b + 1 - next)
                          ELSE replication_offset

\* Slip for CleanResyncServesMaster: the end of the snapshot is not reported.
ProcessSilently(k, b) ==
    LET cmds == Entries(k) \o Parsed(b)
    IN  \/ cmds # <<>> /\ HandleCommands(cmds)
        \/ cmds = <<>> /\ UNCHANGED projVars

\* handle_replication_data after the offset: handle_streaming_start first if
\* this chunk ends the snapshot, then the commands of the chunk.
ProcessChunk(k, b) ==
    LET cmds == Entries(k) \o Parsed(b)
        starts == parser_state = "rdb" /\ k = rdb_left
    IN  \/ starts /\ HandleStreamingStart(cmds)
        \/ ~starts /\ cmds # <<>> /\ HandleCommands(cmds)
        \/ ~starts /\ cmds = <<>> /\ UNCHANGED projVars

\* A chunk of k units of the snapshot and the stream up to byte b.
IsChunk(k, b) ==
    /\ connected /\ pc = "idle"
    /\ k <= rdb_left
    /\ k < rdb_left => b = next - 1
    /\ k > 0 \/ (rdb_left = 0 /\ b >= next)

HandleReplicationData(k, b) ==
    /\ IsChunk(k, b)
    /\ ~ParseFails(b)
    /\ ProcessChunk(k, b)
    /\ CountsChunk(k, b)
    /\ rdb_left' = rdb_left - k
    /\ parser_state' = IF k = rdb_left THEN "streaming" ELSE parser_state
    /\ next' = b + 1
    /\ unparsed' = IF Complete(b) = {} THEN First(b) ELSE 3 * (b \div 3) + 1
    /\ current_db' = DbOf(b, (b \div 3) + 1)
    /\ UNCHANGED <<stream, selected_db, connected, base, replication_id,
                   saved_replication_id, saved_replication_offset, drops, dirty>>

\* {:error, reason} of the parser: nothing of the chunk is used.
ParseFailed(k, b) ==
    /\ IsChunk(k, b)
    /\ ParseFails(b)
    /\ HandleDisconnect
    /\ UNCHANGED drops

\* The connection is lost between two chunks.
ConnectionLost ==
    /\ connected /\ pc = "idle"
    /\ drops < MaxDrops
    /\ drops' = drops + 1
    /\ HandleDisconnect

Callback ==
    /\ CallbackStep
    /\ UNCHANGED <<stream, selected_db, linkVars, idVars, drops, dirty>>

----------------------------------------------------------------------------
Receive == \E k \in 0 .. RdbEntries + 1, b \in next - 1 .. MasterOffset :
              HandleReplicationData(k, b) \/ ParseFailed(k, b)

Next ==
    \/ \E db \in Dbs : MasterWrites(db) \/ MasterTransaction(db)
    \/ Fullresync
    \/ Continue
    \/ Receive
    \/ ConnectionLost
    \/ Callback

Spec == Init /\ [][Next]_vars

\* The replica keeps reconnecting, TCP delivers what the master has sent, and
\* a callback that was called returns.
FairSpec ==
    /\ Spec
    /\ WF_vars(Fullresync \/ Continue)
    /\ WF_vars(Receive)
    /\ WF_vars(Callback)

----------------------------------------------------------------------------
(* Properties *)

\* The history that the snapshot at offset o and the commands up to q make,
\* each command in the database the master executed it in.
History(o, q) ==
    [k \in 1..RdbEntries |-> Entry(o, k)]
       \o Handed([n \in 1 .. (q - (o \div 3)) |->
                     Command((o \div 3) + n, stream[(o \div 3) + n].db)])

IsPrefixOf(s, t) == Len(s) <= Len(t) /\ s = SubSeq(t, 1, Len(s))

Bases == {3 * i : i \in 0..Len(stream)}

\* A storage that has not been resumed in the wrong place serves the master's
\* data: at every moment a prefix of one snapshot followed by the commands
\* after it, each once, in order and in its database; and between chunks never
\* less than the whole snapshot.
VisibleExact ==
    handle.ready /\ handle.storage \notin dirty =>
       \E o \in Bases :
          /\ IsPrefixOf(Visible, History(o, Len(stream)))
          /\ pc = "idle" => Len(Visible) >= RdbEntries

\* Readers never see a part of a transaction: if the opening marker's command
\* has been applied then so have the write and the closing marker.
TxAtomic ==
    handle.storage \notin dirty =>
       \A i \in 1..Len(Visible) :
          Visible[i].op = "tx_start" =>
             \E j \in i+1 .. Len(Visible) : Visible[j].op = "tx_end"

\* However often the connection is dropped and resumed, the offset that the
\* replica acknowledges and asks to resume from is never more than one byte
\* ahead of what it received: one, because CONTINUE repeats the byte that
\* PSYNC asked for.
OffsetTracksStream ==
    connected => replication_offset <= next

\* When the network and the master come to rest, readers of the replica see
\* the master's data.
EventuallyServesMaster ==
    <>[](/\ handle.ready
         /\ \E o \in Bases : Visible = History(o, Len(stream)))

\* When the network and the master come to rest, a replica that never resumed
\* at a wrong place serves the master's data.
CleanResyncServesMaster == [](dirty = {}) => EventuallyServesMaster

\* double_buffer_test.exs:181: "atomic swap ensures no partial data visible".
ReadsSeeWholeSnapshot == handle.ready => Len(Visible) >= RdbEntries
=============================================================================
