# Veidrodelis in TLA+

Veidrodelis connects to a Redis or Valkey master as a replica and keeps a
read-only projection of its data inside an Erlang node. This directory models
its connection and replication path (down to the bytes of a snapshot), its
double-buffered projection, its watches, its instance registry, Sentinel
discovery and its storage with the write commands, the read commands and what a
Lua script returns. The models are checked with TLC. Every safety property of
the replica process, the projection, the replication path, the watches, the
registry, the discovery, the storage and its reads is also proved with TLAPS for
every value of the constants; the byte-level parsers and the liveness properties
are model-checked only.

## Parts of the system

| Part | State | Operations | Module |
|---|---|---|---|
| `Vdr.RedisStream.Replica` (`replica.ex`) | phase, socket, two timers, back-off, replication id and offset (current and saved), parser | connect, handshake replies, chunks, close/error messages, timer messages, stop | `Replica`, `Replication` |
| Replication parser (`vdr_redis_nif/src/replica.rs`) | buffer, state (header, snapshot, stream), selected database | feed a chunk | `ReplicaParser`, `Replication` |
| RDB parser (`vdr_redis_nif/src/rdb.rs`) | buffer, parse state, database, expiry and key of the next value | feed a chunk | `Listpack`, `Rdb`, `RdbFormat` (the writer) |
| `Vdr.TSProj` (`ts_proj.ex`) | served storage, storage being loaded, ready flag, transaction buffer | `handle_replication_start`, `handle_streaming_start`, `handle_commands`, notification | `TSProj` |
| `Vdr.TS.Watch` (`ts/watch.ex`), prefix tree (`vdr_ts_nif/src/lib.rs`) | six maps, a tree, monitors | watch, unwatch, the same for prefixes, DOWN | `Watch`, `WatchTable` |
| `Vdr.Registry` (`registry.ex`) | ETS table, instances, monitors | register, unregister, DOWN, crash and restart | `Registry` |
| Sentinel discovery (`sentinel_connector.ex`) | the sentinels left to try, two Redix connections | connect, query, verify the role, connect to the server | `Sentinel` |
| Storage (`vdr_ts_nif/src/storage`) | keyspace per database | about sixty write commands | `Storage`, `Lists`, `ZSets` |
| Read commands (`read_commands.rs`, `storage`), Lua results (`lua.rs`, `lib.rs`) | none | reads, pages of scans, a script's result | `Reads` |
| Command parser and filter | none | a clause per command | not modelled |
| Benchmarks | | | not modelled |

How they interact. The replica is one process. It calls the callbacks of
`Vdr.TSProj` from its message handlers, so they never overlap each other; but
clients run beside it and meet it in four places: they read the registry's ETS
table, they read the storage behind the handle they found (under the storage's
mutex), they receive `Init` and `Update` messages, and they call it to watch
keys. The registry is another process; it learns of exits through monitors. The
master, the sockets and the timers of the runtime are the environment.

What is hard about it: connections lost at any byte of a snapshot or of a
command; offsets that decide what a partial resync repeats; timer messages that
were already in the mailbox when the timer was cancelled; a switch of storages
under readers; transactions whose markers arrive in different chunks; processes
that exit with a call still under way; a registry that crashes under live
instances; roles that change between two requests of a discovery; scans that are
overtaken by writes. `PROJECT.json` lists these under
`hazards`, at the line where they bite, with the properties that would notice.

## Modules

### Replica

One action per message handler of `replica.ex`. `continue` stands for the
`{:continue, :connect}` that runs before any message; `inbox` is the mailbox;
`armed` are the timers of the runtime and `port` what each socket may still
deliver (`active: :once` makes it deliver one chunk and turn passive). Cancelling
a timer does not take back a message that is already in the mailbox, and a
closed socket may have left messages there: both are in the model, since that is
what the stale-timer and stale-socket clauses are for. What a reply parses to is
a choice: complete, incomplete, or an error. The AUTH, PING, REPLCONF and PSYNC
replies differ in what a failed send does: AUTH reconnects, the others stop.
`Fault` bounds the number of failures (`MaxFaults`), and `MaxInbox` the mailbox.
It is assumed that `:ok = transport_setopts(...)` succeeds. The delay of the
back-off is a number that is doubled and capped, not a time.

### TSProj

The callbacks of the projection. The contents of a storage is the history of
commands applied to it. Every effect that a client can observe is a step: the
`Init` messages (`SendInit`), the registration (`Register`), each storage
transaction (`Flush`) and the `Update` messages after it (`NotifyWatchers`).
`known` is what a process that watches every key has been told of. Commands are
told apart as far as the code does: the two markers, a write, and a command the
storage has no form for. `Keeping` forgets storages nobody refers to, so that
three are enough: the served one, the registered one and the one being loaded.

### Replication

`TSProj` below the byte stream. A command of the stream is three bytes (its
first, a middle one, its line feed), so that a chunk can end at each kind of
place; a snapshot is a number of entries and a trailer, and moves no offset.
`First` and `ParseFails` are what `parse_command` does at the start of its
buffer (it skips line feeds and insists on `*`); `DbOf` follows the SELECTs;
`CountsChunk` is the offset rule of `handle_replication_data`; `ProcessChunk` its
order: the end of the snapshot is reported first, then the commands of the chunk
are handed over. The master (external) writes and runs transactions in two
databases, answers FULLRESYNC or, with `HasBacklog`, CONTINUE from the byte asked
for. `dirty` records which storages a CONTINUE has resumed at another place than
where their parser had stopped (`ResumesCleanly`); it is only used in properties.
A chunk that fails to parse disconnects without using any part of it. `Handed` is
what the parser hands on of a part of the stream: all but the SELECTs, which it
consumes.

### Watch and WatchTable

`Watch` has the maps of `Vdr.TS.Watch` as partial functions, the radix tree as a
function from nodes to watchers, the monitors, and the mailbox through which
calls and DOWN messages arrive in some order; a call may be answered
`:not_connected`, and its process may be gone when it is handled. `WatchTable`
is the specification: one set of subscriptions, of which a process loses all
when it is gone and not before. `Implements` is the refinement. References of
watches are taken to be terms other than `nil` and `false`, which `get_in` would
take for a missing entry.

### Registry

The registry process with its mailbox, and instances that start, swap their
storage, unregister, terminate and die. A registration may be handled after its
process has died; the monitor then answers at once. `Restart` is a crash of the
registry: table, instances map, monitors and mailbox are gone, the calls under
way fail (`call_failed`), and nobody else is told. `lost` are the instances whose
entry went with it; their next swap registers them again, unless another
instance has taken the id (`SwapAccepted`, `KeepsHandle`).

### Sentinel

`discover_server` and the connection that follows it. Every request (connect to
a sentinel, ask it for an address, connect to the server, ask its role, connect
for replication) is a step, so that the environment changes between any two of
them: servers and sentinels fail and come back, a failover moves the master, a
sentinel knows of it late or knows nothing. `had` collects the servers that had
the wanted role since the discovery began; it is used in a property only.
`host_map`, which renames addresses for tests, is the identity.

### Listpack, Rdb, RdbFormat and ReplicaParser

The two incremental parsers, byte by byte. A decoder answers `None` (bytes are
missing), `Err`, or a value with the bytes it took; `Bind` is the code's `?` and
`OnResult` what a parser step makes of such an answer. `Rdb` has one operator per
parse state and per opcode; the size of a value is calculated before any of it
is consumed, by code of its own, as in the source. `ReplicaParser` is the
connection's parser around it: line feeds, the header, as many bytes of snapshot
as announced, then RESP commands; after CONTINUE it starts in the stream
(`skip_rdb`). The state machine has one action, `Receive`, which feeds the next
1, 2, 3, 7 or all remaining bytes.

`RdbFormat` is the master's side (external): it writes entries as bytes, and says
which commands they stand for. Unlike the parser it starts from the form each
string is to be written in. Doubles are constants: `F64` is the text of one that
is written in eight bytes, `Float` the value of one that is written as text, with
an exponent and `inf` among those of the run. LZF is the decoder that the
repository carries and builds (`c_src/lzf_d.c`), with its checks of the input's
end, the output's size and the reach of a copy. The inputs (`MCReplicaParser`)
are every form of string and listpack entry, every value type the parser knows
and intsets of all three widths at their boundaries, each before another key that
must not inherit its expiry or database. Three inputs that a master may send are
kept apart, since the parser does not deliver them: small negative integers in a
listpack (finding 4), plain nodes of a quicklist and sets written as hash tables
(known divergences, below).

### Storage, Lists and ZSets

`Storage` has one variable, the map from databases to keys to typed values, and
one operator per write command, under the name it has in the code. Most commands
have one of three shapes, which are written once: `Upsert` (create the key if it
is missing), `Modify` (need the key, and remove it with its last element) and
`StoreInto` (delete the destination, read the sources, store the result). What a
command does to one list or one sorted set is in `Lists` and `ZSets`, computed
as the code does it (a scan with a counter, indices clamped into the list, an
index and a map changed by separate steps); the reference definitions say the
same of positions. A command that fails changes nothing but what the code had
changed before it noticed. The handlers of `write_commands.rs` are grouped by
family, `dispatch_write_command` chooses among them, and `Execute` is one
replayed command. `AffectedKeys` and `Announced` are the keys `ts_proj.ex`
announces a command for. Loops that only insert (MSET, HMSET) or that take from
one end of an ordered index (ZPOPMIN, ZREMRANGEBYRANK) are written by their
result, with `Written` (the last pair of a key wins) and `Rank` (the number of
pairs before one); loops whose steps depend on each other (LREM, ZADD) are
recursive functions with one step of the loop as an operator (`Visit`,
`AddMember`).

Keys, elements, members and fields are naturals, ordered as the byte strings
they stand for (`StorageAssumption`); a B-tree is a set, and what an iteration
over it returns is defined by rank, `Ascending` for byte strings and `Ordered`
for the pairs of a sorted set; strings are sequences of characters, so that
counters parse and print them; scores are integers, without infinities and
rounding. `Propagated` is the contract with the master (external): it replicates
a command that had an effect there. The storage relies on it: SETNX and MSETNX
overwrite without looking, and ZADD XX or HSETEX FXX on a missing key would
leave an empty collection. `CommandsAssumption` is the rest of that contract:
the number and the types of the arguments (elements and fields are byte strings,
scores and counts are numbers), which the master checks before it executes a
command and the decoding before it calls the storage.

Cases that the properties of `Storage` leave out, and what the code does there:

* LTRIM and ZREMRANGEBYRANK with a range beyond the end of the sequence act on
  its last element, and with a range before its start on the first. Redis
  deletes the list and removes no member. `RemovalsMatch` is about ranges that meet
  the sequence (`InRange`), `EmptyRangeDeletes` about the others (known divergences, below);
  LRANGE clamps the same way.
* ZPOPMIN and ZPOPMAX with the count 0 pop nothing. `RemovalsMatch` is about counts
  from 1, `ZeroPopsAll` is what the comments say of 0 (likewise).
* LMOVE, RPOPLPUSH and SMOVE to a key of another type lose the element
  (`MovesConserve`, which is about every pair of keys, assumes the type of the
  destination; the master rejects the command).
* ZRANGESTORE REV by rank takes the lowest ranks and turns them round, REV by
  score or member does not swap its bounds, and a negative LIMIT count takes
  nothing. The commands of the run avoid these.
* COPY with a DB option copies inside the current database: the parser drops it.

### Reads

The read half of the storage as operators on one database, their dispatch, and
`tx`: what a Lua script that returns the value of one `ts` function hands back.
A reply is `Ok(x)` or `WrongType`. `Borders` (external) are the lengths Lua may
report for a table with holes, so `tx` is a set of terms. Reads have no state of
their own; their properties are invariants of the states the write commands
reach, and `ScansSurviveWrites` relates two pages of a scan with a write between
them, the first of one or two elements, the second with room for all that is
left. SRANDMEMBER and HRANDFIELD draw at random and are left out, and so is
ZRANGEBYSCORE with a minimum above its maximum, which the properties do not
compare.

## Runs

| Run | Instance | Shows |
|---|---|---|
| `replica_lifecycle` | 4 sockets, 3 timer references, 3 failures, mailbox of 4 | type and back-off cap, `ReconnectOwned`, `SocketHeard`, `AckTimerOwned`; under fairness `EventuallyReplicating` |
| `projection` | 3 storages, all batches of up to 2 of 5 commands, histories of 3 | the five invariants of the double buffer and `FrozenWhileLoading` |
| `resync` | snapshots of 2 entries, 4 stream commands, 2 databases, 2 drops, FULLRESYNC and CONTINUE | `VisibleExact`, `TxAtomic`, `OffsetTracksStream`; under fairness `CleanResyncServesMaster`: what the master holds is served in the end if every CONTINUE resumed where the parser had stopped |
| `resync_recover`, `torn_snapshot` | 2 stream commands, 1 drop | violated, findings 1 and 2 |
| `replica_parser` | 140 inputs, chunks of 1, 2, 3, 7 bytes or the rest | `ChunkingIrrelevant`, `DeliversExactly`, `SnapshotBeforeStreaming` |
| `listpack_negative` | 3 inputs | violated, finding 4 |
| `watch` | 2 processes, nested prefixes, a key in another database, 2 calls under way | consistency, `Implements`, `DeadForgotten` |
| `registry` | 3 processes, 1 id, 1 crash of the registry | `OneOwner`, `SwapAccepted`, `KeepsHandle`; under fairness `CallsEnd`, `IdFreed` |
| `sentinel` | 2 sentinels, 3 servers, 3 changes of the environment, both roles | no connection is left open, `UsesVerifiedServer`; under fairness `EventuallyConnected` |
| `storage` | 3 keys, 2 databases, 2 elements, keys and elements together at most 4 | `NoEmptyCollections`, `ZIndexMatchesEntries`, `RemovalsMatch`, `MovesConserve`, `EveryChangeAnnounced`; of the reads `ReadsAgree`, `StoresMatchReads`, `LuaMatchesReads`, `ScansSurviveWrites` |
| `store_in_place` | the same | violated, finding 3 |

Why the bounds are enough. Three failures reach a loss in each phase followed by
a loss during the recovery and a third during that one; four sockets are the
current one, two left behind and a fresh one; three timer references are the two
current ones and a fresh one. A stream of four commands holds a SELECT with a
transaction or two writes in two databases; a chunk can end at each of its
bytes. Two calls under way with two processes reach a watch behind the exit of
its process and an unwatch behind a DOWN. Keys and elements of the storage run
make up at most `MaxSize` = 4: a list of three elements, so that LREM has one to
keep between two others, or two collections with an element each for the
commands on two keys. Integers are scaled down (`MaxInt` = 1) so that counters
overflow; scores stay within `MaxScore`. Commands on one key are issued on one
key only, since keys differ in nothing; RENAME, COPY, MOVE and SWAPDB bring values
to the other places. Ranges, counts and moves are checked for every index and
every pair of keys in each reachable state, not only for the commands of the run.
Three changes let a server die after a sentinel has named it, the master move
and a sentinel learn of it; one crash of the registry with three processes lets
another instance take the id of one whose entry was lost. A byte at a time ends
a chunk at every place of an input; the longer chunks let a call finish one
thing and begin the next. Symmetry over storages is used only in the `projection` run, which has no
liveness.

Deadlock is checked for the replica, the projection and the storage. The other
runs end when the bounded environment (stream, bytes, drops, calls, processes)
is used up, and the replica of `sentinel` may stay connected for ever.

Fairness. The scheduler runs a process that has something to do, so the message
handlers are weakly fair. In `Replica` armed timers fire and a connected peer
sends (Redis answers every request and pings its replicas), while failures are
bounded: `EventuallyReplicating` says what happens once they stop, and excepts a
process that has stopped. In `Replication` the replica keeps reconnecting, TCP
delivers, and a callback returns; nothing is assumed of the master's clients.
In `Registry` only the handling of the mailbox is fair. In `Sentinel` the steps
of the process are weakly fair (a reconnect is scheduled after each failure), and
each answer of a sentinel strongly: `Enum.random` over the replicas, repeated
for ever, picks each of them again and again. Nothing is assumed of servers and
sentinels; `EventuallyConnected` has their good behaviour as its premise.

## Findings

1. `resync_recover`: a partial resync does not always resume where the replica
   stopped. The offset is saved during a snapshot (which CONTINUE then never
   finishes), counts commands that were cut and dropped, does not count commands
   that shared a chunk with the end of a snapshot, and does not come with the
   selected database.
2. `torn_snapshot`: the new storage is registered before the last chunk of its
   snapshot has been applied.
3. `store_in_place`: the STORE commands delete their destination before they read
   their sources, so one that is both loses its members (`sets.rs:151` and the
   same first line in the six others).
4. `listpack_negative`: the negative half of the 13-bit integers of a listpack
   (-4096 to -1) is taken for a string whose length follows; the snapshot fails
   with a decoding error, at every attempt (`rdb.rs:1432`).

`VisibleExact` and `TxAtomic` say nothing of storages in `dirty`: for these,
finding 1 is what the code does.

Known divergences that have a property and a configuration of their own, refuted
by TLC in seconds (`tlc -config <cfg> <module>`), beside the runs:

* `PlainNodesDelivered` (`MCReplicaParser`, `QuicklistPlain.cfg`). The container byte
  of a quicklist node ("1 = plain, 2 = packed", `rdb.rs:954`) is read and ignored
  (`rdb.rs:958`). A plain node, which holds one element too large for a listpack,
  is decoded as a listpack: the list gets other elements (eight letters b become
  the element 98) or none, or the snapshot fails. `DeliversExactly` is about packed
  nodes.
* `HashtableSetsDelivered` (`MCReplicaParser`, `HashtableSet.cfg`). Type 2, a set
  written as a hash table, is unknown to the parser, though `rdb_test.exs:8` lists
  "Sets (intset, hashtable, listpack)" as supported (the set it tests is small and
  arrives as a listpack). A value of an unknown type is skipped without consuming
  its bytes (`rdb.rs:369`): they are read as opcodes, types and keys, which may set
  keys the master does not have, lose the next key or fail the snapshot. The same
  happens to streams and modules. `DeliversExactly` is about the types the parser
  knows.
* `EmptyRangeDeletes` (`MCStorage`, `StorageTrimBeyond.cfg`). LTRIM clamps its indices
  into the list before it compares them (`lists.rs:263`), so its test for a range
  outside the list (`lists.rs:276`: "If range is invalid, delete the key") never
  succeeds there, and one element stays.
* `ZeroPopsAll` (`MCStorage`, `StoragePopZero.cfg`). ZPOPMAX and ZPOPMIN with the count
  0 pop nothing, as Redis does, where their comments (`zsets.rs:594`, `631`) say
  "If count is 0 or greater than set size, pops all available."

Known divergences that the models contain and no property is about:

* A handshake request that cannot be sent stops the process, with reconnection
  enabled (`replica.ex:933`, `972`, `978`; the options' text at `replica.ex:185`
  promises a reconnect). `EventuallyReplicating` excepts a stopped process.
* Updates are sent during the snapshot of a second synchronisation, for data
  readers cannot see yet (`ts_proj.ex:405`).
* MOVE is announced in the database it is issued in only, not to watchers of the
  key in the target database (`README.md:287`); `EveryChangeAnnounced` excepts it.
* A Lua script returns HGETALL as a map, an empty list as an empty map, and a
  list with missing values cut or as a map (`lib.rs:241`; `README.md:236`).
  `LuaMatchesReads` states these exceptions.
* After a crash of the registry a live instance cannot be found until its next
  full synchronisation, and crashes then if its id has been taken.
* `terminate` clears the storage while its ready handle is still registered
  (`ts_proj.ex:254`).
* The ACK that answers PING or GETACK reports the offset from before the chunk
  that carried it (`replica.ex:1086`).
* A watch registered under `nil` or `false` cannot be removed (`watch.ex:194`).

## Proofs

For every value of the constants, from the named assumptions of the modules,
which TLC evaluates in the runs: `ReplicaConstants`, `ProjConstants`,
`ReplicationConstants`, `RegistryConstants`, `WatchConstants`,
`SentinelConstants` (types of the bounds, `Nil` is no member, names are pairs of a
database and a key), `StorageAssumption` and `CommandsAssumption` (above). In
each module the theorem `...Inductive` has the inductive invariant; the other
theorems follow from it.

* `ReplicaProofs`: `TypeCorrect` and the three invariants of the replica. Their
  conjunction `IInv` is inductive. `ReconnectOwned` is inductive only with its
  counting parts: a timer that fires moves the attempt from `armed` to the
  mailbox, so "at most one message, and not both" has to be part of it, and so
  has "no reference unless an attempt is on its way", without which a stale
  message could start a second connection. The proof has one lemma per
  invariant (`ReconnectStep`, `SocketStep`, `AckStep`), each with one case per
  action, and lemmas on what `Head`, `Tail` and `Append` do to the mailbox.
* `TSProjProofs`: type correctness, `ServesCurrent`,
  `BufferOnlyInTransaction`, `NotifiedIsVisible`, `NoSilentChange` and
  `FrozenWhileLoading`. The inductive invariant `ProjInv` adds what holds inside a
  callback: the loaded storage is neither the served nor the registered one
  (`LoadsApart`), a swap has nothing left to load (`SwapsReady`), what is buffered
  while a swap is under way belongs to a transaction (`HeldBack`), flushed
  commands are already in their storage (`ExecutedFirst`), and watchers know the
  loaded storage once `Init` has been sent (`InitTold`, `Announced`). The lemmas
  `EffectsEmpty`, `EffectsType` and `EffectsConcat` say what the effects of a
  concatenated history are.
* `ReplicationProofs`: type correctness, `OffsetTracksStream`, `VisibleExact` and
  `TxAtomic`. `RInv` contains `ProjInv` and says what each stage holds: the stream
  is made of whole transactions and follows its SELECTs (`StreamOK`); link, parser
  state and offsets fit each other (`LinkOK`); a buffer holds the beginning of one
  transaction (`BufferOK`). Its centre is `Pipeline`: storage, buffer and
  batch, one after the other, are exactly the snapshot as far as it was delivered
  and the commands the parser has consumed since. A chunk lengthens both sides by
  the same commands (`CleanParse`, `DataStep`), a callback moves commands from one
  part of the left side to another, and `FullresyncStep` and `ContinueStep` start
  it again. `TargetClosed` and `HandleExact` carry this over to what readers see:
  the served storage, or the whole one they keep while another is filled. The
  lemmas are about `Handed` (`HandedAppend`, `HandedConcat`), the part of the stream
  between two commands (`Held`), and the database a SELECT leaves (`LastDb`).
* `RegistryProofs`: type correctness, `OneOwner`, `SwapAccepted` and the action
  property `KeepsHandle`. `IInv` relates each message in the mailbox to what its
  sender is doing (`MailboxFits`), allows one request per process (`OneRequest`),
  and keeps an accepted instance in the table (`StaysRegistered`); without these
  a registration of a process that died in between would break `OneOwner`.
* `WatchProofs`: type correctness, `MonitoredOrGone`, `NoLeak`, `LookupsExact`, and
  `WatchImplementsTable`, the refinement of `WatchTable`, with one lemma per
  action. `WInv` has each pair of maps as a map and its inverse (`Coupled`), the
  indices as a bijection (`Indexed`), the tree as the one tree that a set of
  watches has (`TreeOf`: its nodes are the paths to the names, no more), and who
  has been reported (`Told`). `InsertExact` and `DeleteExact` are the two lemmas on
  the tree: pruning keeps what another watch needs.
* `SentinelProofs`: type correctness, which says which connections are open in
  each phase, and `UsesVerifiedServer`. The strengthening is `HadCovers`.
* `StorageProofs`: all properties of the storage and the reads. `MapOK`, the
  inductive invariant, says that all values are good: each has one type, a list is
  a list of byte strings, sets and hashes are finite, no collection is without an
  element, and the halves of a sorted set `Agree`. `NoEmptyCollections` and
  `ZIndexMatchesEntries` are parts of it; neither is inductive alone, since a list
  stays non-empty only as long as what is pushed and cut are lists, and a pop that
  trusts a stale index would leave an empty set. `Outcome(d, e, K)` is what a
  command does to one database: `e` is good and differs from `d` at the keys `K`
  only. There is one lemma for each way of changing a key (`PutOutcome`,
  `DropOutcome`, `ThenOutcome`), one for each list and sorted-set operator (the loops
  of LREM, ZADD and the weighted sums by induction over their steps), one for each
  family of commands with `K` the keys they are announced for (hence
  `EveryChangeAnnounced`), and `DispatchOutcome` for all of them. Every command
  that the code dispatches is covered, so a handler that forgets to remove a key,
  to change one half of a sorted set, or to announce a key fails its own lemma.

  The other properties follow from `MapOK` state by state. They rest on the
  order: in a finite chain the ranks are the numbers below its size, each of
  one element (`ChainRanks`), so `Ascending` and `Ordered` are the only sorted
  listings of a set and an element stands at its rank.
  * `RemovalsMatch`. What LTRIM and LREM keep is a `Selection` of positions, and so
    is the reference. The loop of LREM is followed step by step, from the front and,
    in a mirror image, from the back, with the invariant that it has kept exactly
    the positions before the current one that the reference keeps. A range of ranks
    removes a segment of the ordered index, and a pop of at least one member its
    first or last members.
  * `MovesConserve`. `CountOf` counts the occurrences of an element; an element taken
    off one end and put on another changes two counts by one, or none.
  * `StoresMatchReads`. Both sides compute the same set, the STORE command after it
    has deleted a destination that is not among its sources, and a set has one
    listing.
  * `ReadsAgree`. A member has one pair in the index (from `Agree`), its rank is its
    place in the listing, and a range of scores is a segment, the difference of two
    ranks long.
  * `ScansSurviveWrites`, an action property, needs `MapOK` before and after the
    step and nothing of the command in between: a page is a beginning of what lies
    beyond its cursor, so the last page holds all that lies beyond the last element
    of the first, and the first all that stays on the near side of it.
  * `LuaMatchesReads`. A list without missing values has one border, so a script
    returns it whole; the lemmas go through the reads by the shape of their reply.
* `MailboxLemmas`: what removing and appending does to the messages in a mailbox,
  and `LeastNumber`. The provers cannot use the library's induction theorems; a
  proof by induction over a number takes the least member of the set of
  counterexamples instead, and a recursive function is shown to exist by the same
  argument (`TableExists`, `ScanExists`, `AddsExist`,
  `SumsExist`).

Only model-checked:

* everything under fairness (`EventuallyReplicating`, `CleanResyncServesMaster`,
  `DeadForgotten`, `CallsEnd`, `IdFreed`, `EventuallyConnected`): liveness is out of
  the prover's reach;
* the parsers (`DeliversExactly`, `ChunkingIrrelevant`, `SnapshotBeforeStreaming`):
  they are recursive operators over their input, and `Listpack`, `Rdb`, `RdbFormat`
  and `ReplicaParser` stay with TLC.

`Replication`, `Watch` and `Registry` have a `TypeOK` that no run lists: it says
nothing of the code by itself; it is proved as the first part of the inductive
invariant.

## Not modelled

The command parser and filter are a table from argument lists to tuples, a clause
per command and without state; `Storage` starts from the tuples. The Lua
interpreter and the reading and printing of doubles are
external; scores are integers, without infinities, NaN and rounding. Of the
storage HINCRBYFLOAT is left out (masters propagate it as HSET, and the parser
has no clause for it), and so are SRANDMEMBER and HRANDFIELD (random) and the
errors for malformed terms, which neither the parser nor the API produces. ACKs
to the master, logging and the wording of errors have no property. The benchmark
tooling is no part of the product.

## Where to go on

The safety properties are proved as far as the prover reaches. A proof about the
parsers would need them written without recursive operators, as functions of a
position in the input; that of `ChunkingIrrelevant` would come first, since
the buffer of the code is what makes it hold. HINCRBYFLOAT and scores that are not
integers need a model of doubles. The command parser could be added as one more
table in front of `Storage`.
