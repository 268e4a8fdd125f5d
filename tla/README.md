# A verification project for Meridian Space Academy

The repository is a Rust course with two tracks. The *database track* (`src/crates/database-track`) builds a
storage engine: pages, relation files, and four buffer pools. The *foundation track*
(`src/crates/foundation-track`) builds concurrent services: queues, an expiring store, telemetry pipelines,
network clients and servers. This directory holds TLA+ specifications of it, the TLC configurations that check
them, and TLAPS proofs.

Paths below are relative to `src/crates/database-track/src/module1/` (DB) and
`src/crates/foundation-track/src/` (FT).

## 1. Inventory

| Component | State it keeps | Operations | What is hard | What makes it correct |
|---|---|---|---|---|
| Buffer pool V3, `DB/project1/buffer_pool_v3.rs` | sharded page table (`Ready`/`Loading`/`Evicting`), frames (state, data, pin count, referenced, dirty), clock hand | `fetch_page`, `flush_all`, guard `read`/`write`/drop | I/O with no table lock held, four kinds of lock, retries, failed I/O in the middle of a replacement | a page is in one frame, a pinned frame stays, no write is lost, nobody waits for good |
| Buffer pools V1, V2, `DB/project1/buffer_pool{,_v2}.rs` | the same under one lock | the same | locks held across I/O and across a wait for a write closure | the same, and no deadlock |
| LRU pool, `DB/part2/buffer_pool.rs`, `page_handle.rs` | page table, LRU list, frames, under one mutex | `allocate_page`, `fetch_page`, `flush_all`, handle `read_page`/`modify_page`/drop | a failed read half-way through a replacement | no write is lost, handles keep their page |
| Relation files and disk manager, `DB/project1/{relation_file,disk_manager}.rs` | open files per relation and segment, an allocation lock each | `create_relation`, `get_relation`, `allocate_page`, `read_page`, `write_page` | replacement of a file in use, segment arithmetic | no page number is handed out twice |
| Pages, `DB/part1/page.rs`, `DB/part3/slotted_page.rs` | header, slots, records | `insert`, `delete`, `compact` | free space that several paths compute | records survive, free space is what is free |
| Broker (module 1), `FT/module1/project1.rs`, `FT/bin/async_telemetry_broker.rs` | sessions, broadcast channel, shutdown watch | accept, read a frame, broadcast, receive, drain or force the end | lagging receivers, a shutdown in the middle of a frame | a handler receives each frame or is told that it missed it |
| Command queue (module 2), `FT/module2/project2/cmd_queue.rs` | bounded heap, shutdown flag, two condition variables | `push`, `pop`, `shutdown` | lost wakeups | priority order, nobody waits after shutdown |
| Unbounded command queue (module 2, part 2), `FT/module2/part2/command_queue.rs` | heap, one condition variable | `push`, `pop_blocking` | notifies after it released the mutex | the same, without capacity and shutdown |
| Expiring store (module 3), `FT/module3/db.rs` | entries, expirations, shutdown flag, a `Notify` | `get`, `set`, drop of the guard, purge task | the purge sleeps while deadlines change | an expired key is purged, a live one is not, the task ends |
| Aggregator (module 3, part 1), `FT/module3/part1/aggregator.rs` | mailbox, buffer | send a frame, ask for the depth, drain | a full buffer drops, a caller goes while a reply is due | the buffer is the newest frames since the last drain; requests are answered |
| Telemetry pipeline (module 3), `FT/module3/project3/` | source registry, channels, router, fan-in, fan-out, archive | add/remove source, route, archive, shut down | blocking sends between tasks that stop one another | every accepted frame is delivered or counted as lost, shutdown ends |
| Station server (module 4, part 1), `FT/module4/part1/connection_processing.rs` | connections, frame channel, shutdown watch | accept, read, forward, shut down | a full channel and a shutdown | the frames of a station come in order, without a gap |
| Radar receiver (module 4, part 2), `FT/module4/part2/radar_detection.rs` | token, channel, two join handles | receive a datagram, process, `close`, drop | the end of a channel whose sender the guard holds | an accepted detection is processed, `close` returns |
| Ground-station client/server (module 4), `FT/module4/project4/` | session state, attempts, TLE refresh task, accept loops | connect, read, refresh, reconnect, shut down | timeouts against data and shutdown, tasks that outlive a session | the published state is true, both sides stop when told |
| Batching server and clients (module 5), `FT/module5/project5/{server,client,shutdown}.rs` | connection permits, batches | accept, read, process a batch, reconnect, shut down | permits on every way out, shutdown against a batch | permits are given back, a connection loses less than a full batch at its end |
| Framing (module 5), `FT/module5/project5/{connection,frame}.rs` | read buffer | `read_frame`, `write_frame` | frames that come in pieces | frames arrive whole and in order |
| The rest (metrics, session tables, validation, benches, demos, examples, module 6) | little or none | | | see `PROJECT.json` for why each is left out |

The components interact through calls and channels. In the database track a pool calls the disk manager (or
`PageFile`), which calls a relation file. Clients share a pool by `Arc` and reach a page through guards, whose
drop is the release. In the foundation track tasks share channels, `Notify`/`Condvar` objects and cancellation
tokens or watches.

`PROJECT.json` lists, under `hazards`, each place where this code is hard to test, at its line, with the
properties that cover it, or why none does.

## 2. What is modelled

### PageMemory: what a buffer pool promises

`PageMemory.tla` is the abstract specification. A memory of pages (`mem`), the pages each thread has guards of
(`held`), and the thread that is writing a page (`writer`). A client acquires a page, begins and ends a write
closure, or writes in one step, and releases. There are no frames, no store and no failures: a pool that loses
a write, hands out a stale page, or lets two writers in, does not implement it.

### BufferPoolV3

`BufferPoolV3.tla` models the pool that does its I/O outside the table locks. It is the one where
interleavings matter most, and thus came first.

*Grain.* A step is one critical section (a shard lock, with the frame's state mutex inside it), one operation
on an atomic, or one store call. What is merged, and why:

- `try_reserve` pins with a compare-exchange and undoes it if the recheck fails. Both happen under the shard
  and state locks, and a pin is otherwise taken only under one of them, so the transient pin is seen by nobody
  who acts on it.
- `WriteBack` includes the reset of `dirty`, and `Load` the swap of the data and the resets after it: the
  frame is `Evicting`, no guard on it exists, and no other call reads these fields.
- `Publish` sets the state and the table entry under the shard lock of the page.
- A flush takes the data read lock, copies, writes, and clears `dirty` with the lock still held. The
  acquisition is merged with the write, the clearing is a step of its own, and `ReadLocked` keeps writers out
  between the two. The test of `dirty` comes before the lock and is a separate step.
- `wait_for_active_load` looks at one frame per step (`Scan`).

*Names.* Actions follow the functions: `Fetch`, `Hit`, `WaitForEntry`, `Miss`, `Claim` for `fetch_page`;
`Tick`, `Snapshot`, `ReserveFails`, `SecondChance`, `Reserve`, `Scan` for `choose_victim` and its helpers;
`WriteBack` to `Finish` for `load_claimed`; `Restore`, `Unreserve`, `Abandon`, `GiveUp` for the failure path;
`BeginWrite`, `EndWrite`, `DropGuard` for guards; `FlushAll` to `FlushAbort` for `flush_all`. `pc[t]` is where
a thread is, `call[t]` its locals. `table` joins all shards: a shard only decides which entries share a lock,
and every step here touches one entry.

*Pending.* A `Pending` is named by the thread that created it, as a thread has one at a time. `finish` sets a
flag under the mutex and notifies all, and `wait` tests the flag under the same mutex, so a finished Pending
releases its waiters for good.

*The store.* `read_page` and `write_page` succeed or fail at any call. A failing write leaves the old page,
the new one, or a page whose checksum no longer fits (`write_all_at` is a loop of partial writes), which can
be read no more (`Load` is not possible, `LoadFails` is). A write of the bytes that are there already changes
nothing, however much of it is done (`AfterFailedWrite`).

*Clients.* A thread does not fetch a page it already holds a guard for (two guards on one page are two
threads), has one write closure open at a time, and does not call `flush_all` inside one (it would wait for
its own lock). It may fetch other pages inside a closure.

*Left out.* The statistics counters (relaxed, read for display only), the decoding of records, the hash that
picks a shard, panics in closures, overflow of `clock_hand` (a `usize`; the model has it modulo the number of
frames).

### LruBufferPool

`LruBufferPool.tla` models the pool of part 2: one mutex for table, list and frames, one for the file, taken
inside it.

*Grain.* `pin_page`, `flush_all`, `modify_page` and the drop of a handle hold the state mutex from start to
end, so each is one step, and each way it can end is an action: `pin_page` is `Hit`, `Load`, `WriteBackFails`,
`ReadFails` or `Exhausted`; `flush_all` is `FlushAll` or `FlushFails`. `allocate_page` appends under the file
mutex alone (`AppendPage`, `AppendFails`) and then calls `fetch_page`; `alloc[t]` is the page of a thread
between the two. The failed calls are whole handlers: what was done before the error stays done (`Evicted`,
`TableWithout`, and the frames flushed before the one that failed). `read_page` and `page_count` change
nothing. A poisoned lock needs a panic under a lock, and nothing there panics.

*Failures.* `Faults` says which happen. `"write"`: a write returns an error and leaves the old or the new
page. `"torn"`: or a page whose checksum does not fit (`Torn`). `"read"`: reading a page of the file fails,
and the buffer, which is the frame's own `data`, has what it had or `Garbage`. `"missing"`: a client asks for
a page that is not in the file, or whose allocation failed; `fetch_page` takes any `u32`. A page that is torn
cannot be read, whatever `Faults` is. A write puts a fresh checksum on what is in the frame, so garbage that
is written is readable. The checksum does not cover the page header; a tear within it is not told apart.

*The list.* `lru` is the list as a sequence. `MoveToFront` describes `retain` and `push_front` for a frame
that is in the list once, which `LruListsFrames` says: as many places as frames, and every frame in one.

*Clients.* A thread has at most one handle of a page (two handles are two threads). Handles can be kept for
ever and dropped in any order.

### ClockPool, BufferPoolV1, BufferPoolV2

The first two pools of project 1 differ in how they lock the table and in little else. `ClockPool.tla` models
what they have in common, after the text of V2: usage counts, the sweep of `choose_victim` in
`0..=MAX_USAGE_COUNT` passes, replacement, flush, guards. `BufferPoolV1.tla` adds one mutex around all of
`fetch_page` and `flush_all` (`StepV1`, `SpecV1`); `BufferPoolV2.tla` a read-write lock: hits and flushes
share it, a miss takes it alone, after a second lookup (`StepV2`, `SpecV2`).

*Grain.* Drops and writes of guards take no table lock, so the sweep takes a step per frame (`SkipPinned`,
`SecondChance`, `Reserve`). V2 pins a frame it gives a second chance for a moment; nobody sees that, as only
another holder of the table lock would act on it. A reserved victim can be reached by nobody else, so a
replacement is one step, with three ways to end: `Load`, `WriteBackFails`, `ReadFails`. The flush of one frame
is one step, since its look at `dirty`, its write and the clearing of `dirty` are under the table lock of V1
and under the frame's state mutex in V2, and a writer keeps the flush waiting. Locks are not variables: who is
at which label says who has them.

*Clients* call the pool outside their write closures. Inside one, `flush_all` can wait for the closure with
the table locked while the closure waits for the table: a deadlock that V3 was written to be free of. A
failing write may leave a torn page, unless it writes what is there already.

### PriorityQueue: what a command queue promises

`PriorityQueue.tla` is the abstract specification of both command queues. Every call takes effect at once: a
push inserts or is rejected, a pop removes a command that no other is before, or finds the queue closed and
drained. There is no lock, and nobody sleeps. Its fairness says that some push gets a free place, some pop
gets a command, and after `closed` every call ends.

### CommandQueue

`CommandQueue.tla` models `cmd_queue.rs` of module 2: a heap, a capacity and a shutdown flag under one mutex,
and the condition variables `not_empty` and `not_full`.

*Grain.* A step is what a thread does from the time it has the mutex until it releases it, returns, or goes to
sleep (`Condvar::wait` releases the mutex and sleeps in one go). So each way through the loop of `push` is an
action (`PushRejected`, `PushAccepted`, `PushWaits`) and each way through that of `pop` (`PopCommand`,
`PopDrained`, `PopWaits`). `pc[t]` is `"push"` or `"pop"` for a thread on its way to the mutex, for the first
time or again, and `"not_full"` or `"not_empty"` for a sleeper. The notification is part of the step, as
`notify_one` is called with the mutex held. Metrics are counted with the mutex held too.

*Condition variables* are the ones of `std`: `notify_one` wakes any one of the sleepers, if there is one
(`NotifyOne`); a woken thread has to compete for the mutex with those that have never slept; and a sleeper may
wake with no notification (`SpuriousWakeup`).

*Commands.* `Command` is neither `Clone` nor `Copy`, and `push` takes it by value: a command is pushed once
(`unsent`). Of its fields, the model has those that `cmp` looks at, `Priority` and `IssuedAt`, and whether it
is of kind `SafeMode`. The heap is a set, and `Top` hands out any command that no other is before, as a
`BinaryHeap` promises no more about equal ones. The metrics that the monitor thread loads and `is_shutsown`
change nothing and are left out, as are poisoned locks: nothing panics under the mutex.

`OwnedCommands.tla` declares the threads and commands that both queues are used with, and what is assumed of
them, so that one run can share them.

### UnboundedQueue

`UnboundedQueue.tla` models the queue of part 2. Its `push` releases the mutex at the end of the statement
that pushes, and notifies after that, so it has two steps, `Push` and `Notify`; between them a consumer can
take the command, or find the heap empty and fall asleep. It has neither capacity nor shutdown, and it orders
by priority alone. It implements the same `PriorityQueue`, with a capacity nobody reaches.

### TelemetryPipeline

`TelemetryPipeline.tla` models `pipeline.rs`, `telemetry_system.rs` and `source.rs` of module 3: what `run`
spawns and what callers do to it.

*Grain.* A step is what a task does between two awaits that can suspend it: it takes a message (`TaskRecv`,
`RouterTakes`, `FanInTakes`) or hands one on (`TaskForwards`, `RouterSends`, `FanInSends`), so a task holds a
message while it waits for room (`hand`, `routing`, `merging`). `processer_fan_out` and `archive_consumer`
never wait for room; they have one step per message. The calls of `TelemetrySystem` hold the state mutex from
start to end and use `try_send`, so each is one action; a call that is refused changes nothing.

*Feeds.* A number in `Feeds` stands for one successful call of `add_source`: the channel it creates, the
receiver that goes with the control message into a feed task (`receiver`), and the `Source` the caller gets
(`callers`). A channel is closed when neither the registry nor a caller has its sender (`Senders`). The same
source may be added again: then the registry and `feed_handles` forget the first feed, and its task goes on by
itself.

*Ends.* `RouterReturns` drops all the router owns: the control channel, with receivers in unread messages, and
the internal channel. Channels are closed by the end of the task in front of them, so the fan-in ends after
the router, the processor after the fan-in, the archive after the processor. An aborted task stops at an
await, with what it holds (`cancelled`, `TaskEnds`).

*Archive.* Of the broadcast, the model has how many frames the archive can read (`unread`) and how many were
dropped on it since (`overrun`), which is what `RecvError::Lagged` reports.

*Properties.* The frames of one source and one priority travel through eight places: the source's channel, the
hand of its task, the internal channel, the hand of the router, the channel of the priority, the hand of the
fan-in, the channel to the processor, and the frames processed. `Stages` lists them, the furthest first;
`KeepsOrder` says that the frames of one source and priority are in order along all of them (and so none is
there twice), `NothingLost` that every frame sent is in one of them. `EndsInOrder` says which channels are
empty when a task has ended.

*Left out:* payloads and `Frame::sequence`, which is computed from the source and tells no two frames of it
apart (the model numbers frames by itself); the statistics watch; the random choices of `adding_source`;
branches for a receiver that is gone, which only the end of a later task before an earlier one could bring
about.

*A limit that counts for the wrong kind.* `add_source` looks at both limits whatever the kind of the source
(`Refused`), so with 2 replays a new uplink is refused, and with 48 uplinks a new replay, although the
messages it logs speak of the limit of one kind each. `WithinLimits` holds all the same.

### RelationFiles

`RelationFiles.tla` models `disk_manager.rs` and `relation_file.rs`. `opened` lists the `RelationFile`s ever
opened, `relations` is `open_relations`, `size` and `body` are the files themselves. A file is measured in
half pages, so that a write which is cut leaves a length that is no multiple of a page.

*Grain.* `create_relation` opens before it takes the write lock (`CreateRelation`, `InsertRelation`).
`get_relation` looks under the read lock (`GetRelation`) and again under the write lock (`OpenRelation`,
`OpenFails`). `allocate_page` takes the lock of its own `RelationFile` and reads the length (`AllocatePage`),
counts the pages with a second look (`PageCount`), and writes zeroes (`WriteZeroes`, `WriteFails`).
`write_page` takes no lock; it puts the page there (`WritePage`) or is cut in it (`WritePageFails`). Reads
change nothing and are left out.

*Properties.* Two `RelationFile`s of one file have two allocation locks, so a page can be given twice; and
page numbers begin with 0 in every segment. Both are what the code does. `FilesInv` and `PagesKept` are
therefore about a file that was opened once and is the only one pages were allocated from (`Sole`); that
`get_relation` alone never opens a file twice is a part of `FilesInv`.

### RecordStore, SlottedPages

`RecordStore.tla` says what a page of records promises: a record keeps its slot and its content until it is
deleted or the page is initialized. `SlottedPages.tla` implements it with bytes. `layout` chooses between
`Page` (`project1/page.rs`) and `SlottedPage` (`part3/slotted_page.rs` with the header of `part1/page.rs`),
which differ in the room they ask for, in `insert_compacting`, which only `Page` has, and in what a new page
says about its free space. Calls have `&mut self`, so each is one action: `Insert`, `InsertCompacting`,
`Delete`, `Compact`, `Initialize`; an insert without room changes nothing and is no step. The directory is a
sequence apart from the bytes of the records; that they do not meet is a part of `PageInv`
(`FromBytesAccepts`). *Left out:* the header's other fields, the checksum, TLE records.

### ExpiringDb

`ExpiringDb.tla` models `db.rs` of module 3. `Set` and `DropDb` are what happens under the mutex; the
notification comes after it is released and is a step of its own (`notifying`, `NotifyOne`). A `Notify` keeps
one `permit`. The purge task looks at the flag (`CheckShutdown`), purges under the mutex (`Purge`) and waits
for the deadline it was given or for the permit (`Woken`). `Tick` is the clock. `get` changes nothing, values
are left out.

### GroundLink

`GroundLink.tla` composes the client and the server of module 4's project with the connection between them. Of
the client it has the loop of `run_client` (`Top`, `ConnectOk`, `ClientConnectFails`, `ClientWakes`), the
session with its biased select (`ClientReadsFrame`, `SessionLost`, `SayGoodbye`, `EndSession`), the TLE
refresh task with the retries of `fetch_tle` (`RefreshTick`, `FetchReturns`, `RefreshStops`) and the consumer
of frames; of the server the accept loops of `tcp_task` and `http_task` (`TcpAccept`, `AcceptLoopStops`,
`AcceptLoopFails`) and `run_connection` (`ServerTick`, `ServerReads`, `ServerQuits`, `ServerExits`). `session`
is the state that the client publishes. Seconds pass only while the client sleeps or connects, which is what
the window of 300 seconds is compared with. *Left out:* the jitter of the backoff, the bytes of frames and TLE
records, `state_monitor` and `tle_handler`, which keep no state.

### BatchServer, FrameStream

`BatchServer.tla` models the server of module 5 and its clients: the listener takes a permit before a
connection (`Acquire`, `AcceptConnection`, `AcceptFails`), a handler collects frames and hands full batches to
`spawn_blocking` (`CollectFrame`, `Processed`), and ends at the end of the stream, at an error, or on shutdown
(`ReadEnd`, `HandlerReadFails`, `RecvShutdown`), with what it has collected. `StopServer` drops the listener
and then the senders; `Drained` waits for the last handler. Clients connect with backoff in a window
(`ConnectSender`, `SenderConnectFails`, `SenderWakes`), send (`Send`, `SendFails`) and stop. `waited` is the
time since the client began to connect: the sleeps, and what each failed connect takes, which has no timeout;
the jitter of the sleep after it is part of that time (`AttemptTimes`). What a batch becomes (filter,
deduplication, unstable sort) is the operator that `BatchInv` is about, for all the batches that handlers
collect.

`FrameStream.tla` takes the framing apart that `BatchServer` takes as given: frames are sequences of bytes,
`ReadBuf` appends any prefix of what is on the stream, `ParseFrame` cuts a frame out of the buffer if
`TryExtractFrame` finds one, by its length or, without one, by its line end. The writer can go in the middle
of a frame, and a read can fail at any time (`ReadBufFails`). The header is two bytes here, of which one is
the length.

*Left out:* the timestamps and the other fields of the header, and `IdPool`: a client takes one id from a pool
of its own.

### Aggregator

`Aggregator.tla` models the actor of module 3, part 1. Calls put a message into a bounded mailbox and wait for
room (`SendFrame`, `SendRequest`) and for a reply (`Await`); a caller can be dropped at any await (`Leave`),
and its reply with it. The actor takes a message per step (`TakeFrame`, `TakeDepth`, `TakeDrain`) and ends
when no handle is left and the mailbox is empty (`ActorEnds`).

### RadarFeed

`RadarFeed.tla` models `UdpSystem`: the receiving task, whose select is biased towards the cancellation token
(`Transmit`, `TransmitStops`), the future that processes detections (`Process`, `SenderClosed`), and the
guard. `close` cancels, joins the first task, drops its own sender and joins the second (`BeginClose`,
`TransmitJoined`, `RecvJoined`), and can be given up in between, which leaves the rest to `DropGuard`. The
sender that the guard holds is why the order matters: as long as it lives the second task does not end.

### Broker

`Broker.tla` models the broker program of module 1. A session reads frames, half of one first (`ReadHalf`),
and broadcasts (`Broadcast`); a shutdown drops a half-read frame with the future that was reading it
(`SessionSeesShutdown`). Handlers receive from the broadcast channel, which overwrites what is older than
`Retained` frames (`Receive`, `Lagged`, `Closed`). `main` accepts, stops on Ctrl-C, and awaits handlers and
sessions for ten seconds (`AllDrained`, `Deadline`). A clean drain has delivered everything; after the
deadline nothing is promised.

### StationServer

`StationServer.tla` models the server of module 4, part 1: the accept loop (`SpawnHandler`, `StopAccepting`),
a handler per connection with its biased select (`ReadStationFrame`, `HandlerSeesShutdown`, `SessionEnds`),
and the send into the bounded channel, which waits for room whatever the shutdown says (`ForwardFrame`,
`ForwardFails`). The consumer is that of the example; it can go before the stations do (`ConsumerGoes`).
`bidirectional_handler` and `write_framed` are called by nothing.

### The checks

`MCBufferPoolV3` runs the specification as it is; `MCFlush` bounds the number of calls and of writes, and
`MCSweep` scripts them. `MCLru` runs the LRU pool unbounded but for the length of the file, `MCLruFlush` with
the writes that may fail. Three properties speak of more than the present state, and a module of their own
adds a history variable to the pool for each: `FlushHistory` keeps what a `flush_all` owes to its caller,
`SweepHistory` which frames have been in use since a sweep began, and `LruHistory` the content each page was
last given. `MCTelemetry` is the pipeline with two feeds, or one. Three modules run several small systems that
share nothing: which one a behaviour is about is chosen in its first state, and the variables of the others
stay as they are. They extend the modules of the parts, so what they check are the very definitions that the
theorems name. `MCStorage` has the pools V1 and V2 (`locked_pools`), the files of a relation and a page of
records (`storage`), of which `Parts` says which a run is about; `MCQueues` the two command queues, called by
anybody at any time; `MCServices` the eight services. Only the liveness of the parts is joined.

| Run | Instance | Shows |
|---|---|---|
| `pool_one_frame` | 2 threads, 2 pages, 2 contents, 1 frame, no bound on calls | the inductive invariant, of which guards that keep their page are a part; with failing and torn writes clean frames that match the store, that the pool implements `PageMemory`; under `FairSpec` every reservation ends, and calls return once the clients begin nothing new |
| `pool_two_frames` | `MCFlush`: 2 threads, 3 pages, 2 contents, 2 frames, 4 calls in `Normal` mode, 2 writes | acyclic waits with two reservations at once, when the clock has a choice and pages move between frames; when `flush_all` answers Ok, what was written before it was called is in the store |
| `pinned_error` | `MCSweep` | a disagreement, below |
| `locked_pools` | V1 or V2: 2 threads, 3 pages, 2 contents, 2 frames, usage up to 1, no bound on calls | V1 and V2 implement `PageMemory`; pins, guards and table agree; clean frames match the store with torn pages too; the passes of a sweep suffice, and it fails only when every frame was pinned as it began |
| `storage` | files: 2 clients, 2 segments of 2 pages, files of up to 3 pages, 2 opens. Or a page of 8 bytes: header 1, slots of 2, records of up to 3 bytes, both layouts | page numbers are given once, allocation zeroes no written page, with writes that fail and are cut; records share no byte, survive compaction, and are refused only when they cannot fit |
| `lru_ownership` | 2 threads, 3 pages, 2 frames, all faults but torn pages | the invariants that hold whatever fails |
| `lru_store` | the same, writes that fail and tear pages | one frame per page, clean frames match the file (both in `StoreInv`), the pool implements `PageMemory`, a flush that answers Ok stored everything |
| `lru_missing_page` | 4 pages, requests for pages that are not there | a disagreement, below |
| `queues` | either queue with 4 threads and 4 commands; the bounded one has room for 2 | no lost wakeup, also with the late notification of part 2; shutdown wakes all and metrics agree (`QueueInv`, `UnboundedInv`); each queue implements `PriorityQueue` with its progress (`ImplementsPriorityQueue`, `QueuesMakeProgress`); while somebody pops, every push returns and every accepted command is dispatched |
| `telemetry_pipeline` | 2 feeds for 3 sources, 2 frames, every channel with room for one, limits of one source per kind | order, limits, nothing lost, registry and router agree, accepted frames are processed, the tasks behind the router end with nothing left |
| `pipeline_shutdown` | 1 feed, 2 frames | a disagreement, below |
| `services` | one of eight services, two clients, stations, callers or handlers each; bounds below | the purge is never asleep too long; the published session state is true; permits, batches and what a batch becomes; framing and the aggregator's buffer; the accounts of radar, broker and station server (the eight invariants from `DbInv` to `StationInv`); requests are served and every service ends when it is told to |

*Why the bounds are enough.* One frame is the tightest pool: every fetch of another page evicts, so two
threads meet each label of a replacement at each label of the other's call. Two frames add what one cannot
show: a choice of victim, a page that returns in another frame, a failed recheck. Three threads in
`pinned_error` add a bystander that moves the hand between two others. Two contents distinguish old from new.
`pool_one_frame` is not bounded in depth. `MAX_USAGE_COUNT` is 5 in the code; with 1 there are two passes,
which is what tells a first pass from a last one, but both access modes then do the same. For the LRU pool two
frames are the least that has an order to keep and an order of flushing, and three pages the least that
evicts; nothing but the file's length is bounded. The refinement is what finds lost updates; a write, an
eviction and a reload take three calls, a failed one four. A queue needs two sleepers on one side, one thread
that wakes one of them, and a newcomer that overtakes the one that was woken; one command more than fits, for
a producer to sleep; and two commands of each priority and different age for the order. Every command is
pushed at most once, so the number of commands bounds the run; pops and spurious wakeups are not bounded. In
the pipeline every channel has room for one message, so that each is full and each task blocked in some state;
two feeds are what it takes to replace one source by itself or to remove one beside another, two frames to
overtake or to fill a channel behind a task that holds one. The archive lags as soon as it has not read the
first frame when the second comes. Callers may add, remove, feed, drop and shut down in any order. The run
does not check for deadlock: after `NumFeeds` sources and a shutdown the system has stopped, and must.

In `MCStorage` a relation has two segments, so that page numbers of the second begin again with 0, and two
opens, which is what it takes to have a file open twice. A page of 8 bytes has room for two slots and three
bytes of records, so records are refused for want of a slot, of bytes, and for bytes that only compaction sets
free. In `MCServices`, time in the expiring store goes to `MaxTime` 3 and keys live 0 to 2 units: an entry set
later can expire before, with, or after another, and be overdue when the clock stops. The windows are those of
the code: 300 seconds for the ground link, 180 for the batching clients, with delays doubling to 32; a failed
connect takes no time or 100 seconds, in both. One connection permit for two clients makes the listener wait;
a batch is full with two headers, of which there are two of one kind and different age, one of another kind,
and one in error. A frame header of two bytes, whose last one is the length, has payloads with line ends and
halves of line ends in them, with and without a length, and the stream is cut anywhere. The aggregator has a
mailbox and a buffer of two and four frames, so that it drops; the radar channel takes two of four datagrams;
the broadcast channel keeps one of three frames, so that handlers lag; the station server's channel has room
for one.

*Fairness.* Weak fairness of each thread's steps inside a call, which is what a scheduler that runs every
runnable thread gives, and of the end of a write closure. Nothing obliges a client to call, to drop a guard,
or the store to fail or to succeed. Fairness of `PoolStep` is per thread and not per action, so a store that
fails for ever is allowed. `CallsReturn` is about clients that begin no call and no write closure any more. As
long as they do, one call may be overtaken for ever: a fetch whose load loses every race retries
(`wait_for_active_load`), and nothing in the code orders the retries. Reservations and waits end in any case.
In the queues, a thread that wants the mutex gets it in the end (weak fairness of `LockStep`, `CallStep`), as
nobody holds it for long. Spurious wakeups are allowed and not needed: no fairness. `PoppingServesAll`
supposes that somebody pops time and again, as the dispatcher of `bin/command_queue.rs` does. A particular pop
need not get a command while others take all; `PriorityQueue` leaves that open too. In the pipeline each task
is fair (tokio runs what can go on), and no caller is: `FramesProcessed`, of which the end of the tasks behind
the router is a part, asks nothing of them, `ShutdownCompletes` supposes that they shut down and release their
sources.

In `MCServices` the steps of tasks are weakly fair (`Working` to `PeerWaking`): tokio runs what can go on, a
connection that was closed is noticed, a fetch returns, a sleep ends. Clients, operators and networks are not:
nobody must connect, send, or say stop. Some steps get strong fairness (`PeerPatient`, `SessionPatient`,
`RefreshPatient`, `ServerPatient`). They are branches of a `select!` beside a ticker or a stream of frames,
which is polled in random order where it is not `biased` and whose other branch is ready once a period only;
and sends into a channel that is full again and again, where tokio's semaphore serves those that wait in
order. The properties are of the form `[]<>P`: what a service is told stays, so a state where it has ended
comes again and again exactly if it ends. The run does not check for deadlock: a service that was told to stop
has stopped, and must.

### Disagreements found

- **`AllFramesPinned` with a free frame** (`pinned_error`, `buffer_pool_v3.rs:300`). Two sweeps of
  `choose_victim` draw their indexes from a clock hand that all loads share. When others sweep too, a thread
  can look at the same frame twice and never at the other, and reports that all frames are pinned while one
  was unpinned from start to end of its search. In V1 and V2, which sweep under the table lock, this cannot
  happen (`ExhaustionIsReal` of `locked_pools`). `m7.2.Buffer-Pool.md:13` says the error means an undersized
  pool.
- **Two frames for one page** (`lru_missing_page`, `part2/buffer_pool.rs:107-115`). `pin_page` writes the
  victim back and takes its page out of the table before it reads the new page. When the read fails, the frame
  keeps `page_id` and `is_dirty` but the table has forgotten the page. The next fetch of that page loads it
  into another frame; an update goes there; and `flush_all`, which walks the frames, writes both copies, the
  old one last if its frame has the higher index, and answers Ok. One `fetch_page` with a page number beyond
  the file is enough. That handles keep their page and pins count handles still holds then (`lru_ownership`).
- **A shutdown that never ends** (`pipeline_shutdown`, `pipeline.rs:147-158`). On shutdown the router leaves
  its loop and awaits the feed tasks. `internal_rx` is a local of the router: it lives, unread, until the
  router returns. When the internal channel (512 frames) is full and a feed task holds one frame more, the
  task waits for room, the router for the task, and the fan-in, the processor and the archive for the router;
  releasing all sources does not help. The header of `pipeline.rs` has the shutdown reach "All tasks".
  Everything behind the router does end once it has returned (`FramesProcessed`).

### Observations without a run

What the following say about the code was met while modelling; no text of the repository promises the
contrary, or the text is too loose to be a property, so no run is about them.

- Page numbers are counted within a segment (`relation_file.rs:95`): those of the second segment repeat those
  of the first, and `write_page` finds the file by the number. `create_relation` of a relation in use gives
  the manager a second `RelationFile` of the same file, with an allocation lock of its own. `Sole` in
  `RelationFiles` marks off both.
- The header of part 1 sets `free_space_offset` of a new page to the size of the header, so a fresh
  `SlottedPage` has no room at all until its first `compact`.
- A reconnecting client of module 5 does not look at its shutdown before it is connected or its window has
  passed (`client.rs:91` has a TODO); the ground-station client sleeps its backoff through as well.
- The comment on the backoff of `gs_client.rs:347` says 1, 2, 4, 8 up to 30 seconds. The counter is
  incremented before it is used, so the delays are 2, 4, 8, 16 and then 32, before jitter.
- `project1.rs:80` says that the biased select lets a read in progress finish. What it prefers is a frame that
  is complete; half a frame is dropped with the future.
- The accept loop of module 4, part 1 returns without its handlers, and so may the example's `main`; the
  example's consumer ends at the first payload that is not UTF-8, after which every handler ends at its next
  frame.
- An error of `accept()` ends the whole accept loop of `gs_server.rs`.

### Not modelled

- *Panics in write closures of V3*, which poison the data lock of a frame, and *calls of V1 and V2 from inside
  a write closure*, which can deadlock with `flush_all`.
- *The shutdown coordinator and the pass session* (module 1), *the router of tagged frames* (module 3, part
  3), *frame validation*, *the session table, metrics and screening* (module 2): one lock, timer or counter
  each, or pure functions over a value.
- *The HTTP client* (module 4, part 3): requests through a library, retried much as `fetch_tle` does, which
  `GroundLink` has (a server may name the delay besides).
- *Arenas and frame batches* (module 5): allocators that one thread uses. *`IdPool`*: a set behind a mutex, of
  which a client process takes one id.
- *Module 6*, statistics, error types, benchmarks, demos, tests: no state of their own that outlives a call.

## 3. What is proved

### BufferPoolV3

`BufferPoolV3_proofs.tla` proves, for any number of threads, pages, contents and frames,

- `PoolOwnership`: `Spec => []OwnershipInv`, the inductive invariant;
- `TypeCorrect`, `PinsAreAccounted`, `TableAgrees`, `GuardsAreStable`: its parts, as theorems of `Spec`;
- `NoWaitCycle`: `Spec => []WaitsAreAcyclic`, so the pool has no deadlock of its own;
- `CleanFramesAreStored`: `Spec => []CleanFramesMatchDisk`;
- `PoolImplementsPageMemory`: `Spec => ImplementsPageMemory`, the refinement;
- `FlushesAreComplete`: `HistorySpec => FlushIsComplete`, over the history of `FlushHistory`.

Assumed are `PoolAssumption` (at least one frame, the null values are not real ones) and `ThreadsFinite`
(needed to count guards). TLC evaluates both on every run.

*Why the invariant is what it is.* That a guard keeps its page (`GuardsKeepTheirPage`) is what clients rely
on. A step that could break it is `Reserve`, whose guard is `pins[f] = 0`; so pins have to count the guards
(`PinsAccounted`). Pins are given back by calls as well, so each call at a label of `Pinning` counts too, and
one frame must not be counted for a call that no longer has it: a reservation is the state `Evicting(t)`
(`TableMatchesFrames`). A hit relies on the entry of the page naming a frame that is `Valid` for it, and a
restore on the old entry being still there, which are again parts of `TableMatchesFrames`. `LocalsOK` and
`FetchIsNew` say what each label may assume of the locals; `FramesFilled`, that a frame with a page has had a
content loaded. Even `TypeOK` is not inductive alone: `pins` remains a natural number because it counts.

*How the proof is laid out.* One section per conjunct and, in it, one lemma per group of actions (fetch,
sweep, load, guards, flush) with one step per action. The counting lemmas at the head (a set that gains or
loses one thread) are proved from `FiniteSetTheorems`.

*Waits.* A thread that waits for a `Pending` may itself be waited for. `WaitsAreAcyclic` is inductive next to
`OwnershipInv`: whoever is waited for has a reservation, and a thread gives its reservation up before it
waits.

*Clean frames.* `StoreInv` adds to `OwnershipInv` that a clean copy equals the stored page (`CleanCopies`) and
what a load and a flush have just put where: `FreshlyLoaded`, `FlushedClean`, and `WritersHoldGuards`, since a
write closure may not run on a frame that is replaced. A flush looks at `dirty` before it takes the data lock,
so it can write a frame that another flush has just cleaned, and fail half-way, with `dirty` clear. That is
harmless because the clean copy equals the stored page: the write, as far as it gets, puts down the bytes that
are there. The invariant carries its own argument.

*Refinement.* The content of a page is that of the frame that is `Valid` for it, else the stored one
(`MemoryInv`, which is `StoreInv` with `LoadsClean`). A write-back, a load, a publication and a flush change
nothing of it; a thread acquires a page at `Hit` or at `Finish`. At most `NumFrames` pages are held, by an
injection of pages into frames (`HeldFit`).

*Flush.* What `flush_all` owes is the set of pages whose content was not in the store when it was called.
`FlushInv` says where they are: each is in a frame, unwritten, and the walk is still before that frame
(`Before`). The lemmas are that an unwritten page in a frame is a dirty one (`UnwrittenIsDirty`), that no step
of another thread moves it to a frame behind the walk without writing it first (`UnwrittenStays`), and that a
step of the walk leaves only a frame that is clean or was just written (`FlushMoves`).

`ExhaustionIsReal` of this pool is what `pinned_error` refutes.

### ClockPool with V1 and V2

`ClockPool_proofs.tla` proves, for `SpecV1` and for `SpecV2` and with torn writes, `PoolsKeepPoolInv`,
`PoolsKeepCleanFrames`, `PoolsImplementPageMemory`, `SweepsFindOrFail` (`[]SweepEnds`: the passes of a sweep
suffice) and, over the history of `SweepHistory`, `ErrorsAreReal` (`ExhaustionIsReal`: a sweep that fails has
met no frame that was free all along). Assumed are `ClockAssumption` and `ClockThreads` (at least one frame,
null values, finitely many threads). The inductive invariant is `ClockInv`: `PoolInv`, `CleanFramesMatchDisk`,
that a frame with a page has a content (`FramesFilled`), that write closures have guards
(`WritersHoldGuards`), what each label may assume (`LocalsOK`), and that two threads are never in the
exclusive part of a fetch (`Exclusive`), which is what the mutex of V1 and the write lock of V2 give.
`BothSteps` shows that a step of either is a step of one common relation that keeps `Exclusive`; all else is
proved once. Clean frames match the store even if pages tear, as the test of `dirty`, the write and the
clearing are one step here.

*Sweeps.* A sweep that has met a frame without a pin in its first pass has a frame of which each look has
taken one usage (`WearsOut`), as nobody else moves the hand, pins or touches a frame meanwhile (`Exclusive`);
after `MaxUsage + 1` passes nothing is left to take, so it has been taken as the victim (`SweepsOK`). `Looks`
counts the looks at a frame from the number of visits and the place of the hand (`NextLook`). For the error, a
free frame that this pass has not met is still ahead of the hand (`FreeInv`), so that a pass without one had
none to meet.

### LruBufferPool

`LruBufferPool_proofs.tla` proves, for any number of threads, pages, contents and frames,

- `LruOwnership`: `Spec => []OwnershipInv`, and its parts `HandlesAreStable` and `PinsCountHandles`, for any
  `Faults`;
- `LruStore`: `ReadsSucceed => (Spec => []StoreInv)`: one frame per page, clean frames match the file;
- `LruImplements`: `ReadsSucceed => (Spec => ImplementsPageMemory)`, the refinement;
- `FlushesStoreUpdates`: `ReadsSucceed => (HistorySpec => FlushStoresUpdates)`, over the history of
  `LruHistory`.

`ReadsSucceed` (no read error, no request for a page that is not there) is what the finding above shows to be
needed; failing and torn writes are allowed.

*The argument.* A drop gives its pin back only if the frame still has the handle's page, so pins count handles
(`PinsAccounted`) because handles keep their page, and handles keep their page because a frame is replaced
only with no pin: the two are proved together. A hit pins the frame the table names, which needs
`EntriesLeadToPages`. None of this needs the reverse, that a page of a frame is in the table
(`FramesAreInTable`), which is what a failed read destroys; so it holds under any fault. With the reverse, a
page has one copy in memory, an eviction loses nothing as a clean copy equals the stored one
(`CleanFramesMatchDisk`), and reads cannot fail because a page is `Reachable` from its allocation on
(`AllocatedReachable`). For the refinement, the content of a page is that of its frame, else that of the file;
each action is shown to be a step of `PageMemory` or to change neither contents nor handles (`AppendMemory` to
`FlushMemory`). That at most `NumFrames` pages are held is an injection of the pages into the frames
(`HeldFit`). The move to the front keeps all frames in the list because the moved one was in it (`ListMoved`).
A flush of several copies of one page leaves the last of them; that a last one exists follows from
well-foundedness instead of induction (`NatMin`, `LastFrameExists`). `FlushesStoreUpdates` needs no invariant
about flushes: the content each page was last given is always the one it has (`LatestIsCurrent`), and a flush
that returns Ok has made that of the file the same.

### CommandQueue and UnboundedQueue

`Queues_proofs.tla` proves, for any finite sets of threads and commands, any priorities and any capacity,

- `QueueCorrect`: `Spec => []QueueInv`, and `UnboundedCorrect`: `UnboundedSpec => []UnboundedInv`, the
  inductive invariants;
- `NoLostWakeup`, `ShutdownWakes`, `UnboundedWakeups`: its parts that matter, as theorems of `Spec`;
- `QueueImplements`, `UnboundedImplements`: the refinement of `PriorityQueue` (`ImplementsPriorityQueue`,
  `UnboundedImplementsQueue`).

Assumed are `CommandsAssumption` and, for the bounded queue, `QueueAssumption` (finite sets, natural
priorities), which TLC evaluates.

*The argument.* That nobody sleeps beside a command cannot be read off the state: a sleeper and a command may
well be there together, while a woken thread is on its way. `WakeupsSuffice` counts instead: as long as a
consumer sleeps, at least as many are on their way as there are commands. A push adds one to both sides, or to
the second when no consumer sleeps; a pop takes one from both; a thread falls asleep only when the heap is
empty; a spurious wakeup adds to the first. When the woken thread comes too late, the one that overtook it was
counted as well. For producers the same holds with free places. With the late notification of part 2, the
pushers between `Push` and `Notify` count as wakeups on their way. `CommandsOnce` is needed so that a push
adds one command, not none.

*Only model-checked:* `QueuesMakeProgress` and `PoppingServesAll`, which are liveness.

### TelemetryPipeline

`TelemetryPipeline_proofs.tla` proves, for any number of sources, feeds and frames and any capacities of the
channels,

- `FramesKeepTheirOrder`: `Spec => []PipelineInv`: types, order, limits and the ends of the tasks;
- `NoFrameIsLost`: `Spec => []NothingLost`;
- `RegistryAndRouterAgree`: `Spec => []RegistryAgrees`.

Assumed is `PipelineAssumption` (finitely many keys, natural bounds, null values).

*The argument.* The properties speak of eight sequences, and what a step does to them is one of four things,
each a lemma about any eight sequences: the head of one goes to the end of the next (`Moved`), a frame of
another source or priority comes in (`Inserted`), some are given up (`Thinned`), a new frame with a greater
number enters the last (`Added`). The proof of `Moved` gives the place every frame of the new state had in the
old one. Needed besides are that what a feed's channel and task hold is of that feed (`OwnFrames`), that each
priority's channel has frames of it only (`Lanes`), and that no number is greater than the last one given
(`Numbered`). A task that ends with its channel closed gives up nothing, since it ends with nothing in its
hand or its channel; one that was aborted does, which is why `NothingLost` excepts removed sources. For the
registry, the last message about a key on the control channel decides (`WillFeed`); the router reads them in
order, and a remove carries no feed. The limits are counted with `FiniteSetTheorems`.

### Storage: RelationFiles and SlottedPages

`Storage_proofs.tla` proves, for any clients, segments, sizes of files and of pages, values and records,

- `FilesKeepOrder`: `FilesSpec => []FilesInv`, and `WrittenPagesStay`: `FilesSpec => PagesKept`;
- `PagesReadable`: `PageSpec => []PageInv`, for both layouts;
- `RecordsStay`: `PageSpec => RecordsKept`, the refinement of `RecordStore`.

Assumed are `FilesAssumption` and `PagesAssumption`: sizes are natural numbers, a header fits into its page, a
page is shorter than the tombstone, the null values are not real ones.

*Files.* `FilesGood` adds to `FilesInv` that what is named has been opened (`FilesKnown`), that the manager
opens a file only as long as it has none (`OpensCounted`), that nothing is in a segment nobody opened
(`Untouched`), and what is true of the only `RelationFile` of a segment (`SoleOK`): whoever holds its lock
knows its length, so the page it counts is the one it appends, and what was written lies before the end.
Without `Sole` the length may be old when it is used.

*Pages.* `PageOK` is `PageInv` with types and with the live records being records. Inserting touches bytes
between the directory and the records only; what is compacted is laid out from the end of the page, each
record below the bytes of those before it. `LiveBytes` counts these as a set, and not as a sum over the
directory, so that `BytesAdd` and `BytesGrow` follow from `FiniteSetTheorems` and `PackedPlace` and
`CoveredOnce` (no two records share a byte) from them, with no induction. The refinement maps a page to its
readable records (`View`), and each operation is a step of `RecordStore` on it or changes nothing of it
(`ViewStep`).

### The servers and their clients

`Servers_proofs.tla` proves, for any clients, stations, handlers and limits, and for any windows,

- `LinkPublishesTruly`: `LinkSpec => []LinkInv`;
- `PermitsAndBatchesKept`: `BatchSpec => []BatchInv`;
- `FramesAccounted`: `BrokerSpec => []BrokerInv`;
- `StationFramesFollow`: `StationSpec => []StationInv`.

Assumed are `LinkAssumption`, `BatchAssumption`, `BrokerAssumption` and `StationAssumption`: bounds are
natural numbers, a batch has room for one frame.

*The ground link.* `LinkIInv` says why the client ended and what it publishes where (`PublishedAgrees`), and
that the delays of all attempts are in the time that passed (`DelaysCount`): n of them take at least
`Slept(n)` seconds, so that a window bounds the attempts.

*The batching clients.* `TriesCount` has the same for the sleeps of a client of module 5. The time of the
connects is in `waited` besides, so a client can be in its last try long after its window; what bounds the
tries is that the sleeps before it were within the window, and what a client that gives up without a
connection has behind it is the whole window.

*The batching server.* Permits and live handlers are counted together (`PermitsAccounted`), with the permit
the listener holds when it accepts; a connection has a handler exactly while it is open (`LinksAgree`), so
that none is left when the server is done (`NobodyLeft`); a handler that reads has less than a batch
(`BatchesAreSmall`). That one header of each kind is left, however many there were, is a fact of
`DeduplicateIndices` alone: each kind has a first header (`LeastExists`), and only one.

*The broker.* `BrokerIInv` adds to the accounts (`Accounted`: received and missed are what the cursor has
passed, and the channel has broadcast `Retained` frames more than were missed) that a handler ends with
nothing left and nobody to send more (`EndsLast`), and that half a frame is held by nobody but a session that
reads (`HalfIsRead`).

*The station server.* While the consumer receives, the frames of a station in the channel are those after the
last one consumed, up to some `last` with no gap, and `last` is what the handler was done with as long as it
goes on or has left frames unread (`ChannelHolds`); they are in the order they were sent (`InOrder`).
`HandlerHolds` has the same for what a handler holds and has not read.

### What keeps, collects or cuts up what arrives

`Feeds_proofs.tla` proves, for any keys and setters, callers, frames and bounds,

- `NeverAsleepTooLong`: `DbSpec => []DbInv`;
- `DetectionsProcessed`: `RadarSpec => []RadarInv`;
- `NewestFramesKept`: `AggSpec => []AggInv`;
- `FramesArriveWhole`: `StreamSpec => []StreamInv`.

Assumed are `DbAssumption` (`Never` is no time, durations are), `RadarAssumption`, `AggAssumption` (natural
bounds) and `StreamAssumption`: a payload has the length its header gives, and where the header gives none it
has no line end in it, as it could not be told from the end of the frame.

*The expiring store.* `DbIInv` adds that a wakeup comes with the first expiration (`Timely`), that the two
collections agree (`Agree`), and that a shutdown is announced to a task that looks at the flag no more
(`Announced`): a setter that is earlier than all others notifies after it released the mutex, and the permit
of the `Notify` keeps that for a task that is not asleep yet (`Unwarned` excepts the time in between).

*The radar receiver.* `RadarIInv` has the order of `close`: the first task has ended before the second is
waited for, and that one ends only with the channel empty and nobody left to fill it.

*The aggregator.* The mailbox has, in order, the numbers from `popped + 1` to `sent` (`MailHolds`), the buffer
the last ones before (`BufferHolds`), so together no frame is missing but those that the buffer dropped for
want of room; and the actor ends with both sides done (`EndsEmpty`).

*The framing.* What is read and what is on the wire together are always whole encodings one after the other,
and the part of one if the writer was cut (`Framed`, with the offsets where they end). So the buffer begins
with the frame that is due (`NextFrame`): a decoder that finds a frame finds that one, and one that finds none
waits for bytes that are still to come. That holds for any way the stream is cut, as `ReadBuf` moves bytes
from one side to the other and changes nothing of their concatenation.

### What is not proved

Every invariant and action property of the passing runs is a theorem. Model-checked only is liveness, which
needs fairness and `ENABLED`: `CallsReturn`, `QueuesMakeProgress`, `PoppingServesAll`, `FramesProcessed`,
`RequestsServed` and `ServicesEnd`. What the violating runs show are counterexamples and no theorems. The
provers cannot use induction over data; no definition that they expand is recursive: the bytes of the records
of a page are counted as a set, and what a loop finds first or last is the least or greatest element of a set
of numbers (`LeastNumber`, `LeastExists`, `NatMin`), which follows from well-foundedness.

## 4. Plan

*Done:* all four pools, the queues, the storage files and pages, the pipeline, and the services of modules 1
and 3 to 5, each with its runs; proofs of every safety property the runs check.

*Left:* the parts of the big invariants that a reader may want by name, as theorems of their own (permits,
framing, the windows of the clients), and shorter proofs where a lemma serves several actions; the pass
session and shutdown coordinator of module 1, the router of tagged frames of module 3, the arenas and frame
batches of module 5 (`PROJECT.json` says why each was left).
