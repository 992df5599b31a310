# A TLA+ model of rtmap

rtmap traces a running program: a DynamoRIO client (`src/tracer.c`, on top of
`src/rtmap_bridge.h`) instruments the program and writes 32-byte events into
one shared-memory ring per thread; an engine (`src/engine/`) discovers the
rings through a control ring, drains them, follows forked children, and
rebuilds the program's memory state from the stream; offline tools judge what
the engine wrote. Nothing between tracer and engine is locked. This project
models the protocol, the session around it, the trackers the events feed and
the tools, checks them with TLC on small instances, and proves the central
invariants with TLAPS for all instances.

## Inventory

| Part | State | Operations | What makes it hard |
|---|---|---|---|
| Ring producer (`tracer.c`, `rtmap_bridge.h`) | ring slots, published head, per-thread cached head, backpressure mirror, sequence counters, nesting guard, read buffer | inline BB_ENTRY and WRITE, clean-call pushes, read-buffer flush, syscalls, thread exit | two kinds of producer on one ring; inline code never reads the tail; a store may fault between the halves of its event |
| Ring consumer (`ring.rs`) | tail, batch buffer, `alive`, `lapped_events` | `consume_batch`, `batch_drain`, `update_backpressure` | copies slots the producer may be rewriting; multi-slot runs |
| Control ring (`rtmap_bridge.h`, `ring.rs`) | entries with state, id and ring name; `thread_count` | `rtmap_ctl_register_thread`, `rtmap_ctl_mark_dead`, `poll_new_rings` | entries are reclaimed while the engine reads them; transient overshoot of the count |
| Fork and children (`tracer.c`, `main.rs`) | control rings in `/dev/shm`, pending pids, child orchestrators, thread-id namespaces | `event_fork_init`, `ChildProcessTracker` | discovery by event or by scan in either order; parallel vectors with `swap_remove` |
| Session (`main.rs`, `record.rs`) | tracer process, reaper and consumer threads, flags, recording | launch, attach, `run_headless`, idle exit, sweep, join, cleanup, replay | every one of four actors may stop first |
| Heap graph (`heap_graph.rs`) | objects with fields and edges, index from addresses to objects, window of recent writes | `process_write`, `on_free`, `find_object_base`, `gc_stale` | objects are guessed and overlap; index and objects must agree through every order of clustering, free and eviction; ages mix counters |
| Shadow types (`world.rs`, `reconciler.rs`) | type projections, allocations, deferred and indirect pointer writes, epochs | `stamp_type`, `propagate_field_write`, `defer_write`, `purge_range`, ALLOC and FREE | stamps are ordered by sequence numbers of different counters; address reuse |
| Address index, shadow stacks, nodes (`index.rs`, `world.rs`, `reconciler.rs`) | static and dynamic intervals, MRU cache, frames, nodes, pointer edges | CALL, RETURN, WRITE, CACHE_MISS, MODULE_LOAD | lost events and `longjmp` put the shadow stack out of step; the cache outlives what it was made from |
| Shadow registers (`shadow_regs.rs`, `world.rs`) | registers with confidence and source, saved sets, cache-line writers | snapshots, CALL, RETURN, RELOAD, coherence check | a register goes stale through another thread's write, which is checked only in some cases |
| Hazard reports (`world.rs`, `reconciler.rs`) | block table, stack windows, hazards, type violations | bounds check with grace period, `TypeStabilityMonitor` | events of different rings come in another order than they happened |
| Offline tools (`topology.rs`, `check.rs`, `diff.rs`, `lint.rs`) | topology stream, checkpoints, struct layouts, field heatmap | assertions, comparison of recordings, layout analysis | the tools see lines and recordings, not the program |
| DWARF reader, configuration, `/proc` parsing, terminal interface | | | parsing and rendering |

`PROJECT.json` lists the same parts with their status, the lines every
definition models, and the hazards the properties are aimed at, each at its
line. Some hazards met in the code are beyond the model and not in that list:
thread ids of 16 bits that repeat after 65536 threads (`tracer.c:2084`), a
control ring left by an earlier process of the same name (`tracer.c:206`), the
old value recorded by a write that ends its block (`tracer.c:1580`), FREE
pushed before a `realloc` that fails (`tracer.c:1725`), the heap graph's window
that outlives a FREE (`heap_graph.rs:230`), the reopening of a TERMINAL ring
(`ring.rs:606`).

## Modules

### `RtmapRing`: one ring, its thread and the engine

Shared memory is `slots`, `head`, `tail`, `backpressure`, `terminal` and the
two process-wide phases (`phase`: tracing starts in BOOT when a tripwire is
given; `modphase`: the one MODULE_LOAD event). The traced thread's TLS is
`cached` (raw-TLS head), `bp` (mirrored tier), `scratch1` (the slot an inline
write has reserved), `nesting` (re-entrancy guard), `seqI`/`seqC` (the inline
and the clean-call sequence counters, which are different variables in the
code) and `rdbuf`.

* Inline paths are split where the application's own instruction executes or
  where the engine can look: `BbEntry`/`BbCommit`, and `PreWrite`, then
  `StoreFaults` or `PostWrite`/`PostCommit`. They fill the slot at the cached
  head and publish only when the cached head reaches a multiple of
  `FlushPeriod`, or at `BlockEnd`.
* Clean calls (`AtCall`, `AtReturn`, `AtReload`, `WrapAlloc`, `FlushReadBuf`,
  `PostSyscall`) publish the cached head, push their items one by one
  (`PushCheck`, `PushSlot` per slot, `PushPublish`) and reload the cache.
* `PreSyscall`, `SetTerminal` and `ThreadExit` end the thread.
* The engine takes one step per shared access: `ConsumeStart` loads the
  cursors, `CopySlot` copies one slot, `Recheck` loads the head again and
  accepts or discards the batch, `RetireCheck` retires a terminal, drained
  ring, `ProcessEvent` checks sequence numbers, `UpdateBackpressure` sets the
  tier, `PollDead` ends the ring of a DEAD thread.

An event is reduced to the position it was written for, its kind and place in
a run, its sequence domain and number. Cursors are unbounded naturals (u64 in
the code: no wrap in practice). Memory is sequentially consistent: the code
publishes with release and reads with acquire, and a slot that is being
rewritten is read as the old or the new event; a half-written slot is covered
by `torn` all the same, which is set when a delivered slot is not the event of
its position.

### `EventChannel`: what the ring promises

A lossy channel: events are published, each is taken or reported lost at most
once and in order, nothing is published after it is closed. `RtmapRing`
implements it (`ImplementsChannel`) with published = head, taken = delivered,
lost = lapped, closed = terminal.

### `RtmapCtl`: the control ring

Threads register by scanning for a DEAD entry (CAS, one step per entry) or by
`fetch_add`, write id and name and publish ACTIVE; they mark the entry DEAD
when they exit. The engine's `poll_new_rings` runs its two loops with every
read of an entry a step of its own. While a new owner copies its name into an
entry, a read of the name may return any mix: `NameRead` then yields any
ring's name or none. `None` as an outcome of a read stands for a name
`shm_open` does not find. A thread's id and the name of its ring are fresh for
every thread. A ring is reduced to its TERMINAL status; that a terminal ring
is drained is `TerminalRetired` of `RtmapRing`.

### `HeapGraph`: objects guessed from writes

The graph keeps `objects` (base to size, fields, edges, sequence number of the
last write), `addrToBase` (the index) and `recent` (the window). `ProcessWrite`
is `process_write`: a write that `find_object_base` places in an object updates
the field there (`WriteKnown`); any other is clustered with the nearby writes
of the window (`WriteUnknown`, `NewObject`). `OnFree` is the call of `on_free`
that FREE, an orphan FREE and an ALLOC with another size make; `GcStale` is the
eviction after every `GcPeriod`-th event of the interactive loop and of replay
(`run_headless` never evicts). Each event comes from some ring and carries that
ring's counter (`seq`), while the engine counts all events (`total`). Write
counts, the first sequence number and the scoring of an object against DWARF
types change no control here and are left out. `memory`, `touched` and
`exposed` record what happened, for the properties.

### `RtmapTypes`: types for heap memory

`stm` is the shadow type map (base to type and time of the stamp), `indirect`
the arrays of pointers, `deferred` the buffer of pointer writes no projection
covered, `allocs` the live blocks, `epochs` the closed type epochs. A stamp
time is a ring and its sequence number; the code keeps the number only, and
every comparison of the model uses the number only. The warm scanner stamps
with number 0 (`Cold`).

The engine is one thread, so a handler is a chain of steps through `pc`:

* WRITE to the heap: `WriteHeap` (`propagate_field_write`, then `defer_write`
  if nothing was stamped), `Upgrade` (`ensure_type` and the second stamp), then
  the scan. WRITE to a typed global: `WriteGlobal`, replay, scan.
* ALLOC: `Alloc` (with the purge of a block of another size), `AllocSite` (the
  allocation-site oracle), replay, scan. FREE: `Free`, tracked or orphan.
* `ReplayPass` and `ReplayWrite` are `replay_deferred`; `ScanField`
  and `ScanDone` are `retrospective_scan`; `WarmStamp` and `WarmField` are
  `WarmScanner::step` and `scan_ptr_fields`.

What a scan reads from the heap graph or from `/proc/pid/mem` may be older or
newer than the event, so it is any value. A type is its name, size and pointer
fields, and may be shallow (cut short by DWARF parsing) until `ensure_type`
resolves it. `deferred` and `hits` are keyed by the number of the event, whose
order is the order of the deque. The names that order a scan's candidates, the
capacity of the epoch log, the bounds checks and the statistics are left out.

### `RtmapFork`: children of the target

Processes fork (`Fork`), set themselves up (`MapCtlRing`, `ForkInit`), write,
exit or are killed at any point. A turn of the engine is `Discover`, one
`ScanPid` per name in `/dev/shm` and `ScanDone`, one `Expire`, `Attach` or
`Retire` step per list position, `EndDiscover`; then `StartDrain`, `DrainChild`
per child and `EndDrain`. The parallel vectors of the tracker (`pending` with
`since`, `children` with `empty`) are sequences, and `SwapRemove` is the code's
`swap_remove`, so a slip between the two shows. `waited`, `quiet`, `ns`,
`inband` and `dropped` are history.

### `RtmapEngine`: a session and its recording

The target makes the events of `Script` in the rings of its threads, the
reaper sets `TRACER_EXITED` (`Reap`), a signal may come at any point. The
consumer waits for the control ring (`WaitSignal`, `WaitTracerGone`,
`WaitTimeout`, `WaitAttach`, `RetryAttach`, `RetryGiveUp`), then takes turns:
`BeginTurn`, one `Batch` after another, and `IdleRound` or `BusyRound` with the
housekeeping at its end; the idle exit polls once more and sweeps
(`SweepBatch`), `Finish` closes the recording. The main thread joins, kills and
waits for the tracer, and removes the shared memory (`Join`, `Cleanup`).
`Replayed` is `run_replay` over the recorded slots, batch by batch.

### `RtmapFrames`, `RtmapRegs`, `RtmapHazards`: trackers of `process_event`

The three share no state, so each is a module of its own; `MCTrackers` runs
them side by side, one per behaviour.

`RtmapFrames` keeps the target's own stacks (`real`) beside the shadow stacks,
the index, the nodes and the edges. `Call` comes handled, without debug
information or lost; `Return` likewise; `LongJmp` drops frames the engine does
not hear of. `Lookup` is the code's: MRU, then the narrowest interval of any
frame, then the static ones; a `Write` or `CacheMiss` moves the MRU, `ModuleLoad`
and `LibGlobalsReady` rebuild the statics. The offsets of locals count from the
lowest word of their frame; the frames of a stack are of one size.

`RtmapRegs` follows one thread's register file. A `Reload` ties a register to
bytes of memory; `RegWrite` of any thread goes through the cache-line tracker,
which decides whether the coherence check runs, and marks registers stale.
`missed` and `hit` record which writes were passed over and which were seen.

`RtmapHazards` has threads that allocate, free, write and call
(`Target...`), their rings, and the engine's handlers (`On...`) that take the
rings in any order. A WRITE event carries the block it started in as history,
so that the verdict can be compared with it.

### `RtmapCheck`, `RtmapDiff`, `RtmapLint`: the offline tools

`RtmapCheck` produces the stream (ALLOC, FREE, STAMP, LINK, numbered by the two
counters of each thread) beside the target's heap, builds the tool's graph from
the lines (`Build`, one `Absorb` per line) and evaluates the assertions.
`RtmapDiff` replays two recordings one after the other with one type registry
and compares their checkpoints. `RtmapLint` flattens structs into cache lines,
judges them in the tool's modes, and keeps the writes of the traced threads
beside the heatmap it reads. `MCOffline` runs the three side by side.

`MCRing`, `MCCtl`, `MCGraph`, `MCTypes`, `MCFork` and `MCEngine` instantiate the
others for TLC.

## Runs

| Run | Question |
|---|---|
| `ring_mixed` | inline points, faulting stores and clean calls on one ring that laps a slow engine: `Accounting` of every slot, `Conservation` of every offered event (with the nesting guard disarmed in the end), `RetiredFinal`, every reported gap has a cause (`GapsExplained`), `DeliveredIntact` up to the unpublished window, and the refinement of the channel |
| `ring_clean` | clean calls only, from BOOT to the tripwire: the full check alone protects unread slots (`CleanNeverLaps`), snapshots arrive whole, and a finished thread's ring is drained and retired (`TerminalRetired`) |
| `ctl_safe` | three threads, two entries: `OneOwner`, `ActiveEntryWhole`, `MixedOnlyByReclaim`, and `SweepFinds`: the final sweep misses only a thread whose entry served another thread too, or was met EMPTY by an earlier poll |
| `ctl_live` | a running, registered thread is discovered |
| `graph_index` | writes, frees and evictions in every order: `IndexLive`, `EdgesFollowFields`, and `LookupCurrent`: what is found for an address is the last value written, unless a removal handed the address to another object; `GcOnlyStale`, with one ring |
| `types_stamps` | writes, allocations, frees and cold stamps numbered by two pairs of counters, with the replays and scans they set off: `StampsAdvance`, `PropagationKeepsTypes`, `ReplayConverges`, and `InvertedOnlyAcrossCounters`: a type epoch that ends before it begins has its ends in two counters |
| `fork_track` | forks, exits, kills, scans and drains in every order: the tracker's vectors and flags agree and no child is tracked twice (`TrackerConsistent`), two processes share thread ids only after the overflow warning or a dropped child (`AliasExplained`), the child that is forgotten is the one whose time is up (`ForgetsTheRightOne`), children are attached and dropped in the end |
| `engine_session` | the whole session: nothing is left behind by a sweep after the tracer's death (`SweepComplete`), the recording replays what was processed (`RecordingReplays`), shared memory is gone for good after cleanup (`CleanupFinal`), an idle parent does not starve its children (`ChildrenServed`), a dead tracer or a signal ends the session (`EndsWithTracer`) |
| `trackers` | `IndexConsistent` (MRU, intervals, nodes and edges stay together), `LocalsAccurate` (a write to a live frame goes to that frame while its thread is in step), `CoherenceExplained` (a register better than Stale has the value of its source, up to the writes the check leaves out; a Stale one was written), `HazardsExact` and `StabilitySound` (writes to blocks one thread alone used are judged right under every interleaving of the rings) |
| `offline` | `VerdictsExact` (what `rtmap-check` says of the target, and for which streams), `DiffExact` (a difference between final topologies is reported, repeated recordings are identical), `LintAgrees` (contention the threads showed is classified, annotations warn, a newly shared line is not passed over) |

Two more runs refute something a document or comment says:

| Run | Refuted | How |
|---|---|---|
| `types_upgrade` | "ensure_type: upgrade shallow" (`reconciler.rs:217`) | the second stamp has the same type name, so `stamp_type` returns before it replaces the projection |
| `engine_replay` | the replayer "reads 6 continuations, and reconstructs the 18-register array" (`docs/ring-protocol.md:224`) | a snapshot across the end of a batch of 4096 slots is not applied |

### Bounds

Ring: `Capacity` 4, `FlushPeriod` 2, `BatchLimit` 3, snapshots of 3 slots and
wide writes of 2: the ring wraps, is lapped, fills up, a batch limit falls
inside a run, and the flush period is crossed by a compound write, all within
four instrumented points (`MaxOps`). `RdBufCap` 1 makes the read buffer flush
at every second read.

Control ring: three threads on two entries give reclaim, a full array, the
overshoot and a third ring for torn names. `ctl_live` has two threads on two
entries: with more threads than entries the overshoot can stop the engine,
after which nothing is discovered; the exception for a third thread's ring in
`EventuallyDiscovered` is therefore not reached there.

Heap graph: three adjacent addresses, a window and a cluster of two writes and
six events let two objects overlap, one be removed and uncover the other, a
write be ignored because an object starts at its cluster's base already, and an
eviction happen in between. There is one ring, because only the eviction looks
at sequence numbers.

Types: three words, three events of two rings and one word the warm scanner may
find as a node or as a table. Two deferred writes and the root that covers the
first make a chain that takes two passes of the replay, a third deferred write
overflows the buffer of two, and two changes of one word's type are a schism
and a reuse. The types are a list node (shallow at first), a table that points
to an array of nodes, and one without pointers that covers two words. Fuel and
passes are 2, so that both run out. `ProcMem` is FALSE, so a scan that follows
an event trusts live blocks only; the cold scans of the same run read any
pointer. (With `ProcMem` TRUE the properties hold too, in twice the states.)

Fork: two processes besides the root, so that there is a child of a child and a
`swap_remove` that moves the other; two namespaces, so that the second child
overflows; a ring and a drain of one event, so that a busy child uses up a
drain; expiry after more than one round and retirement after two empty drains.

Session: two threads, events and a snapshot of two slots, one batch per turn,
and limits of 1 for idle rounds, events before arming, retries and the
deadline: each limit is reached and missed. One child with one waiting event.
`engine_replay` has batches of 3 slots and snapshots of 2, so a snapshot lies
across the end of a batch.

Trackers: functions of the executable, of a library and without debug
information, stacks of two frames for two threads, an MRU of two, one returned
frame kept. Three bytes on two lines that share one slot of the cache-line
tracker; threads 1 and 3 share a writer bit; stores of part of a word, a word
and more. Four events of two threads on four words, blocks of one word and of
three with a hole between the fields, a grace period of two events, lists of
one.

Offline: two rings, two objects, four events in a stream; recordings of three
events with a checkpoint after each; five structs (shared and isolated fields,
a union, a field over two lines, nesting up to and past the limit), two writing
threads with three written words, 34 annotation files.

Behaviours may end where the system may stop: in `ctl_safe`, when the poll has
panicked and all threads are done; in `types_stamps`, `types_upgrade`,
`trackers` and `offline`, when all events are processed.

### Fairness

`RtmapRing!FairSpec` is weak fairness of the engine alone: its loop polls and
never blocks. The thread may stop at any point. `RtmapCtl!FairSpec` adds weak
fairness of registration (a bounded sequence of plain instructions) and strong
fairness of `Retire`, which is enabled between polls only; that a terminal
ring is drained again and again until it is empty is `TerminalRetired`. No
thread is assumed to exit. `RtmapFork!FairSpec` is weak fairness of the
engine's steps and strong fairness of starting a round of each of the two
halves of its loop, which the loop runs in turn; processes are bound to
nothing. `RtmapEngine!FairSpec` is weak fairness of the engine's own threads
(reaper, consumer, main thread); target, child and signals are free.

## Disagreements without a run

Met while modelling; each is visible in the module named first.

*Ring.* A read admitted by the bloom filter is shed again when the buffer is
flushed under backpressure (`rtmap_bridge.h:389`, against
`docs/ring-protocol.md:110`); a push refused by a full ring is in no counter
(`tracer.c:1204`, against `docs/ring-protocol.md:17`); a compound write steps
over the flush boundary, so more than 63 slots stay unpublished
(`tracer.c:826`, against `tracer.c:1193`); a full ring refuses the one
MODULE_LOAD after its phase is set (`tracer.c:1120`, against
`docs/ring-protocol.md:89`); the re-check of a batch sees the published head
only, so a slot the inline code is rewriting can be delivered (`ring.rs:409`,
against "torn 32-byte events are never delivered downstream",
`docs/ring-protocol.md:390`); a read-buffer flush between the halves of a write
publishes a slot that is not written yet (`tracer.c:1635`, against
`docs/ring-protocol.md:319`); after a lap, a slot that claims a run longer than
what is available stops `batch_drain` (`ring.rs:394`, against
`docs/ring-protocol.md:473`). `DeliveredIntact` and `TerminalRetired` name these
cases as their exceptions.

*Control ring.* A registration that finds the array full holds `thread_count`
above `max_threads` for a moment (`rtmap_bridge.h:498`, against
`docs/ring-protocol.md:404`, and `poll_new_rings` indexes the array up to it); a
retired ring is opened again while its entry is ACTIVE (`ring.rs:606`, against
`docs/ring-protocol.md:457`); the final sweep misses the threads `SweepFinds`
excepts (`ring.rs:548`, against `main.rs:1202`).

*Graph and types.* `gc_stale` compares the engine's total with the counter of
one ring, so with two rings it evicts objects that are being written
(`main.rs:744`, against `docs/engine.md:436`; `MCGraph_index.cfg` with a second
ring shows it); the freshness guard compares a ring's counter with a count of
allocations (`world.rs:682`, against `docs/engine.md:473`); an orphan FREE does
purge the types of its range (`reconciler.rs:652`, against
`docs/engine.md:622`); the schisms of allocation sites and of arrays close no
epoch (`reconciler.rs:606` and `world.rs:661`, against the comment on
`TypeEpochLog`).

*Fork.* The FORK event never registers a child, because it is read from a ring
that only an attached child has (`docs/architecture.md:286`); a scan adopts only
children of a known parent, so a grandchild whose parent died first is never
attached; the namespace of a child is its position, which a dropped child
changes; `batch_drain` starts with the first child every time; events between
the last empty drain and the death of a child are lost with it; dropping a
child does not refresh the shared regions (`main.rs:252`), nothing merges them
(against `main.rs:42`), and SHARED_MAP is only logged (`reconciler.rs:738`,
against `docs/engine.md:888`); `CHILD_EMPTY_TICK_RETIRE` counts drains, not the
seconds of its comment; a child's exit unlinks the root's `/rtmap_ctl`, while its
own control ring is never unlinked; the engine need not have mapped it "by the
time we exit" (`tracer.c:1086`).

*Session.* The rescue branch of `run_headless` (`main.rs:1292`) is unreachable;
the idle exit does not happen while children produce (against
`docs/USAGE.md:109` and `main.rs:1189`); the loop of the terminal interface
stops serving children when the root is idle and looks at neither flag; the
final sweep does not apply register snapshots; paths that leave with `exit(1)` do
not finish the recording; the kill after a join may hit a pid that the reaper has
waited for (`main.rs:2467`); children have no sequence-gap check; `run_headless`
never calls `gc_stale`, but a replay does.

*Trackers.* A write out of bounds "cannot be caused by reordering"
(`docs/engine.md:674`), but a WRITE that is taken after its block was replaced by
a shorter one is reported (`reconciler.rs:254`), and the grace period does not
cover a WRITE that is taken before its ALLOC; a second hazard at the same
address is dropped; MODULE_LOAD carries size 0 (`tracer.c:1120`), so no address is
excluded as a module's. An MRU hit may return a wider local than the narrowest
(`index.rs:209`, against `docs/engine.md:317`); `pop_return_checked` is used by
tests only (against `docs/architecture.md:311`), so a `longjmp` leaves frames
behind; library functions are keyed by run-time address while CALL subtracts the
executable's base (`reconciler.rs:434`); a lost RETURN leaks its nodes; MODULE_LOAD
drops live frames from the index. Threads equal modulo 16 share a writer bit;
staleness is lost across a call; spilled registers are checked only for other
threads' writes (`reconciler.rs:108`, against `docs/engine.md:348`); `observe_write`
is given a data address as pc and finds nothing.

*Offline tools.* `no_use_after_free` and `alloc_before_stamp` compare numbers of two
counters (`check.rs:477`, against `docs/USAGE.md:147`): a stream of one ring with
every address allocated once can fail them; a null store makes no LINK line and
FREE removes no edge, so `max_chain` may count what is gone; assertions that do not
parse are only warned about. `rtmap-diff` identifies a hazard by its absolute pc
(against `docs/engine.md:1162` and `README.md:157`), both replays extend one
`DwarfInfo`, and its exit code is always 0. `rtmap-lint` gives nested fields dotted
names while the heatmap knows top-level fields, so their writes are never matched;
its lines count from the start of the struct, not from the address; a line is
"flagged" in the divergence report by other rules than those that warn; an added
volatile field is information only.

## Proofs

Every theorem holds for every value of the constants under the named
assumptions of its module: any ring capacity, any number of threads, processes
and addresses. The runs use small values of the same constants. Where an
assumption is more than a type, the code gives it: `RdBufAssumption` (the read
buffer of 16 entries, `tracer.c:158`, fits into a ring, `rtmap_bridge.h:411`),
`TypesAssumption` (of two members at one offset of a type, as in a union, one is
the one that `sel` marks as found, `world.rs:689`), `HazardsAssumption` (blocks
and writes have at least one word; fields lie in their struct),
`CheckAssumption` (the objects of a stream lie apart, as the blocks of an
allocator do, and the pointer field inside its object), `LintAssumption` (no field
has the name that the heatmap gives to words outside all fields,
`reconciler.rs:144`). Those of
`RtmapFrames` are about the target, not about the engine: locals lie in their
frame (`LocalsAssumption`), the stacks of two threads are apart
(`StacksAssumption`), no global lies on a stack (`GlobalsAssumption`), and a field
has a type (`FieldTypesAssumption`).

* `RtmapRing_proofs`: `TypeCorrect`. `TypeOK` alone is not inductive (a push
  needs an item to push, a copy has to stay inside the batch), so `TInv` adds
  the shape of the push and copy loops; one lemma per action. Then
  `CursorsOrdered`, `AccountingHolds`, `RetirementFinal` and
  `RingImplementsChannel`, from `IInv == TInv /\ RInv`. The consumer's locals
  relate to the shared tail only between `ConsumeStart` and `Recheck`, and the
  producer may move the head in between; `ConsumerInv` says what stays true of
  the locals then, `EndInv` that a thread which has set TERMINAL has published
  everything. The producer's actions are all abstracted to one relation
  (`ProducerMove`), so each invariant is proved once for the producer and once
  per engine step.
  About what happens to an event the thread offers, in the same module:
  `EventsConserved` needs, beside the count itself (`Counted`), that re-entrancy
  drops plus the armed guard are at most the faults (`GuardInv`).
  `DeliveriesIntact` needs `SInv`: every slot holds the event of the last
  position written to it (`AtHome`, `Written`), the one an inline write has
  reserved and not committed is named (`FlightInv`), and what the engine copied
  is either the event of its position or the event of a later position that is
  not published (`OutInv`). `CleanCallsNeverLap` is the case without inline
  paths, where the check of the push bounds the head by the tail (`CleanInv`).
  Then the stream as the engine reads it. `PInv` orders the sequence numbers
  of slots, batch and engine (`Fresh`, `AtMost`) and keeps the length of a
  started run bounded. `ShapeInv` says that the slots from the tail on are
  whole runs: instead of an induction over runs it is stated pairwise, by what
  may follow a slot, so that a push of a whole run, a copy of a batch and a new
  tail each preserve it. It holds while nothing is damaged, which `WInv` makes
  inductive, and gives `SnapshotsArriveWhole`.
  `GapsAlwaysExplained` needs a numbering of the committed slots without holes
  in it; `GInv` says that one exists for each of the two counters.
* `CtlSafety_proofs`: `CtlTypeCorrect`, `EntriesExclusive`,
  `ActiveEntriesWhole`, `MixedRingsReclaimed`, from `CInv`. The core is
  `AllocInv`: `thread_count` minus the threads still undoing an increment is
  the number of entries ever handed out, and an overshoot exists only when
  that is `max_threads`; hence a fresh index is never in use. `EntryInv` and
  `OwnerInv` describe an entry through the registration steps, `ReadInv` what
  the engine holds of an entry between two reads. `RegStable` is the
  rely condition of the engine on the threads. `SweepAlwaysFinds` follows from
  `VInv`: the ring of a registered thread is open, or is in an entry the current
  poll has still ahead of it (`Ahead`), or the thread is excused, and once every
  thread has exited (`LastInv`) nothing new appears behind the poll.
* `GraphSafety_proofs`: `GraphTypeCorrect`, `IndexAlwaysLive`,
  `FieldsStayInside`, `EdgesFollow` from their conjunction `GInv`, which is
  inductive: removal keeps the index live because every entry leads to a field
  of its object (`IndexLive`), and a field entered through `find_object_base`
  lies in the object because of `FieldsInside`. `LookupsCurrent` needs
  `LInv`, which adds that the window's last write to an address is the one
  `memory` holds (`RecentCurrent`), so a new cluster starts with current
  values. `GcEvictsOnlyStale` assumes one ring, as the property does: then the
  ring's counter and the engine's are one clock, and an object's age is the
  number of events since its last write. With two rings it is false.
  The other two graphs are those of the offline tools. `VerdictsAlwaysExact`
  rests on two things. `StreamInv` (`StreamInvariant`) is about the lines: each
  counter numbers its own in order, a block is live if some ALLOC line of it has
  no FREE after it, a stamp of an allocation site has the ALLOC before it, and a
  pointer is where its last LINK line says. `GraphFits` is about the tool: after
  n lines its lists are those lines, each list in the order of the file
  (`Kept`), a record is freed by a FREE line that comes later, and an edge of an
  object is its last LINK (`BuildFits`, one step per line). The verdicts
  then compare lines with lines. For `live_allocs` the open records and the live
  blocks are in bijection. For `max_chain`, a walk of as many steps as
  there are edges has met all it can reach: one object more than there are
  edges would be met twice, so the next was met before (`WalkReaches`).
  `DiffAlwaysExact`, from `DInv` (`ComparisonInvariant`): what a replay holds is
  the end of a course, one `After` per event, from the registry it began with. The
  subject's replay begins with what the baseline learned (`Learned`), so two
  courses of the same events differ in their registries; they hold the same
  worlds if every field that reaches a type comes after the type (`SameCourse`).
  `LintAlwaysAgrees`, from `LintInv` (`LintInvariant`): in a struct without nested
  fields every level of `FlattenFields` but the first is empty (`PlainLayout`), a
  field and its words are on one line (`PlainLine`), and hence those that the
  heatmap names for the fields of a line are those that wrote it (`WritersSeen`),
  also where members of a union overlap and the heatmap knows only the first.
* `ForkSafety_proofs`: `TrackerAlwaysConsistent`, `AliasAlwaysExplained` and
  the action property `ForgetsRightOne`, from `FInv`. Two lemmas about
  `SwapRemove` carry it: the removal of position `i` from a vector without
  repetitions leaves the others at one position each, and two vectors shortened
  at the same position stay aligned. A namespace is a position plus what was
  taken before (`NamespaceByPosition`), which is why it repeats only after the
  overflow warning or a drop.
* `TypesSafety_proofs`: `TypesTypeCorrect`, `EpochsInvertOnlyAcrossCounters`
  and the action properties `StampsAlwaysAdvance`,
  `PropagationAlwaysKeepsTypes`, `ReplayAlwaysConverges`, from `TInv`. Every
  time in the state, stamps, deferred writes and the handler's locals included,
  is cold or at most its ring's counter (`Past`); so a stamp taken from the
  current event is newer than what it replaces if both have one counter. What a
  replay or a scan still has to do is bounded by what it began with (`Settled`,
  `ColdWork`).
* `TrackerSafety_proofs`: `RegistersCoherent`, from `CInv`: a register that is
  saved by a CALL has to stay coherent while it is away, since RETURN brings it
  back; the value of a load depends on the loaded bytes alone (`ValueLocal`).
  `HazardsAlwaysExact` and `StabilityJudgedRight`, from `HInv`. The engine takes
  the rings in any order, so its table of blocks is in general no heap that ever
  was. For a word that one thread alone has used (`Own`) it is the heap of that
  thread before its pending events: `Views` gives, for each thread and each
  pending event, the blocks the thread held at that point; the first of these
  agrees with the table (`TableSync`), the last with the heap (`HeapSync`), and
  the blocks of one are apart. `StabilityJudgedRight` assumes `DisjointFields`:
  where two members of a union differ in length, `check_write` takes the first,
  and a write to the longer one is reported.
  `IndexAlwaysConsistent` and `LocalsAlwaysAccurate`, from `FrameInv`
  (`FramesInvariant`). `WellFormed` says what any sequence of insertions, removals
  and lookups keeps of the index: its bounds hold every local (or `lookup` would
  give up early), the statics lie off the stacks, and an entry of the MRU cache
  stands for an interval of the index with its bounds, so the cache may shadow an
  interval but never invent one. Each operator of the index has a lemma
  (`PopulateSpec`, `InsertSpec`, `RemoveSpec`, `LookupResult`); that `finalize`
  neither loses nor adds an interval follows from `Place` being a permutation
  (`FinalizeSpec`). `FramesInv` makes frame ids unique over all shadow stacks and
  the queue of returned frames; `NodesInv` ties nodes and edges to them. `StepInv`
  relates a shadow stack to the target's: a thread in step has the frames of its
  shadow stack on its stack, each with its locals in its own part. So an interval
  that covers an address of a live frame is no global, is of no other thread
  (`StackInv`) and of no other frame of the thread (`OnePart`).
* `EngineSafety_proofs`: `CleanupAlwaysFinal`, `SweepAlwaysComplete` and
  `RecordingAlwaysReplays`, from `IInv` (`SessionInvariant`). `LifeInv` says who
  can be where together: the process is gone exactly when the consumer has left
  with `exit(1)`, and once the main thread cleans up, the consumer is through and
  the tracer dead. `OpenInv` and `SweepInv`
  relate the rings that are open to the threads that are registered: the sweep
  begins with a poll after the target's death, so no ring is left out.
  `OrderInv` and `ItemsInv` order the items of each ring after those already
  processed, and count them: what was made is in a ring or in `trace`, whence
  a sweep that finds all rings empty has processed everything. `RecordInv`
  says that the recording is `trace` slot by slot. That such a recording replays
  is a fact about sequences, not about steps: the events of the batches are in
  order wherever they are cut (`ReplayEvents`), and if no batch cuts a snapshot,
  each batch ends where an item ends (`CrossesNoEnd`) and gives exactly the items
  it holds (`WholeBatch`), so they add up to `trace` (`ReplayWhole`).

The library's induction theorems take an operator as a parameter, which the
provers cannot instantiate. Where a proof has to follow a recursive function
(`BatchDrain`, `ReplayedBatch`, `FieldsOf`, `Build`, `Walk`,
`FlattenFields`) or a concatenation of many parts, it
inducts over a set of numbers instead: the set of those for which the claim holds
contains 0 and is closed under successor, hence is `Nat` (`NatByInduction`).
`Lists_proofs` has this and the lemmas about concatenations, which
`EngineSafety_proofs`, `TrackerSafety_proofs` and `GraphSafety_proofs` share.

Every safety invariant and every action property that a passing run checks is also
proved. `TypeCorrect`, `CursorsOrdered`, `CtlTypeCorrect`, `GraphTypeCorrect`,
`FieldsStayInside`, `TypesTypeCorrect`, `SessionTypes` and the inductive invariants
that are theorems of their own (`FramesInvariant`, `SessionInvariant`,
`StreamInvariant`, `ComparisonInvariant`, `LintInvariant`) are proved and not
repeated as properties of a run.

Only model-checked: liveness (`TerminalRetired`, discovery of a thread,
`ChildrenServed`, `EndsWithTracer` and the like), which is out of the prover's
reach, and the two runs that refute a document.

## Not modelled

Values and addresses of events in the ring; the scoring of heap objects against
DWARF types; statistics that are only displayed (decaying heat of reads, cache
misses, mismatch counters); the capacity of the epoch log; attachment to a
control ring left by another process and the 16-bit wrap of thread ids; the loop
of the terminal interface, which differs from `run_headless` in its exits;
`PieceAssembler`, which only tests use; the assertions of `rtmap-check` that look
up a single line, and the parser of assertion files. DWARF and configuration
parsing, `/proc`, rendering and the command lines of the launcher are
input/output over external formats: what they produce enters the models as
constants (types, fields, globals, functions).

## Plan

What is left:

1. `HeapGraph`: what `GcOnlyStale` becomes with several rings, with the drift
   of the counters as a bound.
2. If the model grows: the interactive loop beside `run_headless`, and a control
   ring that survives its process.
