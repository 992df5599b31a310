----------------------------- MODULE RtmapRing -----------------------------
(***************************************************************************)
(* One traced thread's event ring: the producer is the tracer's            *)
(* instrumentation running in that thread (src/tracer.c on top of          *)
(* src/rtmap_bridge.h), the consumer is the engine's drain loop            *)
(* (src/engine/src/ring.rs, and the event loop of src/engine/src/main.rs). *)
(*                                                                         *)
(* Two kinds of producer share the ring.  Inline paths (BB_ENTRY, WRITE)   *)
(* write at a head cached in thread-local storage, never look at the tail  *)
(* and publish the head only now and then.  Clean calls first publish the  *)
(* cached head, then push with a full check, then reload the cache.        *)
(*                                                                         *)
(* A cursor is a position: a natural number that never wraps (u64 in the   *)
(* code); slot p of the code is slots[p % Capacity].  An event is reduced  *)
(* to the position it was written for, its framing and its sequence        *)
(* number: what the ring protocol can get wrong.                           *)
(***************************************************************************)
EXTENDS Integers, Sequences, FiniteSets

CONSTANTS
    Capacity,       \* slots in the ring (2^20 in the code)
    FlushPeriod,    \* the inline paths publish every FlushPeriod slots (64)
    BatchLimit,     \* slots copied by one consume_batch (4096)
    SnapSlots,      \* slots of a register snapshot (7)
    WideSlots,      \* slots of a compound wide write (2 to 8)
    RdBufCap,       \* entries of the thread's read buffer (16)
    MaxOps,         \* bound: instrumented points the thread executes
    Ops,            \* instrumented points the traced program contains
    Tripwire        \* was a tripwire given?  Then tracing starts in BOOT

AllOps == {"bb", "write", "wide", "fault", "call", "return", "reload",
           "alloc", "read", "syscall"}

ASSUME CapacityAssumption == Capacity \in Nat \ {0}
ASSUME FlushAssumption == FlushPeriod \in Nat \ {0}
ASSUME RunAssumption == /\ SnapSlots \in Nat \ {0, 1}
                        /\ WideSlots \in Nat \ {0, 1}
ASSUME BatchAssumption == /\ BatchLimit \in 1..Capacity
                          /\ BatchLimit >= SnapSlots
                          /\ BatchLimit >= WideSlots
ASSUME RdBufAssumption == RdBufCap \in 1..Capacity
ASSUME OpsAssumption == /\ MaxOps \in Nat
                        /\ Ops \subseteq AllOps
                        /\ Tripwire \in BOOLEAN

VARIABLES
    \* shared memory: ring header and data, g_phase, g_module_base_phase
    slots, head, tail, backpressure, terminal, phase, modphase,
    \* the traced thread: raw TLS, scratch pad, drmgr TLS, read buffer
    cached, bp, scratch1, nesting, seqI, seqC, rdbuf,
    \* the traced thread: where it is
    pc, ret, wide, todo, ops,
    \* the engine: locals of consume_batch, then the drained batch
    cpc, rt, rcap, out, runTail, alive, lapped, delivered,
    pending, expected, gaps,
    \* counters the tracer reports, and history for the properties
    stat, holes, torn

shared == <<slots, head, tail, backpressure, terminal, phase, modphase>>
thread == <<cached, bp, scratch1, nesting, seqI, seqC, rdbuf>>
control == <<pc, ret, wide, todo, ops>>
engine == <<cpc, rt, rcap, out, runTail, alive, lapped, delivered,
            pending, expected, gaps>>
history == <<stat, holes, torn>>
vars == <<shared, thread, control, engine, history>>

Kinds == {"one", "modload", "wide", "cont", "snap"}
Domains == {"inline", "clean"}

(* An event in a slot.  at is the position it was written for, -1 in a     *)
(* slot never written; off its place in a multi-slot run.  A continuation  *)
(* carries no sequence number (seq_lo is 0).                               *)
Event == [at : Nat \cup {-1}, kind : Kinds, off : Nat,
          dom : Domains, seq : Nat]

Ev(p, k, o, d, s) == [at |-> p, kind |-> k, off |-> o, dom |-> d, seq |-> s]

\* mmap'd fresh pages: kind_flags 0 reads as a plain WRITE with seq 0
ZeroEvent == Ev(-1, "one", 0, "inline", 0)

NoSlot == -1        \* pad.scratch[1] == 0

\* mutant: the consumer does not know that snapshots are runs
RunSlotsWide(ev) == IF ev.kind = "wide" THEN WideSlots ELSE 1

(* Event::compound_slots and the constant 7 of consume_batch: how many     *)
(* slots the consumer believes a run starting with this event has.         *)
RunSlots(ev) == CASE ev.kind = "snap" -> SnapSlots
                  [] ev.kind = "wide" -> WideSlots
                  [] OTHER            -> 1

(* The ring memory after the events of run are written from position p on. *)
PutRun(p, run) ==
    [i \in 0..(Capacity - 1) |->
        LET o == (i - p) % Capacity
        IN  IF o < Len(run) THEN run[o + 1] ELSE slots[i]]

-----------------------------------------------------------------------------
(* What a clean call pushes: todo holds the pushes left, in order.         *)
Items == {"one", "modload", "snap", "read", "prio"}

ItemSlots(it) == IF it = "snap" THEN SnapSlots ELSE 1

ItemKind(it) == IF it \in {"read", "prio"} THEN "one" ELSE it

\* continuation slots of a snapshot keep the kind and have seq_lo = 0
ItemRun(it, p, s) ==
    [k \in 1..ItemSlots(it) |->
        Ev(p + k - 1, ItemKind(it), k - 1, "clean", IF k = 1 THEN s ELSE 0)]

\* shed, shedReads, reent and dropped are reported by the tracer (g_stat_*)
StatNames == {"shed", "shedReads", "reent", "dropped", "refused",
              "faults", "abandoned", "offered"}

SharedOK ==
    /\ slots \in [0..(Capacity - 1) -> Event]
    /\ head \in Nat /\ tail \in Nat
    /\ backpressure \in 0..2
    /\ terminal \in BOOLEAN
    /\ phase \in {"BOOT", "TRACE"}
    /\ modphase \in 1..2

ThreadOK ==
    /\ cached \in Nat /\ bp \in 0..2
    /\ scratch1 \in Nat \cup {NoSlot}
    /\ nesting \in 0..1
    /\ seqI \in Nat /\ seqC \in Nat
    /\ rdbuf \in Seq({"read", "prio"})

ControlOK ==
    /\ pc \in {"run", "bb", "write", "post", "push", "slot", "publish",
               "sys", "term", "exit", "exiting", "done"}
    /\ ret \in {"run", "write"}
    /\ wide \in BOOLEAN
    /\ todo \in Seq(Items)
    /\ ops \in Nat

EngineOK ==
    /\ cpc \in {"idle", "copy", "check", "retire", "process"}
    /\ rt \in Nat /\ rcap \in Nat /\ runTail \in Nat
    /\ out \in Seq(Event) /\ pending \in Seq(Event)
    /\ alive \in BOOLEAN
    /\ lapped \in Nat /\ delivered \in Nat
    /\ expected \in [Domains -> Nat \cup {-1}]
    /\ gaps \in Nat

HistoryOK ==
    /\ stat \in [StatNames -> Nat]
    /\ holes \in SUBSET Nat
    /\ torn \in BOOLEAN

TypeOK == SharedOK /\ ThreadOK /\ ControlOK /\ EngineOK /\ HistoryOK

(* event_thread_init: the ring is zeroed, the TLS slots are zero.  The     *)
(* phase is BOOT only when a tripwire was requested (dr_client_main); the  *)
(* main module is mapped, hence modphase 1, before its code runs.          *)
Init ==
    /\ slots = [i \in 0..(Capacity - 1) |-> ZeroEvent]
    /\ head = 0 /\ tail = 0 /\ backpressure = 0 /\ terminal = FALSE
    /\ phase = IF Tripwire THEN "BOOT" ELSE "TRACE"
    /\ modphase = 1
    /\ cached = 0 /\ bp = 0 /\ scratch1 = NoSlot /\ nesting = 0
    /\ seqI = 0 /\ seqC = 0 /\ rdbuf = <<>>
    /\ pc = "run" /\ ret = "run" /\ wide = FALSE /\ todo = <<>> /\ ops = 0
    /\ cpc = "idle" /\ rt = 0 /\ rcap = 0 /\ out = <<>> /\ runTail = 0
    /\ alive = TRUE /\ lapped = 0 /\ delivered = 0
    /\ pending = <<>> /\ expected = [d \in Domains |-> -1] /\ gaps = 0
    /\ stat = [f \in StatNames |-> 0]
    /\ holes = {}
    /\ torn = FALSE

-----------------------------------------------------------------------------
(* The traced thread: one instrumented point is one operation.             *)

Point(op) == /\ op \in Ops
             /\ ops < MaxOps
             /\ ops' = ops + 1

Bump(f) == stat' = [stat EXCEPT ![f] = @ + 1]

\* a gate of an inline path: the offered event is counted and not written
BumpSkipped(f) == stat' = [stat EXCEPT ![f] = @ + 1, !.offered = @ + 1]

(* tripwire_hit: some thread enters the tripwire block.                    *)
TripwireHit ==
    /\ phase = "BOOT"
    /\ phase' = "TRACE"
    /\ UNCHANGED <<slots, head, tail, backpressure, terminal, modphase,
                   thread, control, engine, history>>

\* mirror_backpressure, called by flush_head_cache and sync_head_cache
MirrorBp == bp' = backpressure

(* emit_bb_entry: the phase gate, then the tier gate, then the slot at the *)
(* cached head.  The tail is never consulted.                              *)
BbEntry ==
    /\ pc = "run" /\ phase = "TRACE"
    /\ Point("bb")
    /\ \/ /\ bp >= 1
          /\ BumpSkipped("shed")
          /\ UNCHANGED <<slots, pc>>
       \/ /\ bp = 0
          /\ slots' = PutRun(cached, <<Ev(cached, "one", 0, "inline", seqI)>>)
          /\ pc' = "bb"
          /\ Bump("offered")
    /\ UNCHANGED <<head, tail, backpressure, terminal, phase, modphase,
                   thread, ret, wide, todo, engine, holes, torn>>

\* mutant: the inline path forgets seq++
CommitWithoutSeq ==
    /\ UNCHANGED seqI
    /\ cached' = cached + 1
    /\ head' = IF cached' % FlushPeriod = 0 THEN cached' ELSE head

\* seq++, head++, and publish when the new head is a multiple of the period
CommitInline ==
    /\ seqI' = seqI + 1
    /\ cached' = cached + 1
    /\ head' = IF cached' % FlushPeriod = 0 THEN cached' ELSE head

(* The rest of emit_bb_entry: publication is a store of its own.           *)
BbCommit ==
    /\ pc = "bb"
    /\ CommitInline
    /\ pc' = "run"
    /\ UNCHANGED <<slots, tail, backpressure, terminal, phase, modphase,
                   bp, scratch1, nesting, seqC, rdbuf, ret, wide, todo, ops,
                   engine, history>>

(* emit_pre_write: fill the slot at the cached head, remember it in        *)
(* scratch[1] and arm the nesting guard, or skip and clear scratch[1].     *)
PreWrite(w) ==
    /\ pc = "run" /\ phase = "TRACE"
    /\ Point(IF w THEN "wide" ELSE "write")
    /\ \/ /\ nesting # 0
          /\ BumpSkipped("reent")
          /\ scratch1' = NoSlot
          /\ UNCHANGED <<slots, nesting>>
       \/ /\ nesting = 0 /\ bp >= 2
          /\ BumpSkipped("shed")
          /\ scratch1' = NoSlot
          /\ UNCHANGED <<slots, nesting>>
       \/ /\ nesting = 0 /\ bp < 2
          /\ slots' = PutRun(cached, <<Ev(cached, IF w THEN "wide" ELSE "one", 0,
                                         "inline", seqI)>>)
          /\ scratch1' = cached
          /\ nesting' = 1
          /\ Bump("offered")
    /\ wide' = w
    /\ pc' = "write"
    /\ UNCHANGED <<head, tail, backpressure, terminal, phase, modphase,
                   cached, bp, seqI, seqC, rdbuf, ret, todo, engine, holes, torn>>

(* The traced store itself faults: DynamoRIO abandons the fragment, the    *)
(* post-write code never runs, and the application continues in its own    *)
(* signal handler with the guard still armed.                              *)
StoreFaults ==
    /\ pc = "write"
    /\ Point("fault")
    /\ pc' = "run"
    /\ stat' = [stat EXCEPT !.faults = @ + 1,
                            !.abandoned = @ + (IF scratch1 # NoSlot THEN 1 ELSE 0)]
    /\ UNCHANGED <<shared, thread, ret, wide, todo, engine, holes, torn>>

\* mutant: the nesting guard stays armed
NeverDisarm == UNCHANGED nesting

\* emit_post_write disarms the guard whether or not an event was committed
Disarm == nesting' = 0

\* continuation slots follow the header's index, whatever the cached head is
ContRun == [k \in 1..(WideSlots - 1) |-> Ev(scratch1 + k, "cont", k, "inline", 0)]

\* history: the positions from lo to hi - 1 that nothing was written for
Unwritten(lo, hi) == {p \in lo..(hi - 1) : slots'[p % Capacity].at # p}

(* emit_post_write up to the value, with compound_fill_continuations.      *)
PostWrite ==
    /\ pc = "write"
    /\ \/ /\ scratch1 = NoSlot
          /\ pc' = "run"
          /\ Disarm
          /\ UNCHANGED <<slots, cached, holes>>
       \/ /\ scratch1 # NoSlot
          /\ pc' = "post"
          /\ IF wide
             THEN /\ slots' = PutRun(scratch1 + 1, ContRun)
                  /\ cached' = cached + WideSlots - 1
                  /\ holes' = holes \cup Unwritten(cached, cached')
             ELSE UNCHANGED <<slots, cached, holes>>
          /\ UNCHANGED nesting
    /\ UNCHANGED <<head, tail, backpressure, terminal, phase, modphase,
                   bp, scratch1, seqI, seqC, rdbuf, ret, wide, todo, ops,
                   engine, stat, torn>>

(* The rest of emit_post_write.  A hole is a position committed although   *)
(* nothing was written for it.                                             *)
PostCommit ==
    /\ pc = "post"
    /\ CommitInline
    /\ Disarm
    /\ pc' = "run"
    /\ UNCHANGED slots
    /\ holes' = holes \cup Unwritten(cached, cached')
    /\ UNCHANGED <<tail, backpressure, terminal, phase, modphase,
                   bp, scratch1, seqC, rdbuf, ret, wide, todo, ops, engine, stat, torn>>

(* event_bb_insert ends every block with flush_head_cache.                 *)
BlockEnd ==
    /\ pc = "run"
    /\ head' = cached
    /\ MirrorBp
    /\ UNCHANGED <<slots, tail, backpressure, terminal, phase, modphase,
                   cached, scratch1, nesting, seqI, seqC, rdbuf, control,
                   engine, history>>

-----------------------------------------------------------------------------
(* Clean calls.  All of them publish the cached head, then push.           *)

CleanCall(items) ==
    /\ head' = cached
    /\ MirrorBp
    /\ todo' = items
    /\ ret' = pc
    /\ pc' = "push"

(* maybe_emit_module_load: only the call that wins the CAS 1 -> 2 pushes.  *)
MaybeModuleLoad == IF modphase = 1 THEN <<"modload">> ELSE <<>>

(* at_call: MODULE_LOAD if it is still due, the CALL, then the register    *)
(* snapshot.                                                               *)
AtCall ==
    /\ pc = "run" /\ phase = "TRACE"
    /\ Point("call")
    /\ CleanCall(MaybeModuleLoad \o <<"one", "snap">>)
    /\ modphase' = 2
    /\ UNCHANGED <<slots, tail, backpressure, terminal, phase,
                   cached, scratch1, nesting, seqI, seqC, rdbuf, wide,
                   engine, history>>

\* a clean call that pushes one event
PushOne(op) ==
    /\ pc = "run"
    /\ Point(op)
    /\ CleanCall(<<"one">>)
    /\ UNCHANGED <<slots, tail, backpressure, terminal, phase, modphase,
                   cached, scratch1, nesting, seqI, seqC, rdbuf, wide,
                   engine, history>>

(* at_return and at_tail_call.                                             *)
AtReturn == phase = "TRACE" /\ PushOne("return")

(* at_reload: a callee-saved register is loaded back from the stack.       *)
AtReload == phase = "TRACE" /\ PushOne("reload")

(* wrap_malloc_post, wrap_realloc_pre, wrap_realloc_post, wrap_free_pre:   *)
(* the allocator wrappers are not gated by the phase.                      *)
WrapAlloc == PushOne("alloc")

(* at_mem_read_buf: under backpressure only a bloom hit is buffered.  The  *)
(* buffer has room: flush_read_buf_if_needed has run before.               *)
AtMemReadBuf(it) ==
    /\ pc \in {"run", "write"} /\ phase = "TRACE"
    /\ Len(rdbuf) < RdBufCap
    /\ Point("read")
    /\ \/ /\ backpressure # 0 /\ it = "read"
          /\ Bump("shedReads")
          /\ UNCHANGED rdbuf
       \/ /\ backpressure = 0 \/ it = "prio"
          /\ rdbuf' = Append(rdbuf, it)
          /\ UNCHANGED stat
    /\ UNCHANGED <<shared, cached, bp, scratch1, nesting, seqI, seqC,
                   pc, ret, wide, todo, engine, holes, torn>>

(* flush_read_buf at the end of a block, and flush_read_buf_if_needed      *)
(* before a read that finds the buffer full.  event_bb_insert places the   *)
(* latter after the pre-write code of the same instruction, so it also     *)
(* runs while a write is in flight.                                        *)
FlushReadBuf ==
    /\ phase = "TRACE"
    /\ rdbuf # <<>>
    /\ \/ pc = "run"
       \/ /\ pc = "write" /\ Len(rdbuf) = RdBufCap
          /\ scratch1 \in {NoSlot, cached}      \* once per instruction
    /\ CleanCall(rdbuf)
    /\ rdbuf' = <<>>
    /\ UNCHANGED <<slots, tail, backpressure, terminal, phase, modphase,
                   cached, scratch1, nesting, seqI, seqC, wide, ops,
                   engine, history>>

\* the handler goes on with its next push, or returns
NextItem == /\ todo' = Tail(todo)
            /\ IF Tail(todo) = <<>>
               THEN pc' = ret /\ ret' = "run"
               ELSE pc' = "push" /\ UNCHANGED ret

Shed(it) == it \in {"read", "prio"} /\ backpressure # 0

\* mutant: a snapshot is let in when a single slot is free
FullForOne(it) == head - tail >= Capacity

\* DROP_ON_FULL: h - t >= capacity, or h - t + 7 > capacity for a snapshot
Full(it) == head - tail + ItemSlots(it) > Capacity

(* tls_next_seq, then rtmap_push_sampled / rtmap_push_ex_flags /           *)
(* rtmap_push_alloc / rtmap_push_reg_snapshot up to the full check.  The   *)
(* sequence number is spent even when nothing is pushed.  Only the rc = 1  *)
(* of push_sampled is counted by a caller, never the -1 of a full ring.    *)
PushCheck ==
    /\ pc = "push"
    /\ seqC' = seqC + 1
    /\ LET it == Head(todo)
       IN \/ /\ Shed(it)
             /\ stat' = [stat EXCEPT !.dropped = @ + 1]
             /\ NextItem
             /\ MirrorBp
          \/ /\ ~Shed(it) /\ Full(it)
             /\ stat' = [stat EXCEPT !.refused = @ + 1]
             /\ NextItem
             /\ MirrorBp
          \/ /\ ~Shed(it) /\ ~Full(it)
             /\ pc' = "slot"
             /\ UNCHANGED <<todo, ret, stat, bp>>
    /\ UNCHANGED <<shared, cached, scratch1, nesting, seqI, rdbuf, wide,
                   ops, engine, holes, torn>>

(* The plain stores of the push.                                           *)
PushSlot ==
    /\ pc = "slot"
    /\ slots' = PutRun(head, ItemRun(Head(todo), head, seqC - 1))
    /\ pc' = "publish"
    /\ UNCHANGED <<head, tail, backpressure, terminal, phase, modphase, thread,
                   ret, wide, todo, ops, engine, history>>

\* sync_head_cache
SyncHead == cached' = head'

(* The release store of the head, and sync_head_cache after it.            *)
PushPublish ==
    /\ pc = "publish"
    /\ head' = head + ItemSlots(Head(todo))
    /\ SyncHead
    /\ MirrorBp
    /\ NextItem
    /\ UNCHANGED <<slots, tail, backpressure, terminal, phase, modphase,
                   scratch1, nesting, seqI, seqC, rdbuf, wide, ops,
                   engine, history>>

-----------------------------------------------------------------------------
(* System calls and the end of the thread.                                 *)

\* mutant: the exit path leaves the publication to event_thread_exit
PreSyscallLate(exit) ==
    /\ pc = "run"
    /\ IF exit THEN UNCHANGED ops ELSE Point("syscall")
    /\ head' = IF exit THEN head ELSE cached
    /\ pc' = IF exit THEN "term" ELSE "sys"
    /\ UNCHANGED <<slots, tail, backpressure, terminal, phase, modphase, thread,
                   ret, wide, todo, engine, history>>

(* event_pre_syscall: publish the cached head; the tier is not mirrored.   *)
(* exit and exit_group go on to the TERMINAL store.                        *)
PreSyscall(exit) ==
    /\ pc = "run"
    /\ IF exit THEN UNCHANGED ops ELSE Point("syscall")
    /\ head' = cached
    /\ pc' = IF exit THEN "term" ELSE "sys"
    /\ UNCHANGED <<slots, tail, backpressure, terminal, phase, modphase, thread,
                   ret, wide, todo, engine, history>>

(* event_post_syscall: a shared mmap or a munmap pushes SHARED_MAP; there  *)
(* is no flush here, the pre-syscall one is relied on.                     *)
PostSyscall ==
    /\ pc = "sys"
    /\ \/ /\ pc' = "run"
          /\ UNCHANGED <<ret, todo>>
       \/ /\ phase = "TRACE"
          /\ todo' = <<"one">>
          /\ ret' = "run"
          /\ pc' = "push"
    /\ UNCHANGED <<shared, thread, wide, ops, engine, history>>

\* mutant: the thread exit forgets the TERMINAL store
SetTerminalOnce ==
    /\ pc \in {"term", "exiting"}
    /\ terminal' = (terminal \/ pc = "term")
    /\ pc' = IF pc = "term" THEN "exit" ELSE "done"
    /\ UNCHANGED <<slots, head, tail, backpressure, phase, modphase, thread,
                   ret, wide, todo, ops, engine, history>>

\* status := TERMINAL, by the pre-syscall hook and again by the thread exit
SetTerminal ==
    /\ pc \in {"term", "exiting"}
    /\ terminal' = TRUE
    /\ pc' = IF pc = "term" THEN "exit" ELSE "done"
    /\ UNCHANGED <<slots, head, tail, backpressure, phase, modphase, thread,
                   ret, wide, todo, ops, engine, history>>

(* event_thread_exit: reached from the exit system call, or at any point   *)
(* of its code when another thread ends the process.                       *)
ThreadExit ==
    /\ pc \in {"run", "write", "sys", "exit"}
    /\ head' = cached
    /\ MirrorBp
    /\ pc' = "exiting"
    /\ stat' = IF pc = "write" /\ scratch1 # NoSlot
               THEN [stat EXCEPT !.abandoned = @ + 1] ELSE stat
    /\ UNCHANGED <<slots, tail, backpressure, terminal, phase, modphase,
                   cached, scratch1, nesting, seqI, seqC, rdbuf,
                   ret, wide, todo, ops, engine, holes, torn>>

-----------------------------------------------------------------------------
(* The engine.  One loop: drain a batch, process it, adjust backpressure.  *)

Min2(a, b) == IF a <= b THEN a ELSE b

\* mutant: the check after the copy never fires
NeverLappedSince == FALSE

\* consume_batch's second load: is the head more than a ring past the batch?
LappedSince == head - rt > Capacity

\* mutant: the second resync counts from the shared tail
LossFromTail == head - Capacity - tail

\* record_lap of the second resync: from the batch start, already resynced
LossSince == head - Capacity - rt

CopyIndex == (rt + Len(out)) % Capacity

(* consume_batch up to the copy: load the cursors and, if the published    *)
(* head is more than a ring ahead, count the loss and resync.              *)
ConsumeStart ==
    /\ cpc = "idle"
    /\ LET t == IF head - tail > Capacity THEN head - Capacity ELSE tail
           n == Min2(head - t, BatchLimit)
       IN \/ /\ n = 0
             /\ cpc' = "retire"
             /\ UNCHANGED <<rt, rcap, lapped>>
          \/ /\ n > 0
             /\ cpc' = "copy"
             /\ rt' = t /\ rcap' = n
             /\ lapped' = lapped + (t - tail)
    /\ UNCHANGED <<shared, thread, control, out, runTail, alive, delivered,
                   pending, expected, gaps, history>>

(* One turn of the copy loop: a run that does not fit ends the batch.      *)
CopySlot ==
    /\ cpc = "copy"
    /\ LET n  == Len(out)
           ev == slots[CopyIndex]
       IN  \/ /\ runTail = 0 /\ n + RunSlots(ev) > rcap
              /\ cpc' = "check"
              /\ UNCHANGED <<out, runTail>>
           \/ /\ runTail # 0 \/ n + RunSlots(ev) <= rcap
              /\ out' = Append(out, ev)
              /\ runTail' = (IF runTail = 0 THEN RunSlots(ev) ELSE runTail) - 1
              /\ cpc' = IF n + 1 = rcap THEN "check" ELSE "copy"
    /\ UNCHANGED <<shared, thread, control, rt, rcap, alive, lapped, delivered,
                   pending, expected, gaps, history>>

(* The second load of the head: discard the batch if the producer is more  *)
(* than a ring ahead by now, else give the slots back and return them.     *)
(* torn records that an event of a later position went out in their place. *)
Recheck ==
    /\ cpc = "check"
    /\ \/ /\ LappedSince
          /\ lapped' = lapped + LossSince
          /\ tail' = head - Capacity
          /\ UNCHANGED <<pending, delivered, torn>>
       \/ /\ ~LappedSince
          /\ tail' = rt + Len(out)
          /\ pending' = out
          /\ delivered' = delivered + Len(out)
          /\ torn' = (torn \/ \E k \in 1..Len(out) : out[k].at > rt + k - 1)
          /\ UNCHANGED lapped
    /\ cpc' = "retire"
    /\ rt' = 0 /\ rcap' = 0 /\ out' = <<>> /\ runTail' = 0    \* locals
    /\ UNCHANGED <<slots, head, backpressure, terminal, phase, modphase, thread,
                   control, alive, expected, gaps, stat, holes>>

(* batch_drain after each ring: a terminal, drained ring is retired.       *)
RetireCheck ==
    /\ cpc = "retire"
    /\ alive' = (alive /\ ~(terminal /\ head = tail))
    /\ cpc' = "process"
    /\ UNCHANGED <<shared, thread, control, rt, rcap, out, runTail, lapped,
                   delivered, pending, expected, gaps, history>>

(* poll_new_rings: the ended thread's control entry is DEAD.  Its ring     *)
(* stops being alive at once, drained or not; batch_drain goes on with it. *)
PollDead ==
    /\ cpc = "idle" /\ pc = "done" /\ alive
    /\ alive' = FALSE
    /\ UNCHANGED <<shared, thread, control, cpc, rt, rcap, out, runTail, lapped,
                   delivered, pending, expected, gaps, history>>

\* apply_reg_snapshot: a full run of snapshot slots, or one slot skipped
SnapshotApplies == /\ Len(pending) >= SnapSlots
                   /\ \A k \in 1..SnapSlots : pending[k].kind = "snap"

Consumed == IF Head(pending).kind = "snap" /\ SnapshotApplies
            THEN SnapSlots ELSE 1

(* The event loop of run_headless: the sequence check of the event's       *)
(* domain, then process_event or apply_reg_snapshot.                       *)
ProcessEvent ==
    /\ cpc = "process" /\ pending # <<>>
    /\ LET ev == Head(pending)
       IN IF ev.kind = "cont"
          THEN UNCHANGED <<expected, gaps>>
          ELSE /\ gaps' = IF expected[ev.dom] \in {-1, ev.seq}
                          THEN gaps ELSE gaps + 1
               /\ expected' = [expected EXCEPT ![ev.dom] = ev.seq + 1]
    /\ pending' = SubSeq(pending, Consumed + 1, Len(pending))
    /\ UNCHANGED <<shared, thread, control, cpc, rt, rcap, out, runTail, alive,
                   lapped, delivered, history>>

\* the tier for a fill in eighths: hysteresis between 3/8 and 6/8
Tier(eighths, cur) == CASE eighths >= 7 -> 2
                        [] eighths = 6  -> 1
                        [] eighths < 3  -> 0
                        [] OTHER        -> cur

(* End of the drain: RingOrchestrator::update_backpressure.                *)
UpdateBackpressure ==
    /\ cpc = "process" /\ pending = <<>>
    /\ backpressure' = Tier(((head - tail) * 8) \div Capacity, backpressure)
    /\ cpc' = "idle"
    /\ UNCHANGED <<slots, head, tail, terminal, phase, modphase, thread,
                   control, rt, rcap, out, runTail, alive, lapped, delivered,
                   pending, expected, gaps, history>>

\* the inner loop drains again before backpressure is looked at
DrainAgain ==
    /\ cpc = "process" /\ pending = <<>>
    /\ cpc' = "idle"
    /\ UNCHANGED <<shared, thread, control, rt, rcap, out, runTail, alive,
                   lapped, delivered, pending, expected, gaps, history>>

-----------------------------------------------------------------------------
Inline == \/ BbEntry \/ BbCommit
          \/ \E w \in BOOLEAN : PreWrite(w)
          \/ StoreFaults \/ PostWrite \/ PostCommit \/ BlockEnd

Clean == \/ AtCall \/ AtReturn \/ AtReload \/ WrapAlloc
         \/ \E it \in {"read", "prio"} : AtMemReadBuf(it)
         \/ FlushReadBuf \/ PushCheck \/ PushSlot \/ PushPublish

Ending == \/ \E exit \in BOOLEAN : PreSyscall(exit)
          \/ PostSyscall \/ SetTerminal \/ ThreadExit

Producer == TripwireHit \/ Inline \/ Clean \/ Ending

Consumer == \/ ConsumeStart \/ CopySlot \/ Recheck \/ RetireCheck
            \/ ProcessEvent \/ UpdateBackpressure \/ DrainAgain \/ PollDead

Next == Producer \/ Consumer

Spec == Init /\ [][Next]_vars

\* the engine's loop never blocks: it polls until the run is over
FairSpec == Spec /\ WF_vars(Consumer)

-----------------------------------------------------------------------------
(* Safety.                                                                 *)

(* The consumer never passes the published head and the published head     *)
(* never passes the producer's cached one, although clean calls, inline    *)
(* commits and the periodic publication all move them separately.          *)
CursorOrder == tail <= head /\ head <= cached

(* Every position the consumer has left behind is either delivered or      *)
(* counted by record_lap, exactly once, whichever of the two resyncs of    *)
(* consume_batch was taken.                                                *)
Accounting ==
    delivered + lapped = IF cpc \in {"copy", "check"} THEN rt ELSE tail

(* What the second head check of consume_batch really guarantees: a        *)
(* delivered slot holds the event of its position, unless the position was *)
(* committed without a write, or the producer had reused the slot for a    *)
(* position it had not published yet.                                      *)
IntactAt(k) == LET p == rt + k - 1
               IN  \/ out[k].at = p
                   \/ p \in holes
                   \/ out[k].at > p /\ out[k].at >= head

DeliveredIntact ==
    [][delivered' # delivered => \A k \in 1..Len(out) : IntactAt(k)]_vars

(* The full check of the clean-call pushes is enough on its own: as long   *)
(* as no inline path has written to the ring, nothing unread is ever       *)
(* overwritten, so nothing is lapped and nothing torn.                     *)
NoInlineWrites == stat.offered = stat.shed + stat.reent

CleanNeverLaps ==
    NoInlineWrites => head - tail <= Capacity /\ lapped = 0 /\ ~torn

(* The stream the engine sees is damaged: the consumer was lapped, an      *)
(* overwritten event was delivered, or a position was never written.       *)
Damaged == lapped > 0 \/ torn \/ holes # {}

(* Every sequence gap the engine reports has a cause: a push refused by a  *)
(* full ring, a read dropped under backpressure, or a damaged stream.      *)
GapsExplained ==
    gaps > 0 => stat.refused > 0 \/ stat.dropped > 0 \/ Damaged

(* On an undamaged stream every register snapshot reaches                  *)
(* apply_reg_snapshot whole: batches never end inside a run, although the  *)
(* consumer cannot tell a snapshot's header from its continuations.        *)
SnapshotsWhole ==
    (cpc = "process" /\ pending # <<>> /\ ~Damaged) =>
        (Head(pending).kind = "snap" =>
            SnapshotApplies /\ \A k \in 1..SnapSlots : pending[k].off = k - 1)

InWrite == pc = "write" \/ (pc \in {"push", "slot", "publish"} /\ ret = "write")

InFlight == pc \in {"bb", "post"} \/ (InWrite /\ scratch1 # NoSlot)

Counted ==
    stat.offered = seqI + stat.shed + stat.reent + stat.abandoned
                   + (IF InFlight THEN 1 ELSE 0)

(* The nesting guard always disarms: a faulting store costs at most one    *)
(* re-entrancy drop.                                                       *)
GuardDisarms == stat.reent + (IF pc = "run" THEN nesting ELSE 0) <= stat.faults

(* Shedding and re-entrancy drops are never silent: an inline event that   *)
(* was offered is committed, in flight, in a counter, or was abandoned by  *)
(* a fault or by the end of the thread in the middle of its write; and a   *)
(* fault does not make the thread drop events from then on.                *)
Conservation == Counted /\ GuardDisarms

(* A ring the engine counts as finished, because it is drained and         *)
(* TERMINAL or because its thread is DEAD, has nothing left to publish:    *)
(* its producer's cached head holds no event the engine would never see.   *)
RetiredFinal == ~alive => terminal /\ head = cached

(* The ring implements the lossy channel: published events are taken or    *)
(* reported lost, each at most once, and none appears after TERMINAL.      *)
Channel == INSTANCE EventChannel
               WITH published <- head, taken <- delivered,
                    lost <- lapped, closed <- terminal

ImplementsChannel == Channel!Spec

-----------------------------------------------------------------------------
(* Liveness, under FairSpec.                                               *)

(* The last-gasp drain: when the thread has ended, an undamaged ring is    *)
(* drained to its last event and retired.                                  *)
TerminalRetired == pc = "done" ~> (tail = head /\ ~alive) \/ Damaged

=============================================================================
