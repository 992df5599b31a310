---------------------------- MODULE RtmapEngine ----------------------------
(***************************************************************************)
(* One session of the engine, from launch to cleanup                       *)
(* (src/engine/src/main.rs): the tracer process, the reaper thread that    *)
(* waits for it, the consumer thread that attaches, drains and records     *)
(* (run_consumer, run, run_headless), and the main thread that joins it    *)
(* and cleans up; and the replay of the recording (record.rs, run_replay). *)
(*                                                                         *)
(* Rings neither lose nor tear events here (RtmapRing's subject), a poll   *)
(* opens every registered ring (RtmapCtl's), and one child process stands  *)
(* for all (RtmapFork's).  The child writes without end, so its events are *)
(* not kept in the histories.                                              *)
(***************************************************************************)
EXTENDS Naturals, Sequences, FiniteSets, SequencesExt

CONSTANTS
    Threads,        \* number of threads of the target
    Script,         \* kinds of the events the target makes, in order
    SnapSlots,      \* slots of a register snapshot (7)
    PerRing,        \* slots taken from a ring at once (4096)
    Budget,         \* batches of one turn of the loop (500 000 events)
    IdleLimit,      \* empty rounds before an idle exit (50, server: 200)
    MinEvents,      \* --min-events
    WarmAfter,      \* events before the warm scan (100 000)
    Retries,        \* attempts to attach after the tracer's death (5)
    Deadline,       \* attempts to attach before giving up (30 s)
    ReplayBatch     \* slots of a batch of run_replay (4096)

Kinds == {"ev", "snap"}

ASSUME SizeAssumption ==
    /\ SnapSlots \in Nat \ {0, 1} /\ Script \in Seq(Kinds)
    /\ PerRing \in Nat /\ PerRing >= SnapSlots
    /\ ReplayBatch \in Nat /\ ReplayBatch >= SnapSlots
    /\ {Threads, Budget, IdleLimit, MinEvents, WarmAfter, Retries, Deadline} \subseteq Nat

VARIABLES
    \* the session: mode of RunConfig
    mode,
    \* the target: life, control ring in shm, number of threads registered
    \* in it, the rings' contents, items made, tripwire_hit
    tproc, ctl, registered, ring, made, tripwire,
    \* the child: its life as the engine sees it, events waiting in its ring
    kid, kq,
    \* the flags TRACER_EXITED and GOT_SIGNAL
    exited, sig,
    \* the consumer: where it is, control ring mapped, number of rings
    \* open and rr_idx, attempts, events, empty rounds, locals of a turn
    pc, attached, open, rr, tries, total, idle, drained, tick, paused, warm,
    \* the recording: slots, event_count of the header
    log, count,
    \* the main thread
    mpc,
    \* history: what was processed, why the loop ended
    trace, cause

target == <<tproc, ctl, registered, ring, made, tripwire>>
child == <<kid, kq>>
flags == <<exited, sig>>
turn == <<drained, tick>>
consumer == <<attached, open, rr, tries, total, idle, turn, paused, warm>>
record == <<log, count>>
vars == <<mode, target, child, flags, pc, consumer, record, mpc, trace, cause>>

Slots(item) == IF item[1] = "snap" THEN SnapSlots ELSE 1
Least(a, b) == IF a <= b THEN a ELSE b
SlotCount(s) ==
    Len(s) + (SnapSlots - 1) * Cardinality({i \in DOMAIN s : s[i][1] = "snap"})

(* Only comparisons with the two thresholds look at the number of events.  *)
TotalCap == IF MinEvents > WarmAfter THEN MinEvents ELSE WarmAfter + 1

Ended == pc \in {"ended", "failed"}
Headless == mode # "live"

Init ==
    /\ mode \in {"normal", "server", "live"}
    /\ tproc = "spawned" /\ ctl = FALSE /\ registered = 0
    /\ ring = [t \in 1..Threads |-> <<>>] /\ made = 0 /\ tripwire = FALSE
    /\ kid = "none" /\ kq = 0
    /\ exited = FALSE /\ sig = FALSE
    /\ pc = "wait" /\ attached = FALSE /\ open = 0 /\ rr = 0 /\ tries = 0
    /\ total = 0 /\ idle = 0 /\ drained = FALSE /\ tick = 0
    /\ paused = FALSE /\ warm = FALSE
    /\ log = <<>> /\ count = 0 /\ mpc = "join"
    /\ trace = <<>> /\ cause = "none"

----------------------------------------------------------------------------
(* The target under the tracer, and a child it forks.  What they still do  *)
(* once the consumer is through is left out, but for the life of the       *)
(* tracer and its control ring.                                            *)

MapCtl ==
    /\ tproc = "spawned"
    /\ tproc' = "up" /\ ctl' = TRUE
    /\ UNCHANGED <<mode, registered, ring, made, tripwire, child, flags, pc,
                   consumer, record, mpc, trace, cause>>

(* Thread ids, and with them the entries of the control ring, are given    *)
(* out in order.                                                           *)
Register ==
    /\ tproc = "up" /\ registered < Threads /\ ~Ended
    /\ registered' = registered + 1
    /\ UNCHANGED <<mode, tproc, ctl, ring, made, tripwire, child, flags, pc,
                   consumer, record, mpc, trace, cause>>

Produce(t) ==
    /\ tproc = "up" /\ t <= registered /\ made < Len(Script) /\ ~Ended
    /\ made' = made + 1
    /\ ring' = [ring EXCEPT ![t] = Append(@, <<Script[made'], t, made'>>)]
    /\ UNCHANGED <<mode, tproc, ctl, registered, tripwire, child, flags, pc,
                   consumer, record, mpc, trace, cause>>

TripwireHit ==
    /\ tproc = "up" /\ mode = "server" /\ ~tripwire /\ ~Ended
    /\ tripwire' = TRUE
    /\ UNCHANGED <<mode, tproc, ctl, registered, ring, made, child, flags, pc,
                   consumer, record, mpc, trace, cause>>

(* The target ends by itself and unlinks its control ring, or is killed.   *)
TargetEnd(clean) ==
    /\ tproc # "dead" /\ (clean => tproc = "up")
    /\ tproc' = "dead"
    /\ ctl' = (ctl /\ ~clean)
    /\ UNCHANGED <<mode, registered, ring, made, tripwire, child, flags, pc,
                   consumer, record, mpc, trace, cause>>

KidFork ==
    /\ tproc = "up" /\ kid = "none" /\ ~Ended
    /\ kid' = "forked"
    /\ UNCHANGED <<mode, target, kq, flags, pc, consumer, record, mpc, trace, cause>>

KidWrite ==
    /\ kid \in {"forked", "attached"} /\ kq = 0 /\ ~Ended
    /\ kq' = 1
    /\ UNCHANGED <<mode, target, kid, flags, pc, consumer, record, mpc, trace, cause>>

(* An attached child dies; one the engine has not seen is never attached.  *)
KidEnd ==
    /\ kid \in {"forked", "attached"} /\ ~Ended
    /\ kid' = IF kid = "attached" THEN "dead" ELSE "gone"
    /\ UNCHANGED <<mode, target, kq, flags, pc, consumer, record, mpc, trace, cause>>

----------------------------------------------------------------------------
(* The reaper thread, and the user *)

(* waitpid returns; TRACER_EXIT_STATUS, then TRACER_EXITED are stored.      *)
Reap ==
    /\ tproc = "dead" /\ ~exited
    /\ exited' = TRUE
    /\ UNCHANGED <<mode, target, child, sig, pc, consumer, record, mpc, trace, cause>>

Signal ==
    /\ ~sig /\ ~Ended
    /\ sig' = TRUE
    /\ UNCHANGED <<mode, target, child, exited, pc, consumer, record,
                   mpc, trace, cause>>

----------------------------------------------------------------------------
(* run_consumer: waiting for the control ring and a first thread *)

(* poll_new_rings: every registered ring is opened.                        *)
Poll == open' = registered

(* try_attach_ctl_for_pid, then poll_new_rings, then run if a ring is open *)
TryAttach(otherwise) ==
    /\ attached' = (attached \/ ctl)
    /\ IF attached' THEN Poll ELSE UNCHANGED open
    /\ pc' = IF open' > 0 THEN "loop" ELSE otherwise

WaitSignal ==
    /\ pc = "wait" /\ sig
    /\ pc' = "ended" /\ cause' = "signal"
    /\ UNCHANGED <<mode, target, child, flags, consumer, record, mpc, trace>>

WaitTracerGone ==
    /\ pc = "wait" /\ ~sig /\ exited
    /\ pc' = "retry" /\ tries' = 0
    /\ UNCHANGED <<mode, target, child, flags, attached, open, rr, total, idle,
                   turn, paused, warm, record, mpc, trace, cause>>

(* The deadline has passed: process::exit(1).                              *)
WaitTimeout ==
    /\ pc = "wait" /\ ~sig /\ ~exited /\ tries >= Deadline
    /\ pc' = "failed" /\ mpc' = "gone"
    /\ UNCHANGED <<mode, target, child, flags, consumer, record, trace, cause>>

WaitAttach ==
    /\ pc = "wait" /\ ~sig /\ ~exited /\ tries < Deadline
    /\ TryAttach("wait")
    /\ tries' = tries + 1
    /\ UNCHANGED <<mode, target, child, flags, rr, total, idle, turn, paused,
                   warm, record, mpc, trace, cause>>

(* After the tracer's death: a few attempts, then process::exit(1).        *)
RetryAttach ==
    /\ pc = "retry" /\ tries < Retries
    /\ TryAttach("retry")
    /\ tries' = tries + 1
    /\ UNCHANGED <<mode, target, child, flags, rr, total, idle, turn, paused,
                   warm, record, mpc, trace, cause>>

RetryGiveUp ==
    /\ pc = "retry" /\ tries >= Retries
    /\ pc' = "failed" /\ mpc' = "gone"
    /\ UNCHANGED <<mode, target, child, flags, consumer, record, trace, cause>>

----------------------------------------------------------------------------
(* The loops of run and run_headless *)

(* The key that ends the terminal interface.                               *)
Quit ==
    /\ pc = "loop" /\ mode = "live"
    /\ pc' = "finish" /\ cause' = "quit"
    /\ UNCHANGED <<mode, target, child, flags, consumer, record, mpc, trace>>

(* child_count() > 0                                                       *)
HasChild == kid \in {"attached", "dead"}

(* The child tracker attaches a child, or drops one that is gone and quiet *)
TrackChild ==
    CASE kid = "forked" -> kid' \in {"forked", "attached"}
      [] kid = "dead" /\ kq = 0 -> kid' \in {"dead", "gone"}
      [] OTHER -> UNCHANGED kid

(* A turn begins: the terminal interface may have been paused; every       *)
(* 200 ms poll_new_rings and discover.                                     *)
BeginTurn(due) ==
    /\ pc = "loop"
    /\ paused' \in IF Headless THEN {FALSE} ELSE BOOLEAN
    /\ IF due
       THEN Poll /\ TrackChild
       ELSE UNCHANGED <<open, kid>>
    /\ pc' = IF paused' THEN "loop" ELSE "drain"
    /\ UNCHANGED <<mode, target, kq, flags, attached, rr, tries, total,
                   idle, turn, warm, record, mpc, trace, cause>>

(* consume_batch: whole items, as many as fit.                             *)
Fits(t) ==
    CHOOSE n \in 0..Len(ring[t]) :
        /\ SlotCount(SubSeq(ring[t], 1, n)) <= PerRing
        /\ \A m \in (n + 1)..Len(ring[t]) : SlotCount(SubSeq(ring[t], 1, m)) > PerRing

(* RingOrchestrator::batch_drain: the rings in turn, from rr_idx on.       *)
Turn(i) == ((rr + i) % open) + 1
BatchDrain ==
    LET from[i \in 0..open] ==
            IF i = open THEN <<>>
            ELSE SubSeq(ring[Turn(i)], 1, Fits(Turn(i))) \o from[i + 1]
    IN from[0]

Consume ==
    /\ ring' = [t \in 1..Threads |-> IF t <= open
                    THEN SubSeq(ring[t], Fits(t) + 1, Len(ring[t]))
                    ELSE ring[t]]
    /\ rr' = (rr + 1) % open

(* record_reg_snapshot writes a header and its continuations, record one   *)
(* slot.  A slot is the item it belongs to and its place in it.            *)
SlotsOf(item) == [k \in 1..Slots(item) |-> <<item, k>>]
Recorded(items) == FlattenSeq([i \in DOMAIN items |-> SlotsOf(items[i])])

(* The parent's events and n of the children are processed and recorded.   *)
Process(items, n) ==
    /\ trace' = trace \o items
    /\ log' = log \o Recorded(items)
    /\ total' = Least(total + SlotCount(items) + n, TotalCap)

ServesChildrenWithRoot(got) == got > 0
(* The terminal interface leaves the inner loop when the parent's rings    *)
(* are empty, before it comes to the children; run_headless does not.      *)
ServesChildren(got) == Headless \/ got > 0

(* child_tracker.batch_drain, and what it gives to process_event.          *)
ChildEvents(items) ==
    IF HasChild /\ ServesChildren(Len(items)) THEN kq ELSE 0

ProcessChildren(n) == kq' = kq - n

(* A turn of the inner loop: the parent's rings, then the children's.  It  *)
(* is the last one when neither gave an event or the budget is spent.      *)
Batch ==
    /\ pc = "drain"
    /\ LET items == BatchDrain
           n == ChildEvents(items)
           empty == items = <<>> /\ n = 0
       IN /\ Process(items, n)
          /\ ProcessChildren(n)
          /\ drained' = (drained \/ ~empty)
          /\ tick' = tick + 1
          /\ pc' = IF empty \/ tick' >= Budget THEN "after" ELSE "drain"
    /\ Consume
    /\ UNCHANGED <<mode, tproc, ctl, registered, made, tripwire, kid, flags,
                   attached, open, tries, idle, paused, warm, count, mpc, cause>>

Armed ==
    IF mode = "server" THEN tripwire \/ HasChild ELSE total >= MinEvents

GivesUpArmed(rounds) ==
    ~(mode = "server" /\ HasChild) /\ Armed /\ rounds >= IdleLimit
(* The exit condition of a turn without events.                            *)
GivesUp(rounds) ==
    \/ exited
    \/ ~(mode = "server" /\ HasChild) /\ Armed /\ rounds >= IdleLimit

SweptUnpolled == UNCHANGED open
(* The final sweep begins with a last poll_new_rings.                      *)
Swept == Poll

(* The rest of a turn: library globals are relocated once a module is      *)
(* known (any event stands for it), then comes the warm scan, which ends   *)
(* the process when the target's memory cannot be opened; last, in         *)
(* run_headless, the signal.  The locals of the turn go out of scope.      *)
ScanDue == ~warm /\ total > WarmAfter

House ==
    /\ IF ScanDue /\ tproc = "dead"
       THEN /\ pc' = "failed" /\ mpc' = "gone"
            /\ UNCHANGED <<warm, cause>>
       ELSE /\ warm' = (warm \/ ScanDue)
            /\ IF Headless /\ sig
               THEN pc' = "finish" /\ cause' = "signal"
               ELSE pc' = "loop" /\ UNCHANGED cause
            /\ UNCHANGED mpc
    /\ drained' = FALSE /\ tick' = 0

(* A turn of run_headless without events: exit, or sleep and go on.        *)
IdleRound ==
    /\ pc = "after" /\ Headless /\ ~drained
    /\ idle' = Least(idle + 1, IdleLimit)
    /\ IF GivesUp(idle + 1)
       THEN /\ pc' = "sweep" /\ Swept
            /\ cause' = IF exited THEN "gone" ELSE "idle"
            /\ UNCHANGED <<warm, mpc, turn>>
       ELSE House /\ UNCHANGED open
    /\ UNCHANGED <<mode, target, child, flags, attached, rr, tries, total, paused,
                   record, trace>>

BusyRound ==
    /\ pc = "after" /\ (drained \/ ~Headless)
    /\ idle' = 0
    /\ House
    /\ UNCHANGED <<mode, target, child, flags, attached, open, rr, tries, total,
                   paused, record, trace>>

(* One batch of the final sweep, which takes the parent's rings only and   *)
(* gives every slot to process_event and to record.                        *)
SweepBatch ==
    /\ pc = "sweep"
    /\ Process(BatchDrain, 0) /\ Consume
    /\ pc' = IF BatchDrain = <<>> THEN "finish" ELSE "sweep"
    /\ UNCHANGED <<mode, tproc, ctl, registered, made, tripwire, child, flags,
                   attached, open, tries, idle, turn, paused, warm, count, mpc, cause>>

FinalCountStale == count
(* EventRecorder::finish writes event_count into the header, 0 till then.  *)
FinalCount == Len(log)

(* The end of run.                                                         *)
Finish ==
    /\ pc = "finish"
    /\ count' = FinalCount
    /\ pc' = "ended"
    /\ UNCHANGED <<mode, target, child, flags, consumer, log, mpc, trace, cause>>

----------------------------------------------------------------------------
(* The main thread after the join *)

JoinUnwaited == UNCHANGED <<tproc, ctl>>
(* SIGTERM to a tracer that is not known to be gone, and waitpid.          *)
KillAndWait ==
    /\ tproc' = "dead"
    /\ ctl' \in IF tproc = "up" THEN {FALSE, ctl} ELSE {ctl}

Join ==
    /\ mpc = "join" /\ pc = "ended"
    /\ mpc' = "cleanup"
    /\ IF exited THEN UNCHANGED <<tproc, ctl>> ELSE KillAndWait
    /\ UNCHANGED <<mode, registered, ring, made, tripwire, child, flags, pc,
                   consumer, record, trace, cause>>

(* cleanup_shm and cleanup_shm_for_pid.                                    *)
Cleanup ==
    /\ mpc = "cleanup"
    /\ mpc' = "done" /\ ctl' = FALSE /\ registered' = 0
    /\ UNCHANGED <<mode, tproc, ring, made, tripwire, child, flags, pc, consumer,
                   record, trace, cause>>

----------------------------------------------------------------------------
(* Replay of the recording *)

IsReg(slot) == slot[1][1] = "snap"

(* apply_reg_snapshot on the slots from position i of a batch.             *)
Applies(b, i) ==
    i + SnapSlots - 1 <= Len(b) /\ \A k \in i..(i + SnapSlots - 1) : IsReg(b[k])

AppliedSlots(b, i) == IF Applies(b, i) THEN SnapSlots ELSE 1

(* One batch of run_replay: an event is processed, a snapshot applied with *)
(* the slots it is made from, any other REG_SNAPSHOT slot skipped.         *)
ReplayedBatch(b) ==
    LET from[i \in 1..(Len(b) + SnapSlots + 1)] ==
            IF i > Len(b) THEN <<>>
            ELSE IF ~IsReg(b[i]) THEN <<<<b[i]>>>> \o from[i + 1]
            ELSE (IF Applies(b, i)
                  THEN <<SubSeq(b, i, i + SnapSlots - 1)>> ELSE <<>>)
                 \o from[i + AppliedSlots(b, i)]
    IN from[1]

(* The loop of run_replay: read_batch stops at event_count.                *)
Replayed ==
    FlattenSeq([j \in 1..((count + ReplayBatch - 1) \div ReplayBatch) |->
        ReplayedBatch(SubSeq(log, (j - 1) * ReplayBatch + 1,
                             Least(j * ReplayBatch, count)))])

----------------------------------------------------------------------------

TargetStep ==
    \/ MapCtl \/ TripwireHit \/ KidFork \/ KidWrite \/ KidEnd \/ Signal
    \/ \E clean \in BOOLEAN : TargetEnd(clean)
    \/ Register \/ \E t \in 1..Threads : Produce(t)

ConsumerStep ==
    \/ WaitSignal \/ WaitTracerGone \/ WaitTimeout \/ WaitAttach
    \/ RetryAttach \/ RetryGiveUp
    \/ Quit \/ \E due \in BOOLEAN : BeginTurn(due)
    \/ Batch \/ IdleRound \/ BusyRound \/ SweepBatch \/ Finish

MainStep == Join \/ Cleanup

(* The session is over.                                                    *)
Over == mpc \in {"done", "gone"} /\ UNCHANGED vars

Next ==
    \/ mpc \notin {"done", "gone"} /\ (TargetStep \/ Reap \/ ConsumerStep \/ MainStep)
    \/ Over

Spec == Init /\ [][Next]_vars

(* The threads of the engine run; nobody else is bound to do anything.     *)
FairSpec ==
    Spec /\ WF_vars(Reap) /\ WF_vars(ConsumerStep) /\ WF_vars(MainStep)

----------------------------------------------------------------------------
(* Properties *)

Plain(s) == FlattenSeq([i \in DOMAIN s |-> IF Len(s[i]) = 1 THEN <<s[i]>> ELSE <<>>])
AsReplayed(items) == [i \in DOMAIN items |-> SlotsOf(items[i])]

(* No snapshot of the recording crosses the end of a batch of the replay.  *)
Aligned ==
    \A i \in 1..Len(log) :
        (IsReg(log[i]) /\ log[i][2] = 1) =>
            (i - 1) \div ReplayBatch = (i + SnapSlots - 2) \div ReplayBatch

TypeOK ==
    /\ tproc \in {"spawned", "up", "dead"} /\ registered \in 0..Threads
    /\ kid \in {"none", "forked", "attached", "dead", "gone"} /\ kq \in 0..1
    /\ open \in 0..Threads /\ total \in 0..TotalCap
    /\ idle \in 0..IdleLimit /\ count \in {0, Len(log)}
    /\ mpc \in {"join", "cleanup", "done", "gone"}

(* Each thread's events are processed in the order it made them, and when  *)
(* the session ends because the tracer is gone none is left, also of a     *)
(* thread no poll had found before the sweep (run_headless).               *)
SweepComplete ==
    /\ TypeOK
    /\ \A i, j \in DOMAIN trace :
           (i < j /\ trace[i][2] = trace[j][2]) => trace[i][3] < trace[j][3]
    /\ (pc = "ended" /\ cause = "gone") => Len(trace) = made

(* When run returns, for whatever reason, the recording replays: all its   *)
(* events in order, and all its snapshots too unless a batch ends inside   *)
(* one; a session that ends in exit(1) leaves a recording that replays as  *)
(* empty (EventRecorder::finish, run_replay).                              *)
RecordingReplays ==
    /\ pc = "ended" => /\ Plain(Replayed) = Plain(AsReplayed(trace))
                       /\ Aligned => Replayed = AsReplayed(trace)
    /\ pc # "ended" => Replayed = <<>>

(* After launch returns the tracer is dead and nothing can appear under    *)
(* its name in shm again, whichever of the two threads waited for it.      *)
CleanupFinal ==
    mpc = "done" => tproc = "dead" /\ ~ctl /\ registered = 0

(* The events of an attached child are taken even if the parent is idle    *)
(* for ever (run_headless: "forking server roots stay idle").              *)
ChildrenServed ==
    (Headless /\ HasChild /\ kq > 0) ~> (kq = 0 \/ Ended)

(* The death of the tracer, or a signal, ends a headless session unless    *)
(* children keep its turns busy, whatever it has seen so far               *)
(* (TRACER_EXITED, GOT_SIGNAL).                                            *)
EndsWithTracer ==
    <>[](kq = 0) => ((Headless /\ (exited \/ sig)) ~> Ended)

(* docs/ring-protocol.md: the replayer "detects the header, reads 6        *)
(* continuations, and reconstructs the 18-register array".                 *)
ReplayReconstructs == pc = "ended" => Replayed = AsReplayed(trace)

=============================================================================
