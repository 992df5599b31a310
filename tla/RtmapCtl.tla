------------------------------ MODULE RtmapCtl ------------------------------
(***************************************************************************)
(* The control ring: traced threads register themselves in a fixed array   *)
(* of entries (rtmap_ctl_register_thread and rtmap_ctl_mark_dead of        *)
(* src/rtmap_bridge.h, called by event_thread_init and event_thread_exit   *)
(* of src/tracer.c), and the engine polls the array without any lock       *)
(* (RingOrchestrator::poll_new_rings of src/engine/src/ring.rs).           *)
(*                                                                         *)
(* A thread stands for its id and for the name of its ring: both are fresh *)
(* for every thread.  The ring itself is reduced to its TERMINAL status;   *)
(* RtmapRing shows that a terminal ring is drained.                        *)
(***************************************************************************)
EXTENDS Integers, FiniteSets

CONSTANTS
    Threads,        \* the threads the traced process ever starts
    MaxThreads,     \* entries of the control ring (256)
    None            \* no thread

ASSUME MaxThreadsAssumption == MaxThreads \in Nat \ {0}
ASSUME ThreadsAssumption == IsFiniteSet(Threads)
ASSUME NoneAssumption == None \notin Threads

VARIABLES
    \* shared memory: the control header, and the status of every ring
    state, entryTid, entryName, threadCount, terminal,
    \* traced threads: where each is, its place in the scan, its entry
    tpc, scan, slot,
    \* the engine: poll_new_rings and its locals
    epc, known, count, idx, st, nm, last,
    \* the engine's rings, by name and id: copies still alive, pairs ever
    \* opened; the ids of rings that are no longer alive
    copies, opened, ended,
    \* history: a poll begun after the last exit (last) has ended; entries
    \* the first loop has passed over
    swept, passed

ctl == <<state, entryTid, entryName, threadCount, terminal>>
threads == <<tpc, scan, slot>>
poll == <<epc, known, count, idx, st, nm, last>>
rings == <<copies, opened, ended>>
history == <<swept, passed>>
vars == <<ctl, threads, poll, rings, history>>

Entries == 0..(MaxThreads - 1)
NoEntry == -1

\* the control header and the threads that register in it
RegistryOK ==
    /\ state \in [Entries -> {"EMPTY", "INITIALIZING", "ACTIVE", "DEAD"}]
    /\ entryTid \in [Entries -> Threads \cup {None}]
    /\ entryName \in [Entries -> Threads \cup {None}]
    /\ threadCount \in Nat
    /\ terminal \in [Threads -> BOOLEAN]
    /\ tpc \in [Threads -> {"new", "scan", "undo", "tid", "name", "publish",
                            "run", "exit", "done"}]
    /\ scan \in [Threads -> 0..MaxThreads]
    /\ slot \in [Threads -> Entries \cup {NoEntry}]

\* the engine
PollOK ==
    /\ epc \in {"idle", "first", "open", "push", "mark", "second", "find",
                "reopen", "panicked"}
    /\ known \in Nat /\ count \in Nat /\ idx \in Nat
    /\ st \in {"EMPTY", "INITIALIZING", "ACTIVE", "DEAD"}
    /\ nm \in Threads \cup {None}
    /\ copies \in [Threads \X Threads -> Nat]
    /\ opened \in SUBSET (Threads \X Threads)
    /\ ended \in SUBSET Threads
    /\ last \in BOOLEAN /\ swept \in BOOLEAN /\ passed \in SUBSET Entries

TypeOK == RegistryOK /\ PollOK

(* rtmap_ctl_init: the array is zeroed; the engine has just attached.      *)
Init ==
    /\ state = [i \in Entries |-> "EMPTY"]
    /\ entryTid = [i \in Entries |-> None]
    /\ entryName = [i \in Entries |-> None]
    /\ threadCount = 0
    /\ terminal = [t \in Threads |-> FALSE]
    /\ tpc = [t \in Threads |-> "new"]
    /\ scan = [t \in Threads |-> 0]
    /\ slot = [t \in Threads |-> NoEntry]
    /\ epc = "idle" /\ known = 0 /\ count = 0 /\ idx = 0
    /\ st = "EMPTY" /\ nm = None /\ last = FALSE
    /\ copies = [r \in Threads \X Threads |-> 0]
    /\ opened = {} /\ ended = {} /\ swept = FALSE /\ passed = {}

-----------------------------------------------------------------------------
(* A traced thread registers.                                              *)

Goto(t, l) == tpc' = [tpc EXCEPT ![t] = l]

(* event_thread_init: the ring exists and is initialised before the thread *)
(* looks for an entry; a thread whose ring cannot be allocated runs        *)
(* unregistered.                                                           *)
ThreadInit(t) ==
    /\ tpc[t] = "new"
    /\ Goto(t, "scan") \/ Goto(t, "run")
    /\ UNCHANGED <<ctl, scan, slot, poll, rings, history>>

\* mutant: an entry another thread is initialising looks free too
ReclaimableTooEarly(s) == s \in {"DEAD", "INITIALIZING"}

\* the CAS of the reclaim pass succeeds on a DEAD entry only
Reclaimable(s) == s = "DEAD"

(* One turn of the reclaim pass: the CAS DEAD -> INITIALIZING on the entry *)
(* scanned, or the next entry.                                             *)
ScanEntry(t) ==
    /\ tpc[t] = "scan" /\ scan[t] < MaxThreads
    /\ \/ /\ Reclaimable(state[scan[t]])
          /\ state' = [state EXCEPT ![scan[t]] = "INITIALIZING"]
          /\ slot' = [slot EXCEPT ![t] = scan[t]]
          /\ scan' = [scan EXCEPT ![t] = 0]
          /\ Goto(t, "tid")
       \/ /\ ~Reclaimable(state[scan[t]])
          /\ scan' = [scan EXCEPT ![t] = @ + 1]
          /\ UNCHANGED <<state, slot, tpc>>
    /\ UNCHANGED <<entryTid, entryName, threadCount, terminal, poll, rings, history>>

\* idx >= max_threads, where idx is the count before the fetch_add
NoFreshEntry == threadCount >= MaxThreads

(* No entry to reclaim: fetch_add on thread_count.  The fresh entry stays  *)
(* EMPTY, not INITIALIZING, until it is published.                         *)
FetchAdd(t) ==
    /\ tpc[t] = "scan" /\ scan[t] = MaxThreads
    /\ scan' = [scan EXCEPT ![t] = 0]
    /\ threadCount' = threadCount + 1
    /\ \/ /\ NoFreshEntry
          /\ Goto(t, "undo")
          /\ UNCHANGED slot
       \/ /\ ~NoFreshEntry
          /\ slot' = [slot EXCEPT ![t] = threadCount]
          /\ Goto(t, "tid")
    /\ UNCHANGED <<state, entryTid, entryName, terminal, poll, rings, history>>

(* The array is full: fetch_sub, and the thread runs unregistered.         *)
UndoFetch(t) ==
    /\ tpc[t] = "undo"
    /\ threadCount' = threadCount - 1
    /\ Goto(t, "run")
    /\ UNCHANGED <<state, entryTid, entryName, terminal, scan, slot, poll, rings, history>>

(* The plain stores of the id and of the name, in this order.              *)
WriteTid(t) ==
    /\ tpc[t] = "tid"
    /\ entryTid' = [entryTid EXCEPT ![slot[t]] = t]
    /\ Goto(t, "name")
    /\ UNCHANGED <<state, entryName, threadCount, terminal, scan, slot, poll, rings, history>>

WriteName(t) ==
    /\ tpc[t] = "name"
    /\ entryName' = [entryName EXCEPT ![slot[t]] = t]
    /\ Goto(t, "publish")
    /\ UNCHANGED <<state, entryTid, threadCount, terminal, scan, slot, poll, rings, history>>

(* The release store of ACTIVE.                                            *)
Publish(t) ==
    /\ tpc[t] = "publish"
    /\ state' = [state EXCEPT ![slot[t]] = "ACTIVE"]
    /\ Goto(t, "run")
    /\ UNCHANGED <<entryTid, entryName, threadCount, terminal, scan, slot, poll, rings, history>>

(* event_pre_syscall on exit, or the first half of event_thread_exit: the  *)
(* ring becomes TERMINAL.                                                  *)
SetTerminal(t) ==
    /\ tpc[t] = "run"
    /\ terminal' = [terminal EXCEPT ![t] = TRUE]
    /\ Goto(t, "exit")
    /\ UNCHANGED <<state, entryTid, entryName, threadCount, scan, slot, poll, rings, history>>

\* mutant: the index is not checked, entry 0 dies for an unregistered thread
DeadEntryUnchecked(t) == IF slot[t] = NoEntry THEN 0 ELSE slot[t]

\* TLS keeps the entry's index plus one: 0 for an unregistered thread
DeadEntry(t) == slot[t]

(* rtmap_ctl_mark_dead at the end of event_thread_exit.                    *)
MarkDead(t) ==
    /\ tpc[t] = "exit"
    /\ state' = IF DeadEntry(t) = NoEntry THEN state
                ELSE [state EXCEPT ![DeadEntry(t)] = "DEAD"]
    /\ Goto(t, "done")
    /\ UNCHANGED <<entryTid, entryName, threadCount, terminal, scan, slot, poll, rings, history>>

-----------------------------------------------------------------------------
(* The engine polls.  Every read of an entry is a step of its own: nothing *)
(* stops a thread from reclaiming the entry in between.                    *)

(* What reading the name of entry i can give: while its new owner copies   *)
(* the name, a mix of two names, which is any ring's or no ring's (None).  *)
NameRead(i) ==
    IF \E t \in Threads : tpc[t] = "name" /\ slot[t] = i
    THEN {n \in Threads : tpc[n] # "new"} \cup {None}
    ELSE {entryName[i]}

\* ThreadRing::from_shm accepts ring n, which is kept under id t
PushRing(n, t) ==
    /\ copies' = [copies EXCEPT ![<<n, t>>] = @ + 1]
    /\ opened' = opened \cup {<<n, t>>}
    /\ UNCHANGED ended

\* mutant: an ended ring of this id also counts as known
EverKnown(t) == \E n \in Threads : <<n, t>> \in opened

\* already_known: some ring of this id is alive
AlreadyKnown(t) == \E n \in Threads : copies[<<n, t>>] > 0

\* some live ring of this id ends
EndRing(t) == \E n \in Threads :
    /\ copies[<<n, t>>] > 0
    /\ copies' = [copies EXCEPT ![<<n, t>>] = @ - 1]
    /\ ended' = ended \cup {t}

(* Load thread_count.                                                      *)
PollStart ==
    /\ epc = "idle"
    /\ count' = threadCount
    /\ last' = \A t \in Threads : tpc[t] = "done"
    /\ epc' = "first"
    /\ UNCHANGED <<ctl, threads, known, idx, st, nm, rings, history>>

\* mutants: the first loop opens an entry that was never published; it
\* skips one whose thread has ended
NeverSkipped(s) == FALSE
SkippedUnlessActive(s) == s # "ACTIVE"

\* nothing to read in this entry yet
Skipped(s) == s = "EMPTY"

(* The first loop loads the state of the next unknown entry: it waits for  *)
(* an INITIALIZING one, and never comes back to one found EMPTY.  The      *)
(* array index is not checked against max_threads.                         *)
FirstLoad ==
    /\ epc = "first" /\ known < count
    /\ \/ /\ known >= MaxThreads
          /\ epc' = "panicked"
          /\ UNCHANGED <<known, idx, st, passed>>
       \/ /\ known < MaxThreads
          /\ st' = state[known]
          /\ IF state[known] = "INITIALIZING"
             THEN epc' = "second" /\ idx' = 0 /\ UNCHANGED <<known, passed>>
             ELSE /\ known' = known + 1
                  /\ idx' = known
                  /\ epc' = IF Skipped(state[known]) THEN "first" ELSE "open"
                  /\ passed' = IF state[known] = "EMPTY" THEN passed \cup {known} ELSE passed
    /\ UNCHANGED <<ctl, threads, count, nm, last, rings, swept>>

FirstEnd ==
    /\ epc = "first" /\ known >= count
    /\ epc' = "second" /\ idx' = 0
    /\ UNCHANGED <<ctl, threads, known, count, st, nm, last, rings, history>>

(* Read the name and map the ring, if there is one of that name.           *)
FirstOpen ==
    /\ epc = "open"
    /\ nm' \in NameRead(idx)
    /\ epc' = IF nm' # None THEN "push" ELSE IF st = "DEAD" THEN "mark" ELSE "first"
    /\ UNCHANGED <<ctl, threads, known, count, idx, st, last, rings, history>>

(* Read the id and keep the ring; it may be the id of a later owner.       *)
FirstPush ==
    /\ epc = "push"
    /\ PushRing(nm, entryTid[idx])
    /\ epc' = IF st = "DEAD" THEN "mark" ELSE "first"
    /\ UNCHANGED <<ctl, threads, known, count, idx, st, nm, last, history>>

(* The entry was DEAD: read the id again and end the first ring of that    *)
(* id, which may be one that has ended before.                             *)
FirstMark ==
    /\ epc = "mark"
    /\ LET t == entryTid[idx]
       IN  \/ EndRing(t)
           \/ (t \in ended \/ ~AlreadyKnown(t)) /\ UNCHANGED <<copies, ended>>
    /\ epc' = "first"
    /\ UNCHANGED <<ctl, threads, known, count, idx, st, nm, last, opened, history>>

(* The second loop loads the state of every entry below the count.         *)
SecondLoad ==
    /\ epc = "second" /\ idx < count
    /\ \/ /\ idx >= MaxThreads
          /\ epc' = "panicked"
          /\ UNCHANGED <<idx, st>>
       \/ /\ idx < MaxThreads
          /\ st' = state[idx]
          /\ IF state[idx] \in {"DEAD", "ACTIVE"}
             THEN epc' = "find" /\ UNCHANGED idx
             ELSE idx' = idx + 1 /\ UNCHANGED epc
    /\ UNCHANGED <<ctl, threads, known, count, nm, last, rings, history>>

SecondEnd ==
    /\ epc = "second" /\ idx >= count
    /\ epc' = "idle"
    /\ count' = 0 /\ idx' = 0 /\ st' = "EMPTY" /\ nm' = None      \* locals
    /\ swept' = (swept \/ last)
    /\ UNCHANGED <<ctl, threads, known, last, rings, passed>>

(* Read the id.  A DEAD entry ends one live ring of that id, an ACTIVE one *)
(* that has no live ring is opened.                                        *)
SecondFind ==
    /\ epc = "find"
    /\ LET t == entryTid[idx]
       IN \/ /\ st = "DEAD"
             /\ IF AlreadyKnown(t) THEN EndRing(t) ELSE UNCHANGED <<copies, ended>>
             /\ epc' = "second" /\ idx' = idx + 1
             /\ UNCHANGED nm
          \/ /\ st = "ACTIVE" /\ AlreadyKnown(t)
             /\ epc' = "second" /\ idx' = idx + 1
             /\ UNCHANGED <<copies, ended, nm>>
          \/ /\ st = "ACTIVE" /\ ~AlreadyKnown(t)
             /\ nm' = t
             /\ epc' = "reopen"
             /\ UNCHANGED <<copies, ended, idx>>
    /\ UNCHANGED <<ctl, threads, known, count, st, last, opened, history>>

(* Read the name and keep that ring under the id read before.              *)
SecondOpen ==
    /\ epc = "reopen"
    /\ \E n \in NameRead(idx) :
          IF n = None THEN UNCHANGED rings ELSE PushRing(n, nm)
    /\ epc' = "second" /\ idx' = idx + 1
    /\ UNCHANGED <<ctl, threads, known, count, st, nm, last, history>>

(* Between polls batch_drain retires a ring that is TERMINAL and drained.  *)
Retire(n, t) ==
    /\ epc = "idle"
    /\ terminal[n] /\ copies[<<n, t>>] > 0
    /\ copies' = [copies EXCEPT ![<<n, t>>] = @ - 1]
    /\ ended' = ended \cup {t}
    /\ UNCHANGED <<ctl, threads, poll, opened, history>>

-----------------------------------------------------------------------------
Thread(t) == \/ ThreadInit(t) \/ ScanEntry(t) \/ FetchAdd(t) \/ UndoFetch(t)
             \/ WriteTid(t) \/ WriteName(t) \/ Publish(t)
             \/ SetTerminal(t) \/ MarkDead(t)

Poll == \/ PollStart \/ FirstLoad \/ FirstEnd \/ FirstOpen \/ FirstPush \/ FirstMark
        \/ SecondLoad \/ SecondEnd \/ SecondFind \/ SecondOpen

Next == \/ \E t \in Threads : Thread(t)
        \/ Poll
        \/ \E n, t \in Threads : Retire(n, t)

Spec == Init /\ [][Next]_vars

(* A registering thread runs on (nothing blocks it), the engine polls for  *)
(* ever, and a terminal ring is drained and retired in the end (RtmapRing: *)
(* TerminalRetired).  A thread need never exit.                            *)
Registering(t) == ThreadInit(t) \/ ScanEntry(t) \/ FetchAdd(t) \/ UndoFetch(t)
                  \/ WriteTid(t) \/ WriteName(t) \/ Publish(t)

FairSpec == /\ Spec
            /\ \A t \in Threads : WF_vars(Registering(t))
            /\ WF_vars(Poll)
            /\ \A n, t \in Threads : SF_vars(Retire(n, t))

-----------------------------------------------------------------------------
(* Safety.                                                                 *)

\* thread t has taken entry i and has not given it back
Owns(t, i) == slot[t] = i /\ tpc[t] \in {"tid", "name", "publish", "run", "exit"}

(* The CAS of the reclaim pass and the fetch_add never hand one entry to   *)
(* two threads.                                                            *)
OneOwner == \A i \in Entries, t, u \in Threads : Owns(t, i) /\ Owns(u, i) => t = u

(* A registered thread's entry stays ACTIVE, with its own id and name,     *)
(* until it marks it DEAD itself; and an ACTIVE entry has such an owner.   *)
Registered(t, i) == Owns(t, i) /\ tpc[t] \in {"run", "exit"}

ActiveEntryWhole ==
    \A i \in Entries :
        /\ \A t \in Threads : Registered(t, i) =>
               state[i] = "ACTIVE" /\ entryTid[i] = t /\ entryName[i] = t
        /\ state[i] = "ACTIVE" => \E t \in Threads : Registered(t, i)

(* A ring is kept under another thread's id only when the entry that gave  *)
(* the id was reclaimed while the engine was reading it: an entry that     *)
(* never changed hands is read whole.                                      *)
MixedOnlyByReclaim ==
    \A r \in opened : r[1] # r[2] =>
        \E t \in Threads : tpc[t] = "done" /\ slot[t] = slot[r[2]] /\ slot[t] # NoEntry

(* src/engine/src/main.rs: the final sweep is there to "catch rings from   *)
(* short-lived threads that spawned and died between poll intervals".  It  *)
(* misses only those whose entry served another thread as well, or was met *)
(* by an earlier poll between fetch_add and INITIALIZING and passed over.  *)
SweepFinds ==
    swept => \A t \in Threads : slot[t] # NoEntry =>
        \/ <<t, t>> \in opened
        \/ slot[t] \in passed
        \/ \E u \in Threads \ {t} : slot[u] = slot[t]

-----------------------------------------------------------------------------
(* Liveness, under FairSpec.                                               *)

(* A thread that stays alive is discovered: its own ring is opened, even   *)
(* when the engine first took the ring of the entry's last owner for it.   *)
(* The one way out is a name read while it was written that happens to be  *)
(* that of a third, running thread, whose ring then bears this thread's id.*)
EventuallyDiscovered ==
    \A t \in Threads :
        tpc[t] = "run" /\ slot[t] # NoEntry
            ~> \/ <<t, t>> \in opened \/ tpc[t] # "run"
               \/ \E u \in Threads \ {t} : copies[<<u, t>>] > 0 /\ ~terminal[u]

=============================================================================
