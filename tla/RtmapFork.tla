----------------------------- MODULE RtmapFork -----------------------------
(***************************************************************************)
(* Fork and child processes.  A forked process creates a control ring and  *)
(* a ring of its own (event_fork_init of src/tracer.c); the engine finds   *)
(* it in a scan of /dev/shm, attaches it, drains it and drops it some time *)
(* after its death (ChildProcessTracker of src/engine/src/main.rs).        *)
(*                                                                         *)
(* A process has one ring here (the threads of a process are RtmapCtl's    *)
(* subject) that holds FORK, the event of event_fork_init, and writes.     *)
(* Pids are not reused.  Ages and empty drains saturate just past the      *)
(* limits they are compared with.                                          *)
(***************************************************************************)
EXTENDS Naturals, Sequences, FiniteSets

CONSTANTS
    Root,           \* the process the engine attached first
    Pids,           \* the processes that may be forked
    RingCap,        \* events a ring holds
    Limit,          \* events one batch_drain takes (4096)
    TTL,            \* rounds of discover a pid may wait (30 s)
    EmptyLimit,     \* CHILD_EMPTY_TICK_RETIRE
    NsSpace         \* values of the high byte of a thread id (256)

ASSUME RootAssumption == Root \notin Pids
ASSUME BoundsAssumption ==
    /\ RingCap \in Nat \ {0} /\ Limit \in Nat \ {0} /\ TTL \in Nat
    /\ EmptyLimit \in Nat \ {0} /\ NsSpace \in Nat \ {0, 1}

VARIABLES
    \* the processes: life, parent, control rings in /dev/shm, rings
    proc, parent, ctl, ring,
    \* the tracker: pending_pids and pending_since, child_orchs and
    \* child_empty_ticks, the rings that are open, shared_regions_stale,
    \* the pids of the last refresh, tid_ns_warned
    pending, since, children, empty, open, stale, seen, warned,
    \* the engine: where it is, index of its loop, enumerated pids, locals of
    \* discover, events taken and whether the last batch_drain was cut short
    pc, idx, todo, hadPending, attachedNew, got, cut,
    \* history: rounds since registration, empty drains in a row, processes
    \* by thread-id namespace, pids registered by a FORK event, children
    \* dropped
    waited, quiet, ns, inband, dropped

os == <<proc, parent, ctl, ring>>
tracker == <<pending, since, children, empty, open, stale, seen, warned>>
engine == <<pc, idx, todo, hadPending, attachedNew, got, cut>>
history == <<waited, quiet, ns, inband, dropped>>
vars == <<os, tracker, engine, history>>

Elems(s) == {s[i] : i \in DOMAIN s}
Least(a, b) == IF a <= b THEN a ELSE b

TypeOK ==
    /\ proc \in [Pids -> {"none", "forked", "ctl", "running", "gone"}]
    /\ parent \in [Pids -> Pids \cup {Root}]
    /\ ctl \subseteq Pids
    /\ ring \in [Pids -> Seq({"FORK", "WRITE"})]
    /\ pending \in Seq(Pids) /\ since \in Seq(0..(TTL + 1))
    /\ Len(since) = Len(pending)
    /\ children \in Seq(Pids) /\ empty \in Seq(0..EmptyLimit)
    /\ Len(empty) = Len(children)
    /\ open \subseteq Elems(children)
    /\ stale \in BOOLEAN /\ warned \in BOOLEAN
    /\ seen \subseteq Pids \cup {Root}
    /\ pc \in {"loop", "scan", "expire", "attach", "retire", "drain"}
    /\ idx \in Nat \ {0} /\ todo \subseteq Pids
    /\ hadPending \in BOOLEAN /\ attachedNew \in BOOLEAN
    /\ got \in Nat /\ cut \in BOOLEAN
    /\ waited \in [Pids -> 0..(TTL + 1)] /\ quiet \in [Pids -> 0..EmptyLimit]
    /\ ns \in [0..(NsSpace - 1) -> SUBSET (Pids \cup {Root})]
    /\ inband \subseteq Pids /\ dropped \subseteq Pids

(* The engine has attached the root and knows its pid (set_root_pid); the  *)
(* root's threads live in namespace 0.                                     *)
Init ==
    /\ proc = [p \in Pids |-> "none"]
    /\ parent = [p \in Pids |-> Root]
    /\ ctl = {} /\ ring = [p \in Pids |-> <<>>]
    /\ pending = <<>> /\ since = <<>> /\ children = <<>> /\ empty = <<>>
    /\ open = {} /\ stale = FALSE /\ seen = {} /\ warned = FALSE
    /\ pc = "loop" /\ idx = 1 /\ todo = {}
    /\ hadPending = FALSE /\ attachedNew = FALSE /\ got = 0 /\ cut = FALSE
    /\ waited = [p \in Pids |-> 0] /\ quiet = [p \in Pids |-> 0]
    /\ ns = [n \in 0..(NsSpace - 1) |-> IF n = 0 THEN {Root} ELSE {}]
    /\ inband = {} /\ dropped = {}

----------------------------------------------------------------------------
(* Processes *)

(* fork: the child exists before its event_fork_init runs.                 *)
Fork(p, q) ==
    /\ p # Root => proc[p] = "running"
    /\ proc[q] = "none"
    /\ proc' = [proc EXCEPT ![q] = "forked"]
    /\ parent' = [parent EXCEPT ![q] = p]
    /\ UNCHANGED <<ctl, ring, tracker, engine, history>>

(* map_ctl_ring(parent): the pid-scoped control ring, with both pids.      *)
MapCtlRing(q) ==
    /\ proc[q] = "forked"
    /\ proc' = [proc EXCEPT ![q] = "ctl"]
    /\ ctl' = ctl \cup {q}
    /\ UNCHANGED <<parent, ring, tracker, engine, history>>

(* The rest of event_fork_init: the ring is registered and holds FORK.     *)
ForkInit(q) ==
    /\ proc[q] = "ctl"
    /\ proc' = [proc EXCEPT ![q] = "running"]
    /\ ring' = [ring EXCEPT ![q] = <<"FORK">>]
    /\ UNCHANGED <<parent, ctl, tracker, engine, history>>

Write(q) ==
    /\ proc[q] = "running" /\ Len(ring[q]) < RingCap
    /\ ring' = [ring EXCEPT ![q] = Append(@, "WRITE")]
    /\ UNCHANGED <<proc, parent, ctl, tracker, engine, history>>

(* event_exit: unmap_ctl_ring unlinks the control ring; the ring stays.    *)
Exit(q) ==
    /\ proc[q] = "running"
    /\ proc' = [proc EXCEPT ![q] = "gone"]
    /\ ctl' = ctl \ {q}
    /\ UNCHANGED <<parent, ring, tracker, engine, history>>

(* A process that is killed leaves its control ring behind.                *)
Kill(q) ==
    /\ proc[q] \in {"forked", "ctl", "running"}
    /\ proc' = [proc EXCEPT ![q] = "gone"]
    /\ UNCHANGED <<parent, ctl, ring, tracker, engine, history>>

----------------------------------------------------------------------------
(* The tracker *)

Attached(p) == p \in Elems(children)
IsKnownPid(p) == p = Root \/ Attached(p)

(* Vec::swap_remove: the last element takes the place of the removed one.  *)
SwapRemove(s, i) ==
    SubSeq([s EXCEPT ![i] = s[Len(s)]], 1, Len(s) - 1)

RefusedAnyway(p) == p \in Elems(pending) \/ p = Root
(* register_fork returns early for a pid that is waiting, attached or the  *)
(* root.                                                                   *)
Refused(p) == p \in Elems(pending) \/ Attached(p) \/ p = Root

RegisterFork(p) ==
    IF Refused(p)
    THEN UNCHANGED <<pending, since, stale, waited>>
    ELSE /\ pending' = Append(pending, p)
         /\ since' = Append(since, 0)
         /\ stale' = TRUE
         /\ waited' = [waited EXCEPT ![p] = 0]

AdoptableOfRoot(p) ==
    /\ ~IsKnownPid(p) /\ p \notin Elems(pending)
    /\ proc[p] # "gone" /\ p \in ctl /\ parent[p] = Root
(* The part of scan_shm_for_children that decides about one pid: it is     *)
(* new, alive, and its control ring names a known parent.                  *)
Adoptable(p) ==
    /\ ~IsKnownPid(p) /\ p \notin Elems(pending)
    /\ proc[p] # "gone"
    /\ p \in ctl
    /\ IsKnownPid(parent[p])

(* discover begins (every 200 ms of the loop): enumerate_ctl_pids.         *)
Discover ==
    /\ pc = "loop"
    /\ pc' = "scan" /\ todo' = ctl
    /\ UNCHANGED <<os, tracker, idx, hadPending, attachedNew, got, cut, history>>

ScanPid(p) ==
    /\ pc = "scan" /\ p \in todo
    /\ todo' = todo \ {p}
    /\ IF Adoptable(p)
       THEN RegisterFork(p)
       ELSE UNCHANGED <<pending, since, stale, waited>>
    /\ UNCHANGED <<os, children, empty, open, seen, warned, pc, idx,
                   hadPending, attachedNew, got, cut, quiet, ns, inband,
                   dropped>>

Aged(a) == Least(a + 1, TTL + 1)

(* The time since the last round shows in the ages.                        *)
ScanDone ==
    /\ pc = "scan" /\ todo = {}
    /\ pc' = "expire" /\ idx' = 1
    /\ hadPending' = (pending # <<>>)
    /\ since' = [i \in DOMAIN since |-> Aged(since[i])]
    /\ waited' = [p \in Pids |-> IF p \in Elems(pending)
                                 THEN Aged(waited[p]) ELSE waited[p]]
    /\ UNCHANGED <<os, pending, children, empty, open, stale, seen, warned,
                   todo, attachedNew, got, cut, quiet, ns, inband, dropped>>

(* Both vectors lose the same entry.                                       *)
ForgetPending(i) ==
    /\ pending' = SwapRemove(pending, i)
    /\ since' = SwapRemove(since, i)

(* One turn of the expiry loop, and its end.                               *)
Expire ==
    /\ pc = "expire"
    /\ IF idx > Len(pending)
       THEN /\ pc' = "attach" /\ idx' = 1 /\ attachedNew' = FALSE
            /\ UNCHANGED <<pending, since>>
       ELSE /\ IF since[idx] > TTL
               THEN ForgetPending(idx) /\ UNCHANGED idx
               ELSE idx' = idx + 1 /\ UNCHANGED <<pending, since>>
            /\ UNCHANGED <<pc, attachedNew>>
    /\ UNCHANGED <<os, children, empty, open, stale, seen, warned, todo,
                   hadPending, got, cut, history>>

(* One turn of the attach loop: try_attach_ctl_pid, and its end.           *)
Attach ==
    /\ pc = "attach"
    /\ IF idx > Len(pending)
       THEN /\ pc' = "retire" /\ idx' = 1
            /\ UNCHANGED <<pending, since, children, empty, attachedNew, quiet>>
       ELSE /\ IF pending[idx] \in ctl
               THEN /\ children' = Append(children, pending[idx])
                    /\ empty' = Append(empty, 0)
                    /\ quiet' = [quiet EXCEPT ![pending[idx]] = 0]
                    /\ ForgetPending(idx)
                    /\ attachedNew' = TRUE
                    /\ UNCHANGED idx
               ELSE /\ idx' = idx + 1
                    /\ UNCHANGED <<pending, since, children, empty, attachedNew, quiet>>
            /\ UNCHANGED pc
    /\ UNCHANGED <<os, open, stale, seen, warned, todo, hadPending, got, cut,
                   waited, ns, inband, dropped>>

(* A child is dropped when its process is gone and its last drains were    *)
(* empty.                                                                  *)
Retireable(k) == proc[children[k]] = "gone" /\ empty[k] >= EmptyLimit

RetireOneShort(k) ==
    /\ children' = SwapRemove(children, k)
    /\ empty' = SubSeq(empty, 1, Len(empty) - 1)
    /\ open' = open \ {children[k]}
    /\ dropped' = dropped \cup {children[k]}
    /\ stale' = TRUE
RetireOne(k) ==
    /\ children' = SwapRemove(children, k)
    /\ empty' = SwapRemove(empty, k)
    /\ open' = open \ {children[k]}
    /\ dropped' = dropped \cup {children[k]}
    /\ stale' = TRUE

(* One turn of the retire loop.                                            *)
Retire ==
    /\ pc = "retire" /\ idx <= Len(children)
    /\ IF Retireable(idx)
       THEN RetireOne(idx) /\ UNCHANGED idx
       ELSE idx' = idx + 1 /\ UNCHANGED <<children, empty, open, dropped, stale>>
    /\ UNCHANGED <<os, pending, since, seen, warned, pc, todo, hadPending,
                   attachedNew, got, cut, waited, quiet, ns, inband>>

(* The pids refresh_shared_regions compares: none unless there are two.    *)
RefreshedPids ==
    IF children = <<>> THEN {} ELSE {Root} \cup Elems(children)

NeedsRefresh == (hadPending \/ attachedNew) /\ stale

(* The end of discover: poll_new_rings of every child opens the rings that *)
(* are registered (such a ring holds FORK until it is opened), and the     *)
(* shared regions are refreshed.                                           *)
EndDiscover ==
    /\ pc = "retire" /\ idx > Len(children)
    /\ pc' = "loop" /\ idx' = 1
    /\ open' = open \cup {p \in Elems(children) : ring[p] # <<>>}
    /\ IF NeedsRefresh
       THEN seen' = RefreshedPids /\ stale' = FALSE
       ELSE UNCHANGED <<seen, stale>>
    /\ UNCHANGED <<os, pending, since, children, empty, warned, todo,
                   hadPending, attachedNew, got, cut, history>>

----------------------------------------------------------------------------
(* batch_drain of the children, and the events it takes *)

(* namespace_child_tid: the position of the child, plus one, in the high   *)
(* byte of a 16-bit id.                                                    *)
Namespace(i) == i % NsSpace

EmptyTicksStuck(t, n) == IF n = 0 THEN t ELSE 0
EmptyTicks(t, n) == IF n = 0 THEN Least(t + 1, EmptyLimit) ELSE 0

OverflowsLate(i) == i > NsSpace
Overflows(i) == i - 1 > NsSpace - 2

StartDrain ==
    /\ pc = "loop"
    /\ pc' = "drain" /\ idx' = 1 /\ got' = 0 /\ cut' = FALSE
    /\ UNCHANGED <<os, tracker, todo, hadPending, attachedNew, history>>

(* One child: its orchestrator's batch_drain, the count of empty drains,   *)
(* and process_event of what came out: register_fork for FORK.             *)
DrainChild ==
    /\ pc = "drain" /\ idx <= Len(children) /\ got < Limit
    /\ LET p == children[idx]
           n == IF p \in open THEN Least(Len(ring[p]), Limit - got) ELSE 0
       IN /\ ring' = [ring EXCEPT ![p] = SubSeq(@, n + 1, Len(@))]
          /\ empty' = [empty EXCEPT ![idx] = EmptyTicks(@, n)]
          /\ quiet' = [quiet EXCEPT ![p] =
                           IF n = 0 THEN Least(@ + 1, EmptyLimit) ELSE 0]
          /\ got' = got + n
          /\ ns' = IF n = 0 THEN ns
                   ELSE [ns EXCEPT ![Namespace(idx)] = @ \cup {p}]
          /\ warned' = (warned \/ (n > 0 /\ Overflows(idx)))
          /\ IF n > 0 /\ "FORK" \in Elems(SubSeq(ring[p], 1, n))
             THEN /\ RegisterFork(p)
                  /\ inband' = IF Refused(p) THEN inband ELSE inband \cup {p}
             ELSE UNCHANGED <<pending, since, stale, waited, inband>>
    /\ idx' = idx + 1
    /\ UNCHANGED <<proc, parent, ctl, children, open, seen, pc, todo,
                   hadPending, attachedNew, cut, dropped>>

(* All children were drained, or the limit stopped the loop.               *)
EndDrain ==
    /\ pc = "drain" /\ (idx > Len(children) \/ got >= Limit)
    /\ pc' = "loop" /\ idx' = 1
    /\ cut' = (idx <= Len(children))
    /\ UNCHANGED <<os, tracker, todo, hadPending, attachedNew, got, history>>

----------------------------------------------------------------------------

Processes ==
    \E q \in Pids :
        \/ \E p \in Pids \cup {Root} : Fork(p, q)
        \/ MapCtlRing(q) \/ ForkInit(q) \/ Write(q) \/ Exit(q) \/ Kill(q)

DiscoverStep ==
    \/ Discover \/ ScanDone \/ Expire \/ Attach \/ Retire \/ EndDiscover
    \/ \E p \in Pids : ScanPid(p)

DrainStep == StartDrain \/ DrainChild \/ EndDrain

Next == Processes \/ DiscoverStep \/ DrainStep

Spec == Init /\ [][Next]_vars

(* The loop of the engine discovers and drains again and again; a forked   *)
(* process runs event_fork_init before anything else unless it is killed.  *)
FairSpec ==
    /\ Spec
    /\ WF_vars(DiscoverStep) /\ WF_vars(DrainStep)
    /\ SF_vars(Discover) /\ SF_vars(StartDrain)

----------------------------------------------------------------------------
(* Properties *)

(* A process is in the tracker at most once: never twice among the pending *)
(* pids or the children, never in both (register_fork and the scan, with   *)
(* the swap_removes of discover in between).                               *)
TrackedOnce ==
    /\ Cardinality(Elems(pending)) = Len(pending)
    /\ Cardinality(Elems(children)) = Len(children)
    /\ Elems(pending) \cap Elems(children) = {}

(* The FORK event a child pushes into its own ring never registers it: by  *)
(* the time the engine can read it the child is attached (register_fork).  *)
InBandNeverRegisters == inband = {}

(* Between two rounds of discover every attached child was part of the     *)
(* last refresh of the shared regions (shared_regions_stale survives until *)
(* the child it was set for is attached).                                  *)
ChildrenRefreshed ==
    pc \in {"loop", "drain"} => Elems(children) \subseteq seen

(* The tracker's vectors, flags and the shared regions agree, whatever     *)
(* order forks, scans, exits and FORK events come in (discover,            *)
(* register_fork, refresh_shared_regions).                                 *)
TrackerConsistent ==
    TypeOK /\ TrackedOnce /\ InBandNeverRegisters /\ ChildrenRefreshed

(* The events of two processes share a thread-id namespace only after a    *)
(* child was dropped and another took its position, or after the warning   *)
(* about the overflow of the high byte (namespace_child_tid).              *)
AliasExplained ==
    (dropped = {} /\ ~warned) =>
        \A n \in DOMAIN ns : Cardinality(ns[n]) <= 1

(* A waiting pid is given up only when it has waited longer than the time  *)
(* to live itself, and a child is dropped only if its process is gone and  *)
(* its own drains were empty often enough: pending_pids and pending_since, *)
(* child_orchs and child_empty_ticks stay aligned (discover).              *)
ForgetsTheRightOne ==
    [][/\ \A p \in Elems(pending) \ (Elems(pending') \cup Elems(children')) :
              waited[p] > TTL
       /\ \A p \in Elems(children) \ Elems(children') :
              proc[p] = "gone" /\ quiet[p] >= EmptyLimit]_vars

(* A child with a known parent is attached, unless it or its parent is     *)
(* gone first (scan_shm_for_children and discover).                        *)
EventuallyAttached ==
    \A p \in Pids :
        (p \in ctl /\ IsKnownPid(parent[p])) ~>
            (Attached(p) \/ proc[p] = "gone" \/ ~IsKnownPid(parent[p]))

(* The orchestrator of a dead child is dropped, unless the children in     *)
(* front of it use up the limit of a drain (batch_drain starts with the    *)
(* first child every time).                                                *)
EventuallyDropped ==
    \A p \in Pids : (Attached(p) /\ proc[p] = "gone") ~> (~Attached(p) \/ cut)

=============================================================================
