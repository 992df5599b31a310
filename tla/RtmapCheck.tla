----------------------------- MODULE RtmapCheck -----------------------------
(***************************************************************************)
(* The topology stream (src/engine/src/topology.rs, written by the         *)
(* handlers of reconciler.rs) and rtmap-check, which judges assertions     *)
(* about the target from the stream alone (check.rs).  The model keeps the *)
(* target's own heap beside the lines, so that a verdict can be compared   *)
(* with what it is about.                                                  *)
(*                                                                         *)
(* An object has one pointer field, at FieldOff.  Lines the tool skips     *)
(* (COLD_STAMP, COLD_LINK, TYPE_SCHISM ...), formatting and the counters   *)
(* that assertions only copy (no_hazards, stm_projections) are left out.   *)
(***************************************************************************)
EXTENDS Naturals, Sequences, FiniteSets, SequencesExt

CONSTANTS
    Tids,           \* threads: each has a ring of its own
    Objs,           \* addresses of objects
    ObjSize, FieldOff,
    AllocSizes,
    MaxTrace        \* bound on the events of a stream

\* the blocks of an allocator are at addresses of their own
ASSUME CheckAssumption ==
    /\ Objs \subseteq Nat \ {0} /\ IsFiniteSet(Objs) /\ MaxTrace \in Nat
    /\ ObjSize \in Nat /\ FieldOff \in Nat /\ FieldOff < ObjSize
    /\ \A a, b \in Objs : a < b => a + ObjSize <= b

VARIABLES
    lines,          \* the stream
    seqs,           \* sequence numbers of each thread: "jit" for WRITE, "call"
                    \* for ALLOC and FREE (raw TLS and drmgr TLS of the tracer)
    live,           \* heap_allocs: address -> size
    typed,          \* addresses with a stamp in the shadow type map
    heap,           \* the target's pointers: object -> object or 0
    unseen          \* objects whose pointer changed without a LINK line

checkVars == <<lines, seqs, live, typed, heap, unseen>>

Without(f, x) == [y \in DOMAIN f \ {x} |-> f[y]]
With(f, x, v) == [y \in DOMAIN f \cup {x} |-> IF y = x THEN v ELSE f[y]]

-----------------------------------------------------------------------------
(* The engine: events of thread t and the lines they emit.                 *)

Domains == {"jit", "call"}

Event(t, d) ==
    /\ FoldFunction(+, 0, seqs) < MaxTrace + Cardinality(Tids \X Domains)
    /\ seqs' = [seqs EXCEPT ![<<t, d>>] = @ + 1]

Line(ty, t, d, a) ==
    [ty |-> ty, seq |-> seqs[<<t, d>>], tid |-> t, addr |-> a, src |-> "", to |-> 0]

\* ALLOC: an allocation of the same size at a live address is the inner call
\* of a wrapper and not emitted; one of another size is emitted, with no
\* FREE before it
AllocEvent(t, a, size, site) ==
    LET dup == a \in DOMAIN live /\ live[a] = size
        resized == a \in DOMAIN live /\ live[a] # size
        alloc == IF dup THEN <<>> ELSE <<Line("ALLOC", t, "call", a)>>
        stamp == IF site THEN <<[Line("STAMP", t, "call", a) EXCEPT !.src = "alloc"]>> ELSE <<>>
    IN /\ Event(t, "call")
       /\ live' = With(live, a, size)
       /\ typed' = (IF resized THEN typed \ {a} ELSE typed) \cup (IF site THEN {a} ELSE {})
       /\ lines' = lines \o alloc \o stamp
       /\ UNCHANGED <<heap, unseen>>

\* FREE: of an address that is not tracked nothing is emitted
FreeEvent(t, a) ==
    /\ Event(t, "call")
    /\ live' = Without(live, a) /\ typed' = typed \ {a}
    /\ lines' = IF a \in DOMAIN live THEN Append(lines, Line("FREE", t, "call", a)) ELSE lines
    /\ UNCHANGED <<heap, unseen>>

\* a WRITE that stamps a: by a pointer that is watched, with a STAMP line, or
\* by the scan that follows a stamp, with none
StampEvent(t, a, silent) ==
    /\ Event(t, "jit") /\ a \notin typed
    /\ typed' = typed \cup {a}
    /\ lines' = IF silent THEN lines
                ELSE Append(lines, [Line("STAMP", t, "jit", a) EXCEPT !.src = "global"])
    /\ UNCHANGED <<live, heap, unseen>>

\* a WRITE of the pointer field of a: a LINK line if a stamp covers the field
\* and the pointer is not null; the same event may go on to stamp its target
LinkEvent(t, a, to, stamps) ==
    LET linked == a \in typed /\ to # 0
        link == [Line("LINK", t, "jit", a + FieldOff) EXCEPT !.to = to]
        stamp == IF stamps THEN <<[Line("STAMP", t, "jit", to) EXCEPT !.src = "field"]>> ELSE <<>>
    IN /\ Event(t, "jit") /\ (stamps => linked /\ to \notin typed)
       /\ heap' = [heap EXCEPT ![a] = to]
       /\ unseen' = IF linked THEN unseen \ {a} ELSE unseen \cup {a}
       /\ typed' = IF stamps THEN typed \cup {to} ELSE typed
       /\ lines' = IF linked THEN Append(lines, link) \o stamp ELSE lines
       /\ UNCHANGED live

CheckInit ==
    /\ lines = <<>> /\ seqs = [c \in Tids \X Domains |-> 1] /\ live = << >> /\ typed = {}
    /\ heap = [a \in Objs |-> 0] /\ unseen = {}

CheckNext ==
    \E t \in Tids, a \in Objs :
        \/ \E size \in AllocSizes, site \in BOOLEAN : AllocEvent(t, a, size, site)
        \/ FreeEvent(t, a)
        \/ \E silent \in BOOLEAN : StampEvent(t, a, silent)
        \/ \E to \in Objs \cup {0}, stamps \in BOOLEAN : LinkEvent(t, a, to, stamps)

CheckSpec == CheckInit /\ [][CheckNext]_checkVars

-----------------------------------------------------------------------------
(* rtmap-check: TopoGraph.                                                 *)

NoGraph == [allocs |-> <<>>, stamps |-> <<>>, links |-> <<>>, edges |-> << >>]

\* resolve_base: the latest stamp that covers an address
ResolveBase(stamps, f) ==
    LET cov == {i \in DOMAIN stamps : stamps[i].addr <= f /\ f < stamps[i].addr + ObjSize}
    IN IF cov = {} THEN f ELSE stamps[Max(cov)].addr

\* one line of build: a FREE closes the latest open ALLOC of its address, a
\* LINK is filed under the object its field lies in, if that is known by then
Absorb(g, l) ==
    CASE l.ty = "ALLOC" ->
            [g EXCEPT !.allocs = Append(@, [seq |-> l.seq, addr |-> l.addr, freed |-> FALSE, freeSeq |-> 0])]
      [] l.ty = "FREE" ->
            LET open == {i \in DOMAIN g.allocs : g.allocs[i].addr = l.addr /\ ~g.allocs[i].freed}
            IN IF open = {} THEN g
               ELSE [g EXCEPT !.allocs[Max(open)] = [@ EXCEPT !.freed = TRUE, !.freeSeq = l.seq]]
      [] l.ty = "STAMP" -> [g EXCEPT !.stamps = Append(@, l)]
      [] l.ty = "LINK" -> [g EXCEPT !.links = Append(@, l),
                                    !.edges = With(@, ResolveBase(g.stamps, l.addr), l.to)]
Build ==
    LET g[n \in 0 .. Len(lines)] == IF n = 0 THEN NoGraph ELSE Absorb(g[n - 1], lines[n])
    IN g[Len(lines)]

LiveAllocCount(g) == Cardinality({i \in DOMAIN g.allocs : ~g.allocs[i].freed})

\* chain_length: objects met from a start until there is no edge or a cycle
Walk(g, start) ==
    LET next(a) == IF a \in DOMAIN g.edges THEN g.edges[a] ELSE 0
        at[i \in 0..Cardinality(DOMAIN g.edges)] ==
            IF i = 0 THEN start ELSE IF at[i - 1] = 0 THEN 0 ELSE next(at[i - 1])
    IN Cardinality({at[i] : i \in DOMAIN at} \ {0})
ChainLength(g) == Max({0} \cup {Walk(g, s.addr) : s \in Range(g.stamps)})

\* the sequence number an address was freed at, by the last of its records
FreedBefore(g, a, seq) ==
    LET recs == {i \in DOMAIN g.allocs : /\ g.allocs[i].addr = a /\ g.allocs[i].freed
                                          /\ g.allocs[i].freeSeq > 0}
    IN recs # {} /\ seq > g.allocs[Max(recs)].freeSeq

\* records of a list, in the order of the file
Ordered(s, recs) == \A i, j \in recs : i < j => s[i].seq <= s[j].seq

\* eval_one
NoUseAfterFree(g) ==
    /\ \A s \in Range(g.stamps) : ~FreedBefore(g, s.addr, s.seq)
    /\ \A l \in Range(g.links) : ~FreedBefore(g, l.to, l.seq)
AllocBeforeStamp(g) ==
    \A s \in Range(g.stamps) :
        (\E a \in Range(g.allocs) : a.addr = s.addr) =>
            \E a \in Range(g.allocs) : a.addr = s.addr /\ a.seq <= s.seq
\* stamps of allocation sites are numbered like ALLOC, and left out of what
\* is compared with WRITEs; and all stamps taken alike
AnyStamp(s) == TRUE
NotAllocSite(s) == s.src # "alloc"
Judged(g) == {i \in DOMAIN g.stamps : NotAllocSite(g.stamps[i])}
MonotonicSeq(g) ==
    /\ Ordered(g.allocs, DOMAIN g.allocs) /\ Ordered(g.stamps, Judged(g))
    /\ Ordered(g.links, DOMAIN g.links)
StampBeforeLink(g) ==
    LET of(a) == {i \in Judged(g) : g.stamps[i].addr = a}
    IN \A l \in Range(g.links) : of(l.to) # {} => l.seq >= g.stamps[Min(of(l.to))].seq

-----------------------------------------------------------------------------
(* Properties.  Positions in the file are the order the engine saw.        *)

At(ty, a) == {i \in DOMAIN lines : lines[i].ty = ty /\ lines[i].addr = a}
Uses(a) == At("STAMP", a) \cup {i \in DOMAIN lines : lines[i].ty = "LINK" /\ lines[i].to = a}
OneRing == \A i, j \in DOMAIN lines : lines[i].tid = lines[j].tid

\* addresses reached from an object, itself included: the least set that has
\* it and follows the target's pointers
Reach(a) ==
    {b \in Objs : \A S \in SUBSET Objs :
        a \in S /\ (\A x \in S : heap[x] # 0 => heap[x] \in S) => b \in S}

\* In a stream of one ring monotonic_seq raises no alarm, and
\* stamp_before_link judges as the order of the lines does (a LINK may come
\* before the STAMP of its own event), although two counters number the lines.
OrderJudged(g) ==
    OneRing =>
        /\ MonotonicSeq(g)
        /\ StampBeforeLink(g) <=> \A a \in Objs :
              LET st == {i \in At("STAMP", a) : lines[i].src # "alloc"}
              IN st # {} => \A j \in Uses(a) : lines[j].ty = "LINK" =>
                    j > Min(st) \/ lines[j].seq = lines[Min(st)].seq

\* When the stamps of such a stream are those of allocation sites, numbered by
\* the counter of ALLOC and FREE, and no address is allocated twice,
\* no_use_after_free and alloc_before_stamp raise none either.
UsesJudged(g) ==
    /\ OneRing /\ \A a \in Objs : \A i, j \in At("ALLOC", a) : i = j
    /\ \A a \in Objs : \A i \in Uses(a) : lines[i].ty = "STAMP" /\ lines[i].src = "alloc"
    => NoUseAfterFree(g) /\ AllocBeforeStamp(g)

\* For any number of rings live_allocs counts what the engine tracks, if no
\* block was resized in place (allocated again without a FREE).
LiveCounted(g) ==
    (\A a \in Objs : \A i, j \in At("ALLOC", a) :
        i < j => \E k \in At("FREE", a) : i < k /\ k < j)
    => LiveAllocCount(g) = Cardinality(DOMAIN live)

\* And max_chain is the longest chain of the target, if no pointer changed
\* without a LINK, every LINK came after a STAMP of its object and nothing was
\* freed.
ChainMeasured(g) ==
    /\ unseen = {} /\ \A a \in Objs : At("FREE", a) = {}
    /\ \A a \in Objs : \A j \in At("LINK", a + FieldOff) : \E i \in At("STAMP", a) : i < j
    => ChainLength(g) = Max({0} \cup {Cardinality(Reach(l.addr)) :
                                     l \in {k \in Range(lines) : k.ty = "STAMP"}})

\* What the verdicts of rtmap-check (eval_one) say of the target.
VerdictsExact ==
    LET g == Build
    IN OrderJudged(g) /\ UsesJudged(g) /\ LiveCounted(g) /\ ChainMeasured(g)
=============================================================================
