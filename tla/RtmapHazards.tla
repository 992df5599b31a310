---------------------------- MODULE RtmapHazards ----------------------------
(***************************************************************************)
(* What the engine reports about single writes to the heap: writes out of  *)
(* bounds and into holes (HeapAllocTracker of world.rs, the end of the     *)
(* WRITE handler of reconciler.rs) and writes that do not fit the type of  *)
(* their block (TypeStabilityMonitor).  Threads of the target allocate,    *)
(* free and write; their events wait in one ring per thread, and the       *)
(* engine takes them ring by ring, so that it may judge a write by a table *)
(* of blocks that is ahead of the write or behind it.                      *)
(*                                                                         *)
(* Addresses count words.  A block's type comes from its allocation site   *)
(* and is fixed by its size.  MODULE_LOAD carries size 0, so the ranges of *)
(* modules that is_heap excludes are empty.  Tallies and the register      *)
(* context of a hazard are left out.                                       *)
(***************************************************************************)
EXTENDS Naturals, Sequences, SequencesExt

CONSTANTS
    Workers,        \* threads of the target
    Words,          \* addresses: an interval of naturals
    BlockSizes, WriteSizes,
    Layout,         \* [BlockSizes -> fields: sequence of [off, size]]
    StackPtrs,      \* stack pointers of CALL events
    StackSpan,      \* what update_stack takes for stack above one (128 KiB)
    Grace,          \* HEAP_HOLE_GRACE (256)
    HazardCap,      \* hazards that are kept (64)
    ViolationCap,   \* violations that are kept (128)
    MaxSteps        \* bound on the events of the target

ASSUME HazardsAssumption ==
    /\ Words \subseteq Nat \ {0} /\ BlockSizes \subseteq Nat \ {0} /\ WriteSizes \subseteq Nat \ {0}
    /\ StackPtrs \subseteq Nat /\ StackSpan \in Nat
    /\ Grace \in Nat /\ HazardCap \in Nat /\ ViolationCap \in Nat \ {0}
    /\ \A n \in BlockSizes :
          /\ Layout[n] \in Seq(Range(Layout[n]))
          /\ \A f \in Range(Layout[n]) :
                f.off \in Nat /\ f.size \in Nat \ {0} /\ f.off + f.size <= n

VARIABLES
    blocks,         \* the target's heap: base -> size
    users,          \* address -> threads that allocated, freed or wrote it
    rings,          \* events the engine has not taken
    steps,
    allocs,         \* HeapAllocTracker: base -> size
    stamps,         \* shadow type map: base -> size of the type's block
    stackLo, stackHi,   \* stack_bounds; Lo > Hi where there is no entry
    since,          \* total_event_count - last_alloc_event_count, up to Grace
    hazards,        \* world.hazards: [kind, addr]
    violations,     \* type_stability.violations: addresses
    judged          \* history: the last WRITE and what was said of it

hazVars == <<blocks, users, rings, steps, allocs, stamps, stackLo, stackHi, since,
             hazards, violations, judged>>

WordsOf(a, n) == a..(a + n - 1)
Put(f, x, v) == [y \in DOMAIN f \cup {x} |-> IF y = x THEN v ELSE f[y]]
Minus(f, xs) == [y \in DOMAIN f \ xs |-> f[y]]

-----------------------------------------------------------------------------
(* The target.                                                             *)

Emit(t, e) ==
    /\ steps < MaxSteps /\ steps' = steps + 1
    /\ rings' = [rings EXCEPT ![t] = Append(@, e)]
    /\ UNCHANGED <<allocs, stamps, stackLo, stackHi, since, hazards, violations, judged>>
Use(t, as) == users' = [a \in Words |-> IF a \in as THEN users[a] \cup {t} ELSE users[a]]

TargetAlloc(t, p, n) ==
    /\ WordsOf(p, n) \subseteq Words
    /\ \A b \in DOMAIN blocks : WordsOf(b, blocks[b]) \cap WordsOf(p, n) = {}
    /\ Emit(t, [kind |-> "alloc", addr |-> p, size |-> n])
    /\ blocks' = Put(blocks, p, n) /\ Use(t, WordsOf(p, n))

TargetFree(t, p) ==
    /\ p \in DOMAIN blocks
    /\ Emit(t, [kind |-> "free", addr |-> p, size |-> 0])
    /\ blocks' = Minus(blocks, {p}) /\ Use(t, WordsOf(p, blocks[p]))

\* the event carries the block the write starts in, as history
TargetWrite(t, a, n) ==
    LET hit == {b \in DOMAIN blocks : a \in WordsOf(b, blocks[b])}
    IN /\ Emit(t, [kind |-> "write", addr |-> a, size |-> n,
                   hit |-> {[base |-> b, size |-> blocks[b]] : b \in hit}])
       /\ Use(t, WordsOf(a, n) \cap Words) /\ UNCHANGED blocks

\* CALL and TAIL_CALL carry the stack pointer
TargetCall(t, sp) ==
    /\ Emit(t, [kind |-> "call", addr |-> sp, size |-> 0])
    /\ UNCHANGED <<blocks, users>>

-----------------------------------------------------------------------------
(* Tables of the engine.                                                   *)

\* containing_alloc
Containing(a) ==
    LET below == {b \in DOMAIN allocs : b <= a}
    IN {b \in below : (\A c \in below : c <= b) /\ a < b + allocs[b]}

\* covering: the projection an address lies in, looked for among the last
\* two that begin at or before it
CoveringStamp(a) ==
    LET below == {b \in DOMAIN stamps : b <= a}
        near == {b \in below : Cardinality({c \in below : c > b}) < 2 /\ a < b + stamps[b]}
    IN {b \in near : \A c \in near : c <= b}

IsHeap(a) == \A t \in Workers : ~(stackLo[t] <= a /\ a < stackHi[t])

\* the write ends behind the block; and a block taken for one word shorter
OverrunsEarly(a, n, b) == a + n >= b + allocs[b]
Overruns(a, n, b) == a + n > b + allocs[b]

\* check_write_bounds: a hole is one only within the span of known blocks
Bounds(a, n) ==
    IF Containing(a) # {}
    THEN IF \E b \in Containing(a) : Overruns(a, n, b) THEN "OOB" ELSE "none"
    ELSE IF /\ \E b \in DOMAIN allocs : b <= a
            /\ \E b \in DOMAIN allocs : (\A c \in DOMAIN allocs : c <= b) /\ a < b + allocs[b]
         THEN "HOLE" ELSE "none"

\* a store may spill past the end of a struct, by less the narrower it is
Tolerance(n) == CASE n >= 8 -> 7 [] n >= 4 -> 3 [] n >= 2 -> 1 [] OTHER -> 0

\* a wide store may end in a later field; and one that must not
NeverCoalesced(fields, f, end) == FALSE
Coalesced(fields, f, end) ==
    \E g \in Range(fields) : g.off >= f.off + f.size /\ end <= g.off + g.size

\* check_write for a write at offset off of a struct of size words: the first
\* field that contains the offset counts
Violates(fields, size, off, n) ==
    LET in == {i \in DOMAIN fields : fields[i].off <= off /\ off < fields[i].off + fields[i].size}
        end == off + n
    IN /\ fields # <<>>
       /\ IF in = {} THEN end > size
          ELSE \E i \in in :
                 /\ \A k \in in : i <= k
                 /\ end > fields[i].off + fields[i].size /\ ~Coalesced(fields, fields[i], end)
                 /\ ~(size < end /\ end <= size + Tolerance(n))

-----------------------------------------------------------------------------
(* The engine takes the first event of a ring.                             *)

Take(t, kind) ==
    /\ rings[t] # <<>> /\ Head(rings[t]).kind = kind
    /\ rings' = [rings EXCEPT ![t] = Tail(@)]
    /\ UNCHANGED <<blocks, users, steps>>
Later == since' = IF since < Grace THEN since + 1 ELSE since

\* a tracked address with another size loses its projections; with the same
\* one it is the inner call of a wrapper
OnAlloc(t) ==
    LET e == Head(rings[t])
        resized == e.addr \in DOMAIN allocs /\ allocs[e.addr] # e.size
        kept == IF resized THEN Minus(stamps, WordsOf(e.addr, allocs[e.addr])) ELSE stamps
    IN /\ Take(t, "alloc")
       /\ since' = 0
       /\ allocs' = Put(allocs, e.addr, e.size)
       /\ stamps' = Put(kept, e.addr, e.size)
       /\ UNCHANGED <<stackLo, stackHi, hazards, violations, judged>>

OnFree(t) ==
    LET p == Head(rings[t]).addr
    IN /\ Take(t, "free") /\ Later
       /\ allocs' = Minus(allocs, {p})
       /\ stamps' = IF p \in DOMAIN allocs THEN Minus(stamps, WordsOf(p, allocs[p]))
                    ELSE IF p \in DOMAIN stamps THEN Minus(stamps, WordsOf(p, stamps[p])) ELSE stamps
       /\ UNCHANGED <<stackLo, stackHi, hazards, violations, judged>>

OnCall(t) ==
    LET sp == Head(rings[t]).addr
        lower(x, y) == IF x < y THEN x ELSE y
        new == stackLo[t] > stackHi[t]
    IN /\ Take(t, "call") /\ Later
       /\ stackLo' = [stackLo EXCEPT ![t] = IF new THEN sp ELSE lower(@, sp)]
       /\ stackHi' = [stackHi EXCEPT ![t] = IF new \/ @ < sp + StackSpan THEN sp + StackSpan ELSE @]
       /\ UNCHANGED <<allocs, stamps, hazards, violations, judged>>

\* WRITE: the check against the type, then the check of the bounds.  A hole
\* within the grace period is dropped, and so is a second hazard at the same
\* address, whatever it is.
OnWrite(t) ==
    LET e == Head(rings[t])
        heap == IsHeap(e.addr)
        wrong == heap /\ \E b \in CoveringStamp(e.addr) :
                    Violates(Layout[stamps[b]], stamps[b], e.addr - b, e.size)
        kind == IF ~heap \/ Len(hazards) >= HazardCap THEN "none" ELSE Bounds(e.addr, e.size)
        elapsed == since + 1
        reported == /\ kind # "none" /\ ~(kind = "HOLE" /\ elapsed < Grace)
                    /\ ~\E h \in Range(hazards) : h.addr = e.addr
    IN /\ Take(t, "write") /\ Later
       /\ violations' = IF wrong /\ Len(violations) < ViolationCap
                        THEN Append(violations, e.addr) ELSE violations
       /\ hazards' = IF reported THEN Append(hazards, [kind |-> kind, addr |-> e.addr]) ELSE hazards
       /\ judged' = <<[event |-> e, kind |-> IF reported THEN kind ELSE "none", wrong |-> wrong]>>
       /\ UNCHANGED <<allocs, stamps, stackLo, stackHi>>

HazInit ==
    /\ blocks = << >> /\ users = [a \in Words |-> {}] /\ rings = [t \in Workers |-> <<>>] /\ steps = 0
    /\ allocs = << >> /\ stamps = << >> /\ since = 0 /\ hazards = <<>> /\ violations = <<>>
    /\ stackLo = [t \in Workers |-> 1] /\ stackHi = [t \in Workers |-> 0] /\ judged = <<>>

HazNext ==
    \E t \in Workers :
        \/ \E p \in Words : TargetFree(t, p) \/ \E n \in BlockSizes : TargetAlloc(t, p, n)
        \/ \E a \in Words, n \in WriteSizes : TargetWrite(t, a, n)
        \/ \E sp \in StackPtrs : TargetCall(t, sp)
        \/ OnAlloc(t) \/ OnFree(t) \/ OnCall(t) \/ OnWrite(t)

HazSpec == HazInit /\ [][HazNext]_hazVars

-----------------------------------------------------------------------------
(* Properties.                                                             *)

\* a block whose memory only one thread ever used
Private(b) == \A x, y \in WordsOf(b.base, b.size) : users[x] = users[y] /\ (\E t \in Workers : users[x] = {t})

\* However the engine interleaves the rings, a write that stays in a block
\* whose memory one thread alone ever used is not reported, and one that runs
\* over its end is: at that address there is a hazard, unless the list is
\* full or the address is taken for stack.
HazardsExact ==
    \A j \in Range(judged) : \A b \in j.event.hit : Private(b) =>
        IF j.event.addr + j.event.size <= b.base + b.size
        THEN j.kind = "none"
        ELSE \/ \E h \in Range(hazards) : h.addr = j.event.addr
             \/ Len(hazards) = HazardCap \/ ~IsHeap(j.event.addr)

\* Such a write is judged by the type of its own block and not by one that
\* was there before: within a field, or from one field into another, it is
\* no violation; past the end by more than the tolerance it is one.
StabilitySound ==
    \A j \in Range(judged) : \A b \in j.event.hit :
        LET fields == Layout[b.size]
            off == j.event.addr - b.base
            end == off + j.event.size
            at(x) == \E f \in Range(fields) : f.off <= x /\ x < f.off + f.size
        IN Private(b) =>
            /\ at(off) /\ at(end - 1) => ~j.wrong
            /\ end > b.size + Tolerance(j.event.size) /\ IsHeap(j.event.addr) /\ fields # <<>> => j.wrong

=============================================================================
