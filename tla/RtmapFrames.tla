---------------------------- MODULE RtmapFrames ----------------------------
(***************************************************************************)
(* The address index (src/engine/src/index.rs) and what it is kept in step *)
(* with: the shadow stacks and the nodes and pointer edges of the world    *)
(* (world.rs), driven by CALL, RETURN, WRITE, CACHE_MISS and MODULE_LOAD   *)
(* (reconciler.rs) and by the deferred relocation of library globals.      *)
(*                                                                         *)
(* The target's own call stacks are modelled beside the shadow stacks, so  *)
(* that a lost event, a longjmp or a callee without debug information      *)
(* shows as the difference of the two.  Names, values and the counters for *)
(* display (mismatches, cache heat) are left out; shadow registers, heap   *)
(* oracle and type stamps, which the same handlers touch, are the subject  *)
(* of RtmapRegs and RtmapTypes.  Addresses count words.                    *)
(***************************************************************************)
EXTENDS Integers, Sequences, FiniteSets, SequencesExt

CONSTANTS
    Threads,
    Funcs,          \* [name -> [home : "main", "lib" or "none" (no DWARF),
                    \*           locals : Seq([off, size, ptr])]]
    Types,          \* [name -> Seq([off, size, ptr, type])]
    Globals,        \* globals of the executable: Seq([addr, size, ptr, type])
    LibGlobals,     \* the same for the libraries
    StackBase,      \* [Threads -> address of the first frame]
    FrameSize, MaxDepth,
    FieldDepth,     \* nesting of fields that is registered (6)
    FieldCap,       \* fields of one global that are registered (u16::MAX)
    MruSlots,       \* MRU_SLOTS
    Keep,           \* returned frames whose nodes are kept (32)
    MaxFrames,      \* bound on the frames of a behaviour
    Probes,         \* addresses the target writes
    PtrValues       \* pointer values it writes, and 0 for the null pointer

ASSUME FramesAssumption ==
    /\ MruSlots \in Nat \ {0} /\ Keep \in Nat /\ MaxFrames \in Nat
    /\ FieldCap \in Nat /\ FieldDepth \in Nat /\ 0 \notin Probes /\ 0 \in PtrValues
    /\ FrameSize \in Nat /\ MaxDepth \in Nat /\ StackBase \in [Threads -> Nat]

\* Types are made of types; a global is of one.
ASSUME FieldTypesAssumption ==
    /\ \A ty \in DOMAIN Types :
          Types[ty] \in Seq([off : Nat, size : Nat, ptr : BOOLEAN, type : DOMAIN Types])
    /\ {Globals, LibGlobals} \subseteq
          Seq([addr : Nat, size : Nat, ptr : BOOLEAN, type : DOMAIN Types])

\* A compiler gives the locals of a function room in its frame.
ASSUME LocalsAssumption ==
    \A fn \in DOMAIN Funcs :
        /\ Funcs[fn].locals \in Seq([off : Nat, size : Nat, ptr : BOOLEAN])
        /\ \A li \in DOMAIN Funcs[fn].locals :
              Funcs[fn].locals[li].off + Funcs[fn].locals[li].size <= FrameSize

\* The stacks of two threads are apart.
OnStack(t, a) == StackBase[t] <= a /\ a < StackBase[t] + FrameSize * MaxDepth
ASSUME StacksAssumption ==
    \A t, u \in Threads : t # u =>
        \/ StackBase[t] + FrameSize * MaxDepth <= StackBase[u]
        \/ StackBase[u] + FrameSize * MaxDepth <= StackBase[t]

VARIABLES
    real,           \* the target's stacks: the engine's id of each frame, 0
                    \* for one the engine does not know
    pie,            \* the executable is position independent
    loaded,         \* relocation_delta is set
    libs,           \* lib_globals_done
    stacks,         \* shadow stacks: Seq of frame ids
    nextFid, returned,
    index,          \* [statics, dynamics, mru, lo, hi]
    nodes, edges,   \* the world's nodes, and source -> [target, dangling]
    skewed          \* threads whose shadow stack lost step with the target

vars == <<real, pie, loaded, libs, stacks, nextFid, returned, index, nodes,
          edges, skewed>>

-----------------------------------------------------------------------------
(* Identities and intervals.                                               *)

GlobalNode(gi) == <<"Global", gi>>
FieldNode(gi, fi) == <<"Field", gi, fi>>
LocalNode(fid, li) == <<"Local", fid, li>>
Dangling == <<"Global", -1>>        \* NodeId::Global(u32::MAX)
IsLocal(n) == n[1] = "Local"

Covers(iv, a) == iv.lo <= a /\ a < iv.hi
Span(iv) == iv.hi - iv.lo
\* node_rank
Rank(n) == CASE n[1] = "Local" -> 2 [] n[1] = "Field" -> 1 [] OTHER -> 0

MaxAddr == 999      \* stands for u64::MAX

NewIndex ==
    [statics |-> <<>>, dynamics |-> << >>, mru |-> <<>>, lo |-> MaxAddr, hi |-> 0]

\* widen_universe, for a sequence of intervals
WidenDown(ix, ivs) ==
    [ix EXCEPT !.lo = Min({ix.lo} \cup {iv.lo : iv \in Range(ivs)})]
Widen(ix, ivs) ==
    [ix EXCEPT !.lo = Min({ix.lo} \cup {iv.lo : iv \in Range(ivs)}),
               !.hi = Max({ix.hi} \cup {iv.hi : iv \in Range(ivs)})]

\* register_fields_recursive: the fields of a type in depth-first order; a
\* field of at most one word and a pointer are not entered
FieldWith(f, inner) ==
    IF f.size = 0 THEN <<>>
    ELSE <<[off |-> f.off, size |-> f.size, ptr |-> f.ptr]>> \o
         [j \in DOMAIN inner |-> [inner[j] EXCEPT !.off = @ + f.off]]
FieldsOf[d \in 0..(FieldDepth + 1)] ==
    [ty \in DOMAIN Types |->
        IF d > FieldDepth THEN <<>>
        ELSE FlattenSeq([i \in DOMAIN Types[ty] |->
            LET f == Types[ty][i]
            IN FieldWith(f, IF f.ptr \/ f.size <= 1 THEN <<>> ELSE FieldsOf[d + 1][f.type])])]

\* insert_global and insert_field: an empty variable is not indexed
GlobalIntervals(g, gi) ==
    LET all == IF g.ptr THEN <<>> ELSE FieldsOf[0][g.type]
        fields == SubSeq(all, 1, Min({FieldCap, Len(all)}))
        own == [lo |-> g.addr, hi |-> g.addr + g.size, nid |-> GlobalNode(gi), ptr |-> g.ptr]
    IN (IF g.size = 0 THEN <<>> ELSE <<own>>) \o
       [fi \in DOMAIN fields |-> [lo |-> g.addr + fields[fi].off,
                                  hi |-> g.addr + fields[fi].off + fields[fi].size,
                                  nid |-> FieldNode(gi, fi), ptr |-> fields[fi].ptr]]

\* the intervals of globals gs numbered from base, in the order of insertion
Intervals(gs, base) ==
    FlattenSeq([i \in DOMAIN gs |-> GlobalIntervals(gs[i], base + i)])

\* No global lies on a stack.
ASSUME GlobalsAssumption ==
    \A iv \in Range(Intervals(Globals, 0)) \cup Range(Intervals(LibGlobals, Len(Globals))) :
        \A t \in Threads : \A a \in iv.lo..(iv.hi - 1) : ~OnStack(t, a)

\* finalize sorts by lower bound; intervals with the same bound keep their
\* order, one of those the code's unstable sort may leave
Place(ivs, i) ==
    1 + Cardinality({j \in DOMAIN ivs : \/ ivs[j].lo < ivs[i].lo
                                        \/ ivs[j].lo = ivs[i].lo /\ j < i})
Finalize(ivs) == [p \in DOMAIN ivs |-> ivs[CHOOSE i \in DOMAIN ivs : Place(ivs, i) = p]]

\* globals added to the index: every insertion and the sort forget the MRU
\* entries
Populate(ix, gs, base) ==
    LET new == Intervals(gs, base)
    IN IF new = <<>> THEN ix
       ELSE [Widen(ix, new) EXCEPT !.statics = Finalize(ix.statics \o new), !.mru = <<>>]

\* the nodes populate_globals makes sure of
GlobalNodes(gs, base) ==
    {GlobalNode(base + i) : i \in DOMAIN gs} \cup {iv.nid : iv \in Range(Intervals(gs, base))}

-----------------------------------------------------------------------------
(* Lookup.                                                                 *)

\* lookup_dynamics: the narrowest interval of any frame; among equals the
\* order of the hash map decides, within a frame the first
DynamicHits(ix, a) ==
    LET in == {h \in UNION {{f} \X DOMAIN ix.dynamics[f] : f \in DOMAIN ix.dynamics} :
                  Covers(ix.dynamics[h[1]][h[2]], a)}
        span(h) == Span(ix.dynamics[h[1]][h[2]])
    IN {h \in in : \A k \in in : \/ span(h) < span(k)
                                 \/ span(h) = span(k) /\ (k[1] = h[1] => h[2] <= k[2])}

\* lookup_statics: only the intervals with the greatest lower bound not above
\* the address are looked at; the last of equals stays
StaticHits(ix, a) ==
    LET below == {i \in DOMAIN ix.statics : ix.statics[i].lo <= a}
        in == {i \in below : /\ \A j \in below : ix.statics[j].lo <= ix.statics[i].lo
                             /\ Covers(ix.statics[i], a)}
        better(i, j) == \/ Rank(ix.statics[i].nid) > Rank(ix.statics[j].nid)
                        \/ /\ Rank(ix.statics[i].nid) = Rank(ix.statics[j].nid)
                           /\ \/ Span(ix.statics[i]) < Span(ix.statics[j])
                              \/ Span(ix.statics[i]) = Span(ix.statics[j]) /\ i > j
    IN {i \in in : \A j \in in \ {i} : better(i, j)}

\* push_mru: the oldest entry falls out
PushMru(mru, e) == SubSeq(<<e>> \o mru, 1, Min({MruSlots, Len(mru) + 1}))
\* an entry that is hit again goes to the front
ToFront(mru, s) == <<mru[s]>> \o SubSeq(mru, 1, s - 1) \o SubSeq(mru, s + 1, Len(mru))

\* the variable an MRU entry stands for (resolve_mru)
Resolved(ix, e) ==
    CASE e.tier = "static" /\ e.idx \in DOMAIN ix.statics -> {ix.statics[e.idx]}
      [] e.tier = "dynamic" /\ e.fid \in DOMAIN ix.dynamics ->
            {ix.dynamics[e.fid][i] : i \in {e.idx} \cap DOMAIN ix.dynamics[e.fid]}
      [] OTHER -> {}

\* lookup: the possible results, each the set of variables found (one or none)
\* and the index after it.  The first MRU entry that contains the address is
\* moved to the front and returned whatever else contains it.
MruHits(ix, a) == {s \in DOMAIN ix.mru : Covers(ix.mru[s], a)}
Entry(tier, iv, fid, i) == [tier |-> tier, lo |-> iv.lo, hi |-> iv.hi, fid |-> fid, idx |-> i]
Nothing(ix) == [var |-> {}, ix |-> ix]
FromMru(ix, s) == [var |-> Resolved(ix, ix.mru[s]), ix |-> [ix EXCEPT !.mru = ToFront(@, s)]]
Found(ix, iv, e) == [var |-> {iv}, ix |-> [ix EXCEPT !.mru = PushMru(@, e)]]
FromFrame(ix, h) ==
    LET iv == ix.dynamics[h[1]][h[2]] IN Found(ix, iv, Entry("dynamic", iv, h[1], h[2]))
FromStatics(ix, i) ==
    LET iv == ix.statics[i] IN Found(ix, iv, Entry("static", iv, 0, i))

Lookup(ix, a) ==
    IF a < ix.lo \/ a >= ix.hi THEN {Nothing(ix)}
    ELSE IF MruHits(ix, a) # {} THEN {FromMru(ix, Min(MruHits(ix, a)))}
    ELSE IF DynamicHits(ix, a) # {} THEN {FromFrame(ix, h) : h \in DynamicHits(ix, a)}
    ELSE IF StaticHits(ix, a) # {} THEN {FromStatics(ix, i) : i \in StaticHits(ix, a)}
    ELSE {Nothing(ix)}

-----------------------------------------------------------------------------
(* Frames.                                                                 *)

\* the callee is found in info.functions.  The key of a function of the
\* executable is its address in the file, and the handler subtracts the
\* relocation first; the key of a library's function is its run-time
\* address, and the handler subtracts the executable's relocation all the
\* same, so it is found only where that is zero.
Knows(fn) ==
    CASE Funcs[fn].home = "main" -> loaded \/ ~pie
      [] Funcs[fn].home = "lib" -> libs /\ ~pie
      [] OTHER -> FALSE

\* insert_frame_locals: locals without a size are left out (an interval
\* keeps the number of its local, which gives the same order)
FrameIntervals(fid, base, ls) ==
    [li \in {i \in DOMAIN ls : ls[i].size > 0} |->
        [lo |-> base + ls[li].off, hi |-> base + ls[li].off + ls[li].size,
         nid |-> LocalNode(fid, li), ptr |-> ls[li].ptr]]

\* CALL of fn with stack pointer base, handled for a function that is known
InsertFrame(ix, fid, base, fn) ==
    LET ls == Funcs[fn].locals
        ivs == FrameIntervals(fid, base, ls)
    IN IF ls = <<>> THEN ix
       ELSE [Widen(ix, ivs) EXCEPT
                !.mru = <<>>,
                !.dynamics = IF DOMAIN ivs = {} THEN @
                             ELSE [f \in DOMAIN @ \cup {fid} |-> IF f = fid THEN ivs ELSE @[f]]]

\* remove_frame
RemoveFrame(ix, fid) ==
    [ix EXCEPT !.dynamics = [f \in DOMAIN @ \ {fid} |-> @[f]], !.mru = <<>>]

\* remove_frame_nodes of the frames fids: their nodes, the edges from them
\* and the edges to them
EdgesFromWithout(dead) == [n \in DOMAIN edges \ dead |-> edges[n]]
EdgesWithout(dead) ==
    [n \in {m \in DOMAIN edges \ dead : edges[m].target \notin dead} |-> edges[n]]

Top(s) == s[Len(s)]

Init ==
    /\ real = [t \in Threads |-> <<>>] /\ stacks = [t \in Threads |-> <<>>]
    /\ pie \in BOOLEAN /\ loaded = FALSE /\ libs = FALSE
    /\ nextFid = 1 /\ returned = <<>>
    /\ index = Populate(NewIndex, Globals, 0)
    /\ nodes = GlobalNodes(Globals, 0)
    /\ edges = << >> /\ skewed = {}

\* the target calls fn; the event arrives or is lost
CallLost(t, fn) ==
    /\ real' = [real EXCEPT ![t] = Append(@, 0)]
    /\ skewed' = IF Knows(fn) THEN skewed \cup {t} ELSE skewed
    /\ UNCHANGED <<stacks, nextFid, index, nodes>>

CallHandled(t, fn) ==
    LET base == StackBase[t] + FrameSize * Len(real[t])
        fid == IF Knows(fn) THEN nextFid ELSE 0
    IN /\ real' = [real EXCEPT ![t] = Append(@, fid)]
       /\ IF Knows(fn)
          THEN /\ nextFid' = nextFid + 1
               /\ stacks' = [stacks EXCEPT ![t] = Append(@, fid)]
               /\ nodes' = nodes \cup {LocalNode(fid, li) : li \in DOMAIN Funcs[fn].locals}
               /\ index' = InsertFrame(index, fid, base, fn)
          ELSE UNCHANGED <<nextFid, stacks, nodes, index>>
       /\ UNCHANGED skewed

Call(t, fn) ==
    /\ Len(real[t]) < MaxDepth /\ nextFid <= MaxFrames
    /\ CallHandled(t, fn) \/ CallLost(t, fn)
    /\ UNCHANGED <<pie, loaded, libs, returned, edges>>

\* RETURN: the top shadow frame goes, whichever function returned; the nodes
\* of the frame that falls out of the queue of returned ones go too
PopReturn(t) ==
    IF stacks[t] = <<>> THEN UNCHANGED <<stacks, index, returned, nodes, edges>>
    ELSE LET q == Append(returned, Top(stacks[t]))
             fallen == {q[i] : i \in 1..(Len(q) - Keep)}
             dead == {n \in nodes : IsLocal(n) /\ n[2] \in fallen}
         IN /\ stacks' = [stacks EXCEPT ![t] = Front(@)]
            /\ index' = RemoveFrame(index, Top(stacks[t]))
            /\ returned' = SubSeq(q, Cardinality(fallen) + 1, Len(q))
            /\ nodes' = nodes \ dead
            /\ edges' = EdgesWithout(dead)

Return(t) ==
    /\ real[t] # <<>>
    /\ real' = [real EXCEPT ![t] = Front(@)]
    /\ \/ /\ PopReturn(t)
          /\ skewed' = IF stacks[t] # <<>> /\ Top(real[t]) # Top(stacks[t])
                       THEN skewed \cup {t} ELSE skewed
       \/ /\ UNCHANGED <<stacks, index, returned, nodes, edges>>   \* lost
          /\ skewed' = skewed \cup {t}
    /\ UNCHANGED <<pie, loaded, libs, nextFid>>

\* a longjmp leaves frames without a RETURN.  (A tail call replaces the top
\* frame of the target; TAIL_CALL changes nothing here.)
LongJmp(t) ==
    /\ Len(real[t]) > 1
    /\ \E n \in 1..(Len(real[t]) - 1) : real' = [real EXCEPT ![t] = SubSeq(@, 1, n)]
    /\ skewed' = skewed \cup {t}
    /\ UNCHANGED <<pie, loaded, libs, stacks, nextFid, returned, index, nodes, edges>>

-----------------------------------------------------------------------------
(* Writes, misses and modules.                                             *)

\* WRITE of val at address a by any thread.  The node of the variable exists
\* or is made; a pointer gets an edge to the variable it points to, a
\* dangling one if there is none, and loses its edge when it is null.
UpdateEdge(n, targets, val) ==
    IF targets = {} /\ val = 0 THEN [m \in DOMAIN edges \ {n} |-> edges[m]]
    ELSE LET e == IF targets = {} THEN [target |-> Dangling, dangling |-> TRUE]
                  ELSE [target |-> (CHOOSE v \in targets : TRUE).nid, dangling |-> FALSE]
         IN [m \in DOMAIN edges \cup {n} |-> IF m = n THEN e ELSE edges[m]]

Write(a, val) ==
    /\ \E r \in Lookup(index, a) :
          IF r.var = {} THEN index' = r.ix /\ UNCHANGED <<nodes, edges>>
          ELSE \E v \in r.var :
             /\ nodes' = nodes \cup {v.nid}
             /\ IF ~v.ptr THEN index' = r.ix /\ UNCHANGED edges
                ELSE IF val = 0 THEN index' = r.ix /\ edges' = UpdateEdge(v.nid, {}, 0)
                ELSE \E q \in Lookup(r.ix, val) :
                        index' = q.ix /\ edges' = UpdateEdge(v.nid, q.var, val)
    /\ UNCHANGED <<real, pie, loaded, libs, stacks, nextFid, returned, skewed>>

CacheMiss(a) ==
    /\ \E r \in Lookup(index, a) : index' = r.ix
    /\ UNCHANGED <<real, pie, loaded, libs, stacks, nextFid, returned, nodes, edges, skewed>>

\* the first MODULE_LOAD sets the relocation and builds the index anew: the
\* frames that were in it are gone, their nodes are not.  remove_node and
\* ensure_node of a global take away its edge.
ModuleLoad ==
    /\ ~loaded /\ loaded' = TRUE
    /\ index' = Populate(NewIndex, Globals, 0)
    /\ edges' = [n \in DOMAIN edges \ GlobalNodes(Globals, 0) |-> edges[n]]
    /\ nodes' = nodes \cup GlobalNodes(Globals, 0)
    /\ skewed' = {t \in Threads : stacks[t] # <<>>} \cup skewed
    /\ UNCHANGED <<real, pie, libs, stacks, nextFid, returned>>

\* populate_lib_globals, once the tracer's table names every library
LibGlobalsReady ==
    /\ loaded /\ ~libs /\ libs' = TRUE
    /\ index' = Populate(index, LibGlobals, Len(Globals))
    /\ nodes' = nodes \cup GlobalNodes(LibGlobals, Len(Globals))
    /\ UNCHANGED <<real, pie, loaded, stacks, nextFid, returned, edges, skewed>>

Next ==
    \/ \E t \in Threads : Return(t) \/ LongJmp(t) \/ \E fn \in DOMAIN Funcs : Call(t, fn)
    \/ \E a \in Probes : CacheMiss(a) \/ \E val \in PtrValues : Write(a, val)
    \/ ModuleLoad \/ LibGlobalsReady

Spec == Init /\ [][Next]_vars

-----------------------------------------------------------------------------
(* Properties.                                                             *)

OnStacks == UNION {Range(stacks[t]) : t \in Threads}

\* The pieces a frame is spread over stay together: an MRU entry stands for
\* an interval that is in the index with the same bounds, everything in the
\* index has a node, an edge that is not dangling has both its nodes, and a
\* frame has nodes only while it is on a stack or among the last Keep that
\* returned.  (index.rs forgets the MRU in five places; world.rs removes the
\* nodes of a frame 32 returns after index.rs removed its intervals.)
IndexConsistent ==
    /\ \A s \in DOMAIN index.mru :
          \E iv \in Resolved(index, index.mru[s]) : iv.lo = index.mru[s].lo /\ iv.hi = index.mru[s].hi
    /\ \A iv \in Range(index.statics) \cup UNION {Range(index.dynamics[f]) : f \in DOMAIN index.dynamics} :
          iv.nid \in nodes
    /\ \A n \in DOMAIN edges : n \in nodes /\ (edges[n].dangling \/ edges[n].target \in nodes)
    /\ DOMAIN index.dynamics \subseteq OnStacks
    /\ \A n \in nodes : IsLocal(n) => n[2] \in OnStacks \cup Range(returned)
    /\ Len(returned) <= Keep /\ OnStacks \cap Range(returned) = {}

\* A write into a live frame is never attributed to another frame or to a
\* global, as long as the thread's shadow stack is in step with its stack:
\* whatever the MRU holds and whatever other threads lost.
LocalsAccurate ==
    \A t \in Threads \ skewed : \A i \in DOMAIN real[t] :
        real[t][i] # 0 =>
            /\ real[t][i] \in Range(stacks[t])
            /\ real[t][i] \in DOMAIN index.dynamics =>
                  \A iv \in Range(index.dynamics[real[t][i]]) : \A a \in iv.lo..(iv.hi - 1) :
                      \A r \in Lookup(index, a) :
                          \E v \in r.var : IsLocal(v.nid) /\ v.nid[2] = real[t][i]

=============================================================================
