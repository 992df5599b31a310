----------------------------- MODULE RtmapTypes -----------------------------
(***************************************************************************)
(* How the engine gives types to heap memory: the shadow type map, the     *)
(* table of live allocations and the log of type epochs (world.rs), under  *)
(* the WRITE, ALLOC and FREE events of several threads (process_event in   *)
(* reconciler.rs) and the warm scanner, which stamps what it finds in the  *)
(* memory of the traced process.                                           *)
(*                                                                         *)
(* A stamp may set off more work before the next event: deferred writes    *)
(* are replayed and the new region is scanned for pointers.  The engine is *)
(* one thread, so pc leads through this work step by step and no event     *)
(* comes in between.                                                       *)
(*                                                                         *)
(* Addresses are heap words, of the size of a pointer; every value written *)
(* is NULL (0) or points to the heap.  Other writes leave the types alone  *)
(* (OtherEvent).                                                           *)
(***************************************************************************)
EXTENDS Integers, Sequences, FiniteSets, Functions

CONSTANTS
    Addr,        \* heap addresses, in words
    Types,       \* struct types of the DWARF registry
    TypeSize,    \* type -> words
    Fields,      \* type -> its pointer fields in the order of their names
    Truncated,   \* types that DWARF parsing left shallow at first
    Globals,     \* typed pointer variables outside the heap
    Pointee,     \* global -> type it points to
    Sizes,       \* sizes of allocations, in words
    Oracle,      \* size -> what AllocSiteOracle may resolve for it
    NoType,      \* the oracle knows no type
    JitSeqs,     \* the threads' counters of WRITE events, and of the
    CallSeqs,    \* others: a ring carries events of one of each
    NoSeq,       \* stands for the counter of a stamp with sequence number 0
    DeferredCap, \* DEFERRED_CAP (4096)
    MaxPasses,   \* REPLAY_MAX_PASSES (8)
    Fuel,        \* nodes a scan may stamp (64 to 256)
    ProcMem,     \* the engine can read the memory of the process
    Reachable,   \* the warm scanner can reach a with type t: <<a, t>>
    MaxEvents    \* bound: events the engine processes

ASSUME TypesAssumption ==
    /\ Addr \subseteq Nat \ {0}
    /\ TypeSize \in [Types -> Nat \ {0}]
    /\ Fields \in [Types -> Seq([off : Nat, to : Types, ind : BOOLEAN, sel : BOOLEAN])]
    /\ \A t \in Types : \A i, j \in DOMAIN Fields[t] :
          /\ Fields[t][i].sel /\ Fields[t][j].sel
          /\ Fields[t][i].off = Fields[t][j].off
          => i = j
    /\ Truncated \subseteq Types
    /\ Pointee \in [Globals -> Types]
    /\ Sizes \subseteq Nat \ {0}
    /\ Oracle \in [Sizes -> SUBSET (Types \cup {NoType})]
    /\ NoType \notin Types
    /\ NoSeq \notin JitSeqs \cup CallSeqs /\ JitSeqs \cap CallSeqs = {}
    /\ DeferredCap \in Nat \ {0}
    /\ MaxPasses \in Nat \ {0}
    /\ Fuel \in Nat \ {0}
    /\ ProcMem \in BOOLEAN
    /\ Reachable \subseteq Addr \X Types
    /\ MaxEvents \in Nat

VARIABLES
    \* ShadowTypeMap
    stm,          \* base address -> projection
    indirect,     \* base of an array of pointers -> type of the elements
    deferred,     \* event -> pointer write no projection covered then
    addrSchisms,  \* address -> changes of its type
    schismCount,
    poolReuse,
    \* HeapAllocTracker, TypeEpochLog, DWARF registry, warm scanner
    allocs,       \* base -> size and number of the allocation
    totalAllocs,
    epochs,       \* closed type epochs
    shallow,      \* types whose registry entry has no fields yet
    warmed,       \* visited by the warm scanner -> the type it came with
    \* the event loop and the handler at work
    seq,          \* counter -> sequence number of its last event
    total,        \* events processed
    pc,           \* what the engine does next
    now,          \* stamp time of the event, or Cold
    val,          \* address that was stamped
    pass,         \* replay_deferred: passes made
    hits,         \* ... writes left to replay in this pass
    replayed,     \* ... stamps made in this pass
    queue,        \* retrospective_scan: regions to scan
    fld,          \* ... next field of the first of them
    found         \* ... stamps made

marks == <<stm, addrSchisms, schismCount, poolReuse>>
replay == <<pass, hits, replayed>>
scan == <<queue, fld, found>>
clock == <<seq, total>>
vars == <<marks, indirect, deferred, allocs, totalAllocs, epochs, shallow,
          warmed, clock, pc, now, val, replay, scan>>

----------------------------------------------------------------------------
(* A map with one more entry, or another value for a key it has.           *)
Insert(f, x, v) == [y \in DOMAIN f \cup {x} |-> IF y = x THEN v ELSE f[y]]

(* A map without the entries for a set of keys.                            *)
Drop(f, xs) == Restrict(f, DOMAIN f \ xs)

(* When a stamp was made.  The code keeps the sequence number only.        *)
Cold == [of |-> NoSeq, seq |-> 0]
Counters == JitSeqs \cup CallSeqs

(* The type as the registry has it, and in full (after ensure_type).       *)
TypeInfo(t) == [name |-> t, shallow |-> t \in shallow]
Deep(t) == [name |-> t, shallow |-> FALSE]

(* A shallow type has no fields.                                           *)
FieldsOf(ti) == IF ti.shallow THEN <<>> ELSE Fields[ti.name]

(* stamp_type: what becomes of a stamp.  A fault of it ignores the order   *)
(* of the stamps.                                                          *)
StampResultUnordered(m, a, ti, at) ==
    IF a \notin DOMAIN m THEN "stamped"
    ELSE IF m[a].ti.name = ti.name THEN "restamped"
    ELSE "schism"

StampResult(m, a, ti, at) ==
    IF a \notin DOMAIN m THEN "stamped"
    ELSE IF m[a].ti.name = ti.name THEN "restamped"
    ELSE IF m[a].at.seq > at.seq THEN "rejected"
    ELSE "schism"

Applied(m, a, ti, at) == StampResult(m, a, ti, at) \in {"stamped", "schism"}

(* The second change of the type of an address counts as pool reuse.       *)
IsReuse(a) == addrSchisms[a] >= 1

(* stamp_type on a map m, with its counters.                               *)
StampType(m, a, ti, at) ==
    LET schism == StampResult(m, a, ti, at) = "schism"
    IN  /\ stm' = IF Applied(m, a, ti, at)
                  THEN Insert(m, a, [ti |-> ti, at |-> at]) ELSE m
        /\ addrSchisms' = IF schism THEN [addrSchisms EXCEPT ![a] = @ + 1]
                          ELSE addrSchisms
        /\ schismCount' = IF schism /\ ~IsReuse(a) THEN schismCount + 1
                          ELSE schismCount
        /\ poolReuse' = IF schism /\ IsReuse(a) THEN poolReuse + 1
                        ELSE poolReuse

(* The nearest projection at or below an address, if it reaches that far.  *)
Covers(b, a) ==
    /\ b \in DOMAIN stm
    /\ b <= a /\ a < b + TypeSize[stm[b].ti.name]
    /\ \A c \in DOMAIN stm : c <= a => c <= b

Covered(d) == \E b \in DOMAIN stm : Covers(b, d.addr)

(* containing_alloc                                                        *)
ContainingAlloc(b, a) ==
    /\ b \in DOMAIN allocs
    /\ b <= a /\ a < b + allocs[b].size
    /\ \A c \in DOMAIN allocs : c <= a => c <= b

(* indirect_lookup: the type of the elements of an array (at most one).    *)
ElementTypes(a) == {indirect[b] : b \in {c \in DOMAIN indirect : ContainingAlloc(c, a)}}

(* The freshness guard compares the stamp's sequence number with the       *)
(* number of the allocation.                                               *)
Fresh(b) == b \in DOMAIN allocs => stm[b].at.seq >= allocs[b].seq

(* The pointer field of a fresh projection at an address (at most one: of  *)
(* the members of a union the first of the size of a pointer is selected). *)
FieldsAt(a) ==
    UNION {{f \in Range(FieldsOf(stm[b].ti)) : f.sel /\ f.off = a - b} :
              b \in {c \in DOMAIN stm : Covers(c, a) /\ Fresh(c)}}

(* Propagation stamps what has no type yet, and changes none; a fault.     *)
AnyPointee(v, t) == TRUE

SamePointee(v, t) == v \in DOMAIN stm => stm[v].ti.name = t

(* propagate_field_write: the effect of a pointer written at a ...         *)
PropagateFieldWrite(a, v, at) ==
    \/ /\ v # 0
       /\ \E ti \in ElementTypes(a) : StampType(stm, v, ti, at)
       /\ UNCHANGED indirect
    \/ /\ v # 0 /\ ElementTypes(a) = {}
       /\ \E f \in FieldsAt(a) :
             /\ IF ~f.ind /\ SamePointee(v, f.to)
                THEN StampType(stm, v, TypeInfo(f.to), at)
                ELSE UNCHANGED marks
             /\ indirect' = IF f.ind THEN Insert(indirect, v, TypeInfo(f.to))
                            ELSE indirect
    \/ /\ v = 0 \/ (ElementTypes(a) = {} /\ FieldsAt(a) = {})
       /\ UNCHANGED <<marks, indirect>>

(* ... and its result: whether a stamp was applied.                        *)
Propagates(a, v, at) ==
    /\ v # 0
    /\ \/ \E ti \in ElementTypes(a) : Applied(stm, v, ti, at)
       \/ /\ ElementTypes(a) = {}
          /\ \E f \in FieldsAt(a) :
                /\ ~f.ind /\ SamePointee(v, f.to)
                /\ Applied(stm, v, TypeInfo(f.to), at)

(* defer_write: the oldest write makes room.                               *)
Defer(d) ==
    LET old == DOMAIN deferred
        oldest == {e \in old : \A f \in old : e <= f}
    IN  Insert(IF Cardinality(old) >= DeferredCap THEN Drop(deferred, oldest)
               ELSE deferred, total + 1, d)

(* close_epoch for a projection; a fault of it.                            *)
CloseEpochSwapped(a, at) ==
    epochs \cup {[addr |-> a, type |-> stm[a].ti.name, open |-> at, close |-> stm[a].at]}

CloseEpoch(a, at) ==
    epochs \cup {[addr |-> a, type |-> stm[a].ti.name, open |-> stm[a].at, close |-> at]}

InRange(a, n) == {x \in Addr : a <= x /\ x < a + n}

----------------------------------------------------------------------------
EmptyMap == [x \in {} |-> 0]

Init ==
    /\ stm = EmptyMap /\ indirect = EmptyMap /\ deferred = EmptyMap
    /\ addrSchisms = [a \in Addr |-> 0]
    /\ schismCount = 0 /\ poolReuse = 0
    /\ allocs = EmptyMap /\ totalAllocs = 0
    /\ epochs = {}
    /\ shallow = Truncated
    /\ warmed = EmptyMap
    /\ seq = [c \in Counters |-> 0] /\ total = 0
    /\ pc = "event" /\ now = Cold /\ val = 0
    /\ pass = 0 /\ hits = EmptyMap /\ replayed = 0
    /\ queue = <<>> /\ fld = 1 /\ found = 0

(* The engine takes the next event of a ring, numbered by counter c.       *)
NextEvent(c) ==
    /\ pc = "event" /\ total < MaxEvents
    /\ seq' = [seq EXCEPT ![c] = @ + 1]
    /\ total' = total + 1

StampTime(c) == [of |-> c, seq |-> seq[c] + 1]

(* The handler goes on to replay_deferred, or straight to the scan.        *)
StartReplay(a, at) ==
    /\ pc' = "replay"
    /\ now' = at /\ val' = a
    /\ UNCHANGED <<replay, scan>>

EndReplay == pass' = 0 /\ hits' = EmptyMap /\ replayed' = 0

StartScan(a, at) ==
    /\ pc' = "scan"
    /\ now' = at /\ val' = a
    /\ queue' = <<a>> /\ fld' = 1 /\ found' = 0
    /\ EndReplay

(* The handler returns; its locals are gone.                               *)
Idle ==
    /\ pc' = "event" /\ now' = Cold /\ val' = 0
    /\ EndReplay
    /\ queue' = <<>> /\ fld' = 1 /\ found' = 0

(* WRITE of a pointer to the heap: the type propagates along the field, or *)
(* the write is deferred.                                                  *)
WriteHeap(c, a, v) ==
    LET at == StampTime(c)
    IN  /\ NextEvent(c)
        /\ PropagateFieldWrite(a, v, at)
        /\ IF Propagates(a, v, at)
           THEN /\ pc' = "upgrade" /\ now' = at /\ val' = v
                /\ UNCHANGED <<deferred, replay, scan>>
           ELSE /\ deferred' = IF v = 0 THEN deferred
                               ELSE Defer([addr |-> a, value |-> v, at |-> at])
                /\ Idle
        /\ UNCHANGED <<allocs, totalAllocs, epochs, shallow, warmed>>

(* After a propagated stamp: ensure_type, and a stamp with the full type   *)
(* where the first one was shallow.                                        *)
Upgrade ==
    /\ pc = "upgrade"
    /\ LET ti == stm[val].ti
       IN  /\ shallow' = shallow \ {ti.name}
           /\ IF ti.shallow THEN StampType(stm, val, Deep(ti.name), now)
              ELSE UNCHANGED marks
    /\ StartScan(val, now)
    /\ UNCHANGED <<indirect, deferred, allocs, totalAllocs, epochs, warmed, clock>>

(* WRITE of a heap pointer to a typed global: its target is stamped.       *)
WriteGlobal(c, g, v) ==
    LET at == StampTime(c)
        ti == Deep(Pointee[g])
    IN  /\ NextEvent(c)
        /\ shallow' = shallow \ {Pointee[g]}
        /\ StampType(stm, v, ti, at)
        /\ epochs' = IF StampResult(stm, v, ti, at) = "schism" /\ v \in DOMAIN allocs
                     THEN CloseEpoch(v, at) ELSE epochs
        /\ IF Applied(stm, v, ti, at) THEN StartReplay(v, at) ELSE Idle
        /\ UNCHANGED <<indirect, deferred, allocs, totalAllocs, warmed>>

(* ALLOC: the block is entered.  If the address is still tracked with      *)
(* another size its projections go first.                                  *)
Alloc(c, p, n) ==
    LET at == StampTime(c)
        resized == p \in DOMAIN allocs /\ allocs[p].size # n
    IN  /\ NextEvent(c)
        /\ allocs' = Insert(allocs, p, [size |-> n, seq |-> totalAllocs])
        /\ totalAllocs' = totalAllocs + 1
        /\ epochs' = IF resized /\ p \in DOMAIN stm THEN CloseEpoch(p, at) ELSE epochs
        /\ stm' = IF resized THEN Drop(stm, InRange(p, allocs[p].size)) ELSE stm
        /\ pc' = "site" /\ now' = at /\ val' = p
        /\ UNCHANGED <<addrSchisms, schismCount, poolReuse, indirect, deferred,
                       shallow, warmed, replay, scan>>

(* The second half of ALLOC: the allocation site may give the block a type *)
(* at birth.                                                               *)
AllocSite ==
    /\ pc = "site"
    /\ \E t \in Oracle[allocs[val].size] :
          \/ /\ t = NoType
             /\ Idle
             /\ UNCHANGED <<marks, shallow>>
          \/ /\ t # NoType
             /\ shallow' = shallow \ {t}
             /\ StampType(stm, val, Deep(t), now)
             /\ IF Applied(stm, val, Deep(t), now) THEN StartReplay(val, now) ELSE Idle
    /\ UNCHANGED <<indirect, deferred, allocs, totalAllocs, epochs, warmed, clock>>

(* Everything known of a range goes.                                       *)
Purge(range) ==
    /\ stm' = Drop(stm, range)
    /\ indirect' = Drop(indirect, range)
    /\ deferred' = Drop(deferred, {e \in DOMAIN deferred : deferred[e].addr \in range})

(* FREE of a tracked block, of a typed block that is not tracked, or of    *)
(* neither.                                                                *)
Free(c, p) ==
    LET at == StampTime(c)
    IN  /\ NextEvent(c)
        /\ allocs' = Drop(allocs, {p})
        /\ epochs' = IF p \in DOMAIN stm THEN CloseEpoch(p, at) ELSE epochs
        /\ \/ p \in DOMAIN allocs /\ Purge(InRange(p, allocs[p].size))
           \/ /\ p \in DOMAIN stm \ DOMAIN allocs
              /\ Purge(InRange(p, TypeSize[stm[p].ti.name]))
           \/ /\ p \notin DOMAIN stm \cup DOMAIN allocs
              /\ UNCHANGED <<stm, indirect, deferred>>
        /\ Idle
        /\ UNCHANGED <<addrSchisms, schismCount, poolReuse, totalAllocs, shallow,
                       warmed>>

(* An event that does not concern the types.                               *)
OtherEvent(c) ==
    /\ NextEvent(c) /\ Idle
    /\ UNCHANGED <<marks, indirect, deferred, allocs, totalAllocs, epochs,
                   shallow, warmed>>

(* The warm scanner reaches an address through a pointer of type t, with   *)
(* sequence number 0.  Pool reuse closes no epoch here.                    *)
WarmStamp(a, t) ==
    /\ pc = "event" /\ a \notin DOMAIN warmed
    /\ warmed' = Insert(warmed, a, t)
    /\ shallow' = shallow \ {t}
    /\ StampType(stm, a, Deep(t), Cold)
    /\ epochs' = IF /\ StampResult(stm, a, Deep(t), Cold) = "schism"
                    /\ ~IsReuse(a) /\ a \in DOMAIN allocs
                 THEN CloseEpoch(a, Cold) ELSE epochs
    /\ \/ /\ Applied(stm, a, Deep(t), Cold)
          /\ StartReplay(a, Cold)
       \/ /\ ~Applied(stm, a, Deep(t), Cold) /\ Fields[t] # <<>>
          /\ StartScan(a, Cold)
       \/ /\ ~Applied(stm, a, Deep(t), Cold) /\ Fields[t] = <<>>
          /\ Idle
    /\ UNCHANGED <<indirect, deferred, allocs, totalAllocs, clock>>

----------------------------------------------------------------------------
(* replay_deferred: a pass takes out the writes that are covered now.      *)
ReplayPass ==
    LET covered == {e \in DOMAIN deferred : Covered(deferred[e])}
    IN  /\ pc = "replay"
        /\ \/ /\ pass = MaxPasses \/ covered = {}
              /\ StartScan(val, now)
              /\ UNCHANGED deferred
           \/ /\ pass < MaxPasses /\ covered # {}
              /\ hits' = Restrict(deferred, covered)
              /\ deferred' = Drop(deferred, covered)
              /\ replayed' = 0
              /\ pc' = "propagate"
              /\ UNCHANGED <<pass, scan, now, val>>
        /\ UNCHANGED <<marks, indirect, allocs, totalAllocs, epochs, shallow,
                       warmed, clock>>

(* Whether a pass that made n stamps is followed by another; a fault.      *)
NoMorePasses(n) == FALSE

AnotherPass(n) == n > 0

(* ... and replays them, oldest first.                                     *)
ReplayWrite ==
    /\ pc = "propagate"
    /\ \E e \in DOMAIN hits :
          LET d == hits[e]
              n == IF Propagates(d.addr, d.value, d.at) THEN replayed + 1 ELSE replayed
          IN  /\ \A f \in DOMAIN hits : e <= f
              /\ PropagateFieldWrite(d.addr, d.value, d.at)
              /\ \/ /\ DOMAIN hits # {e}
                    /\ hits' = Drop(hits, {e}) /\ replayed' = n
                    /\ UNCHANGED <<pc, pass, scan, now, val>>
                 \/ /\ DOMAIN hits = {e} /\ AnotherPass(n)
                    /\ pc' = "replay"
                    /\ pass' = pass + 1 /\ hits' = EmptyMap /\ replayed' = 0
                    /\ UNCHANGED <<scan, now, val>>
                 \/ /\ DOMAIN hits = {e} /\ ~AnotherPass(n)
                    /\ StartScan(val, now)
    /\ UNCHANGED <<deferred, allocs, totalAllocs, epochs, shallow, warmed, clock>>

(* retrospective_scan, the next field of the first region in the queue.    *)
(* The value of a field is what the heap graph or the process has there:   *)
(* either may be older or newer than the event.  With access to the memory *)
(* of the process every pointer is trusted, else only live blocks.  A      *)
(* target that has a type keeps it; one found before has one.              *)
ScanField ==
    LET fields == FieldsOf(stm[Head(queue)].ti)
        f == fields[fld]
        live == ProcMem \/ now = Cold
    IN  /\ pc = "scan" /\ fld <= Len(fields)
        /\ fld' = fld + 1
        /\ \/ \E v \in (IF live THEN Addr ELSE DOMAIN allocs) :
                 \/ /\ ~f.ind /\ v \notin DOMAIN stm
                    /\ StampType(stm, v, TypeInfo(f.to), now)
                    /\ queue' = Append(queue, v) /\ found' = found + 1
                    /\ UNCHANGED indirect
                 \/ /\ f.ind /\ v \notin DOMAIN indirect
                    /\ indirect' = Insert(indirect, v, TypeInfo(f.to))
                    /\ UNCHANGED <<marks, queue, found>>
           \/ UNCHANGED <<marks, indirect, queue, found>>
        /\ UNCHANGED <<deferred, allocs, totalAllocs, epochs, shallow, warmed,
                       clock, pc, now, val, replay>>

(* ... and the next region, while there is fuel.  The warm scanner then    *)
(* looks at the fields itself.                                             *)
ScanDone ==
    /\ pc = "scan" /\ fld > Len(FieldsOf(stm[Head(queue)].ti))
    /\ \/ /\ Len(queue) > 1 /\ found < Fuel
          /\ queue' = Tail(queue) /\ fld' = 1
          /\ UNCHANGED <<pc, now, val, replay, found>>
       \/ /\ (Len(queue) = 1 \/ found >= Fuel) /\ now = Cold
          /\ pc' = "warm"
          /\ queue' = <<>> /\ fld' = 1 /\ found' = 0
          /\ UNCHANGED <<now, val, replay>>
       \/ /\ (Len(queue) = 1 \/ found >= Fuel) /\ now # Cold
          /\ Idle
    /\ UNCHANGED <<marks, indirect, deferred, allocs, totalAllocs, epochs,
                   shallow, warmed, clock>>

(* scan_ptr_fields of the warm scanner: a pointer to an array of pointers  *)
(* makes the array known; other pointers are visited later (WarmStamp).    *)
WarmField ==
    LET fields == Fields[warmed[val]]
    IN  /\ pc = "warm"
        /\ \/ /\ fld <= Len(fields)
              /\ \/ UNCHANGED indirect
                 \/ /\ fields[fld].ind
                    /\ \E p \in Addr :
                          indirect' = Insert(indirect, p, TypeInfo(fields[fld].to))
              /\ fld' = fld + 1
              /\ UNCHANGED <<pc, now, val, replay, queue, found>>
           \/ /\ fld > Len(fields)
              /\ Idle
              /\ UNCHANGED indirect
        /\ UNCHANGED <<marks, deferred, allocs, totalAllocs, epochs, shallow,
                       warmed, clock>>

WriteEvent(c) ==
    \/ \E a \in Addr, v \in Addr \cup {0} : WriteHeap(c, a, v)
    \/ \E g \in Globals, v \in Addr : WriteGlobal(c, g, v)

CallEvent(c) ==
    \/ \E p \in Addr, n \in Sizes : Alloc(c, p, n)
    \/ \E p \in Addr : Free(c, p)

Next ==
    \/ \E c \in JitSeqs : WriteEvent(c)
    \/ \E c \in CallSeqs : CallEvent(c)
    \/ \E c \in Counters : OtherEvent(c)
    \/ \E w \in Reachable : WarmStamp(w[1], w[2])
    \/ Upgrade \/ AllocSite \/ ReplayPass \/ ReplayWrite
    \/ ScanField \/ ScanDone \/ WarmField

Spec == Init /\ [][Next]_vars

----------------------------------------------------------------------------
TypeInfos == [name : Types, shallow : BOOLEAN]
Times == [of : Counters \cup {NoSeq}, seq : Nat]
Writes == [addr : Addr, value : Addr, at : Times]

StmOK ==
    /\ DOMAIN stm \subseteq Addr
    /\ \A a \in DOMAIN stm : stm[a] \in [ti : TypeInfos, at : Times]
    /\ DOMAIN indirect \subseteq Addr
    /\ \A a \in DOMAIN indirect : indirect[a] \in TypeInfos
    /\ DOMAIN deferred \subseteq 1 .. total
    /\ Cardinality(DOMAIN deferred) <= DeferredCap
    /\ \A e \in DOMAIN deferred : deferred[e] \in Writes
    /\ addrSchisms \in [Addr -> Nat]
    /\ schismCount \in Nat /\ poolReuse \in Nat

TablesOK ==
    /\ DOMAIN allocs \subseteq Addr
    /\ \A a \in DOMAIN allocs : allocs[a] \in [size : Sizes, seq : Nat]
    /\ totalAllocs \in Nat
    /\ epochs \subseteq [addr : Addr, type : Types, open : Times, close : Times]
    /\ shallow \subseteq Types
    /\ DOMAIN warmed \subseteq Addr
    /\ \A a \in DOMAIN warmed : warmed[a] \in Types

LoopOK ==
    /\ seq \in [Counters -> Nat] /\ total \in Nat
    /\ pc \in {"event", "upgrade", "site", "replay", "propagate", "scan", "warm"}
    /\ now \in Times /\ val \in Addr \cup {0}
    /\ pass \in 0 .. MaxPasses /\ replayed \in Nat
    /\ DOMAIN hits \subseteq 1 .. total
    /\ \A e \in DOMAIN hits : hits[e] \in Writes
    /\ queue \in Seq(Addr) /\ fld \in Nat \ {0} /\ found \in Nat

(* Every region the scan or the upgrade works on has a projection: the     *)
(* code looks each up again and would skip it.                             *)
WorkTyped ==
    /\ pc \in {"upgrade", "replay", "propagate"} => val \in DOMAIN stm
    /\ pc = "scan" => queue # <<>> /\ Range(queue) \subseteq DOMAIN stm
    /\ pc = "site" => val \in DOMAIN allocs
    /\ pc = "warm" => val \in DOMAIN warmed

(* Shapes of the maps and of the handler's locals; the buffer of deferred  *)
(* writes stays within its capacity.                                       *)
TypeOK == StmOK /\ TablesOK /\ LoopOK /\ WorkTyped

(* An epoch that ends before it begins (which query can never find) has    *)
(* its ends numbered by different counters, as every epoch that a FREE     *)
(* ends has: along one counter no path stamps with a number that lies      *)
(* ahead, replayed and cold stamps included.                               *)
InvertedOnlyAcrossCounters ==
    \A e \in epochs : e.open.seq > e.close.seq => e.open.of # e.close.of

(* "never overwrite a stamp with a higher seq" (stamp_type): as long as an *)
(* address has a projection, its sequence number does not fall, through    *)
(* replays, scans and cold stamps.                                         *)
StampsAdvance ==
    [][\A a \in DOMAIN stm \cap DOMAIN stm' : stm'[a].at.seq >= stm[a].at.seq]_vars

(* "don't create schisms from propagation" (propagate_field_write): the    *)
(* type of an address changes only by a root (global, allocation site,     *)
(* warm scanner) or as an element of an array of pointers.                 *)
PropagationKeepsTypes ==
    [][(pc \in {"upgrade", "propagate", "scan"} /\ indirect = EmptyMap) =>
          \A a \in DOMAIN stm : a \in DOMAIN stm' /\ stm'[a].ti = stm[a].ti]_vars

(* replay_deferred follows chains of pointers to their end: when it gives  *)
(* way to the scan, no deferred write is covered, unless all passes were   *)
(* used up.                                                                *)
ReplayConverges ==
    [][(pc \in {"replay", "propagate"} /\ pc' = "scan" /\ pass < MaxPasses) =>
          \A e \in DOMAIN deferred' : ~Covered(deferred[e])']_vars

(* reconciler.rs, after a propagated stamp: "ensure_type: upgrade          *)
(* shallow".  The region that is scanned next has its full type.           *)
ShallowUpgraded == [][pc = "upgrade" => ~stm'[val].ti.shallow]_vars
=============================================================================
