----------------------------- MODULE HeapGraph -----------------------------
(***************************************************************************)
(* The engine's heap graph (src/engine/src/heap_graph.rs): objects guessed *)
(* from clusters of writes, their fields and pointer edges, and an index   *)
(* from written addresses to the object that holds them.  It sees the      *)
(* WRITE events of all rings in the order in which the engine drains them. *)
(* A FREE, or an ALLOC that reuses an address with another size, removes   *)
(* the objects of a range; now and then objects that look old are evicted. *)
(*                                                                         *)
(* Addresses and sizes are small numbers.  Every address is one that       *)
(* HeapOracle takes for heap: process_event passes on no other write.      *)
(***************************************************************************)
EXTENDS Integers, Sequences, FiniteSets, Functions

CONSTANTS
    Addr,        \* heap addresses
    Sizes,       \* sizes of writes and of freed blocks
    PtrSize,     \* the size of a pointer
    Values,      \* values that are written
    Plausible,   \* the values that HeapOracle takes for pointers (not 0)
    Rings,       \* rings the events come from, each with its own counter
    Window,      \* CLUSTER_WINDOW (64)
    Radius,      \* CLUSTER_RADIUS (256)
    MinCluster,  \* MIN_CLUSTER_WRITES (3)
    MinSize,     \* the least inferred size of an object (8)
    GcPeriod,    \* gc_stale runs when total is a multiple of it (65536)
    MaxAge,      \* the age at which gc_stale evicts (500000)
    MaxEvents    \* bound: events the engine processes

ASSUME GraphAssumption ==
    /\ Addr \subseteq Nat
    /\ Sizes \subseteq Nat \ {0}
    /\ PtrSize \in Sizes
    /\ Plausible \subseteq Values
    /\ Window \in Nat \ {0}
    /\ Radius \in Nat
    /\ MinCluster \in Nat \ {0}
    /\ MinSize \in Nat \ {0}
    /\ GcPeriod \in Nat \ {0}
    /\ MaxAge \in Nat
    /\ MaxEvents \in Nat

VARIABLES
    objects,     \* base address -> object
    addrToBase,  \* written address -> base of the object that holds it
    recent,      \* the last Window writes, oldest first
    seq,         \* ring -> sequence number of its last event
    total,       \* events the engine has processed, of all rings
    \* What happened, for the properties:
    memory,      \* address -> the last value written to it
    touched,     \* base address -> total at the last write to the object
    exposed      \* addresses that a removal handed to another object

vars == <<objects, addrToBase, recent, seq, total, memory, touched, exposed>>

----------------------------------------------------------------------------
(* A map with one more entry, or another value for a key it has.           *)
Insert(f, x, v) == [y \in DOMAIN f \cup {x} |-> IF y = x THEN v ELSE f[y]]

(* find_object_base: the index first, then the nearest object that starts  *)
(* at or below the address, if it reaches that far.                        *)
Finds(a, b) ==
    IF a \in DOMAIN addrToBase
    THEN b = addrToBase[a]
    ELSE /\ b \in DOMAIN objects
         /\ b <= a /\ a < b + objects[b].size
         /\ \A c \in DOMAIN objects : c <= a => c <= b

IsPtr(w) == w.size = PtrSize /\ w.value \in Plausible

FieldOf(w) == [value |-> w.value, ptr |-> IsPtr(w)]

(* recent_writes with one more write, cut to the window.                   *)
PushRecent(w) ==
    LET r == Append(recent, w)
    IN  IF Len(r) > Window THEN Tail(r) ELSE r

(* The writes of a window within Radius of an address.                     *)
Nearby(r, a) == {i \in DOMAIN r : r[i].addr - a \in -Radius .. Radius}

(* A fault of UpdateField: the edge of a pointer is set once.              *)
UpdateFieldEdgeOnce(obj, off, w) ==
    [size |-> obj.size,
     fields |-> Insert(obj.fields, off, FieldOf(w)),
     edges |-> IF IsPtr(w) /\ off \notin DOMAIN obj.edges
               THEN Insert(obj.edges, off, w.value) ELSE obj.edges,
     last |-> w.seq]

(* A known object takes a write: the field is entered or overwritten, and  *)
(* a pointer sets the edge of the field (update_edge).  A value that is no *)
(* pointer leaves the edge of an earlier one in place.                     *)
UpdateField(obj, off, w) ==
    [size |-> obj.size,
     fields |-> Insert(obj.fields, off, FieldOf(w)),
     edges |-> IF IsPtr(w) THEN Insert(obj.edges, off, w.value) ELSE obj.edges,
     last |-> w.seq]

(* The object of a cluster.  latest gives, for every offset written, the   *)
(* last write to it; every pointer field starts with an edge.              *)
ClusterObject(r, latest, size, last) ==
    LET fields == [off \in DOMAIN latest |-> FieldOf(r[latest[off]])]
        ptrs == {off \in DOMAIN fields : fields[off].ptr}
    IN  [size |-> size, fields |-> fields,
         edges |-> [off \in ptrs |-> fields[off].value], last |-> last]

----------------------------------------------------------------------------
Init ==
    /\ objects = [b \in {} |-> 0]
    /\ addrToBase = [a \in {} |-> 0]
    /\ recent = <<>>
    /\ seq = [r \in Rings |-> 0]
    /\ total = 0
    /\ memory = [a \in {} |-> 0]
    /\ touched = [b \in {} |-> 0]
    /\ exposed = {}

(* The engine takes the next event of a ring.                              *)
NextEvent(ring) ==
    /\ total < MaxEvents
    /\ total' = total + 1
    /\ seq' = [seq EXCEPT ![ring] = @ + 1]

(* process_write inside a known object.  The index is not extended.  An    *)
(* index entry without its object would make the engine panic here.  The   *)
(* guess of a DWARF type for the object (update_confidence) is left out:   *)
(* the program has no struct candidates.                                   *)
WriteKnown(w, base) ==
    /\ Finds(w.addr, base)
    /\ objects' = Insert(objects, base,
                        UpdateField(objects[base], w.addr - base, w))
    /\ touched' = Insert(touched, base, total')
    /\ exposed' = exposed \ {w.addr}
    /\ UNCHANGED addrToBase

(* The address after a write.                                              *)
WriteEnd(x) == x.addr + x.size

(* latest names the write that decides each field of a cluster: the last   *)
(* one to the offset.  A fault of it: the first one.                       *)
Earliest(r, near, base, latest) ==
    \A i \in near : LET j == latest[r[i].addr - base]
                    IN  r[j].addr = r[i].addr /\ j <= i

Latest(r, near, base, latest) ==
    \A i \in near : LET j == latest[r[i].addr - base]
                    IN  r[j].addr = r[i].addr /\ i <= j

(* A cluster becomes an object that starts at its lowest write and reaches *)
(* to the end of its highest; all its addresses enter the index.           *)
NewObject(w, r, near, base) ==
    \E top \in {WriteEnd(r[i]) : i \in near},
       latest \in [{r[i].addr - base : i \in near} -> near] :
        /\ \A i \in near : WriteEnd(r[i]) <= top
        /\ Latest(r, near, base, latest)
        /\ LET size == IF top - base > MinSize THEN top - base ELSE MinSize
           IN  objects' =
                   Insert(objects, base, ClusterObject(r, latest, size, w.seq))
        /\ LET members == {r[i].addr : i \in near}
           IN  addrToBase' = [a \in DOMAIN addrToBase \cup members |->
                                 IF a \in members THEN base ELSE addrToBase[a]]
        /\ touched' = Insert(touched, base, total')

(* process_write outside all objects: enough writes nearby make an object, *)
(* unless one starts at the lowest of them already; else the write is kept *)
(* in the window only.                                                     *)
WriteUnknown(w) ==
    LET r == PushRecent(w)
        near == Nearby(r, w.addr)
    IN  /\ \A b \in Addr : ~ Finds(w.addr, b)
        /\ UNCHANGED exposed
        /\ \/ /\ Cardinality(near) < MinCluster
              /\ UNCHANGED <<objects, addrToBase, touched>>
           \/ /\ Cardinality(near) >= MinCluster
              /\ \E base \in {r[i].addr : i \in near} :
                    /\ \A i \in near : base <= r[i].addr
                    /\ IF base \in DOMAIN objects
                       THEN UNCHANGED <<objects, addrToBase, touched>>
                       ELSE NewObject(w, r, near, base)

(* A WRITE event to the heap.                                              *)
ProcessWrite(ring, a, s, v) ==
    LET w == [addr |-> a, size |-> s, value |-> v, seq |-> seq[ring] + 1]
    IN  /\ NextEvent(ring)
        /\ recent' = PushRecent(w)
        /\ memory' = Insert(memory, a, v)
        /\ \/ \E base \in DOMAIN objects : WriteKnown(w, base)
           \/ WriteUnknown(w)

(* The addresses of all fields of some objects; a fault of it that keeps   *)
(* the bases only.                                                         *)
BaseAddrs(bases) == bases

FieldAddrs(bases) ==
    UNION {{b + off : off \in DOMAIN objects[b].fields} : b \in bases}

(* Objects leave the graph together with the index entries of their        *)
(* fields, whichever object these point to.                                *)
RemoveObjects(bases) ==
    /\ objects' = Restrict(objects, DOMAIN objects \ bases)
    /\ addrToBase' = Restrict(addrToBase, DOMAIN addrToBase \ FieldAddrs(bases))
    /\ touched' = Restrict(touched, DOMAIN touched \ bases)
    /\ exposed' = exposed \cup
          {a \in Addr : \E b \in DOMAIN objects' : Finds(a, b)' /\ ~ Finds(a, b)}
    /\ UNCHANGED <<recent, memory>>

(* on_free of a block, called for FREE and for an ALLOC at an address that *)
(* is still tracked with another size.  The window keeps the block's       *)
(* writes.                                                                 *)
OnFree(ring, addr, size) ==
    /\ NextEvent(ring)
    /\ RemoveObjects({b \in DOMAIN objects : addr <= b /\ b < addr + size})

(* An event that does not concern the graph.                               *)
OtherEvent(ring) ==
    /\ NextEvent(ring)
    /\ UNCHANGED <<objects, addrToBase, recent, memory, touched, exposed>>

(* The objects gc_stale takes for stale: it compares the engine's count of *)
(* events with the sequence number the object's last write had in its ring.*)
(* A fault of it is off by one.                                            *)
StaleTooSoon == {b \in DOMAIN objects : objects[b].last <= total - MaxAge}

Stale == {b \in DOMAIN objects : objects[b].last < total - MaxAge}

GcStale ==
    /\ total % GcPeriod = 0
    /\ RemoveObjects(Stale)
    /\ UNCHANGED <<seq, total>>

Next ==
    \/ \E r \in Rings, a \in Addr, s \in Sizes, v \in Values : ProcessWrite(r, a, s, v)
    \/ \E r \in Rings, a \in Addr, s \in Sizes : OnFree(r, a, s)
    \/ \E r \in Rings : OtherEvent(r)
    \/ GcStale

Spec == Init /\ [][Next]_vars

----------------------------------------------------------------------------
Field == [value : Values, ptr : BOOLEAN]

(* Shapes of the graph's maps and counters.                                *)
TypeOK ==
    /\ DOMAIN objects \subseteq Addr
    /\ \A b \in DOMAIN objects :
          /\ objects[b].size \in Nat /\ objects[b].last \in Nat
          /\ DOMAIN objects[b].fields \subseteq Nat
          /\ \A off \in DOMAIN objects[b].fields : objects[b].fields[off] \in Field
          /\ DOMAIN objects[b].edges \subseteq DOMAIN objects[b].fields
    /\ DOMAIN addrToBase \subseteq Addr
    /\ recent \in Seq([addr : Addr, size : Sizes, value : Values, seq : Nat])
    /\ seq \in [Rings -> Nat]
    /\ total \in 0 .. MaxEvents
    /\ DOMAIN touched = DOMAIN objects
    /\ exposed \subseteq Addr

(* Every index entry leads to a live object (the code's debug assertion;   *)
(* process_write unwraps the object an entry names and would panic).  The  *)
(* object has a field at the address, so removing it removes the entry.    *)
IndexLive ==
    \A a \in DOMAIN addrToBase :
        LET b == addrToBase[a]
        IN  b \in DOMAIN objects /\ b <= a /\ a - b \in DOMAIN objects[b].fields

(* Fields lie inside the inferred range of their object, and its base is   *)
(* one of them: what on_free finds by the base covers all that was         *)
(* recorded for it.                                                        *)
FieldsInside ==
    \A b \in DOMAIN objects :
        /\ 0 \in DOMAIN objects[b].fields
        /\ \A off \in DOMAIN objects[b].fields : off < objects[b].size

(* The edge of a pointer field leads where the field points, through       *)
(* overwrites and re-clustering.                                           *)
EdgesFollowFields ==
    \A b \in DOMAIN objects :
        \A off \in DOMAIN objects[b].fields :
            objects[b].fields[off].ptr =>
                /\ off \in DOMAIN objects[b].edges
                /\ objects[b].edges[off] = objects[b].fields[off].value

(* The field value found for an address, which retrospective_scan follows  *)
(* as a pointer, is the last one written there.  Objects may overlap, and  *)
(* only the one that is found is updated: an old value comes back only     *)
(* where the removal of an object handed the address to another one.       *)
LookupCurrent ==
    \A b \in DOMAIN objects : \A a \in Addr \ exposed :
        Finds(a, b) /\ b <= a /\ a - b \in DOMAIN objects[b].fields =>
            objects[b].fields[a - b].value = memory[a]

(* gc_stale evicts only objects that were not written during the last      *)
(* MaxAge events, whatever clustering and removal did to them.  This is    *)
(* true of one ring: with two, the counter of the slower one is behind the *)
(* engine's total and objects that are being written go too.               *)
GcOnlyStale ==
    total % GcPeriod = 0 => \A b \in Stale : touched[b] < total - MaxAge
=============================================================================
