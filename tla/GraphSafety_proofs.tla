------------------------ MODULE GraphSafety_proofs ------------------------
(***************************************************************************)
(* The heap graph of the engine (HeapGraph), for every heap, window and    *)
(* event stream; and the offline tools: the graph rtmap-check builds from  *)
(* a topology stream (RtmapCheck), for every stream, the topologies        *)
(* rtmap-diff compares (RtmapDiff), for every pair of recordings, and the  *)
(* lines rtmap-lint judges (RtmapLint), for every struct and every writer. *)
(***************************************************************************)
EXTENDS HeapGraph, RtmapCheck, RtmapDiff, RtmapLint, Lists_proofs, FiniteSetTheorems, SequenceTheorems, TLAPS

(* The inductive invariant.  IndexLive alone is not inductive: an entry    *)
(* dies with its object only because the object has a field there, and a   *)
(* write found through the index stays inside the object only because the  *)
(* fields do.                                                              *)
GInv == TypeOK /\ IndexLive /\ FieldsInside /\ EdgesFollowFields

Write == [addr : Addr, size : Sizes, value : Values, seq : Nat]

(* An object that satisfies the parts of GInv about one object.            *)
GoodObject(o) ==
    /\ o.size \in Nat /\ o.last \in Nat
    /\ DOMAIN o.fields \subseteq Nat
    /\ 0 \in DOMAIN o.fields
    /\ DOMAIN o.edges \subseteq DOMAIN o.fields
    /\ \A off \in DOMAIN o.fields :
          /\ o.fields[off] \in Field
          /\ off < o.size
          /\ o.fields[off].ptr =>
                off \in DOMAIN o.edges /\ o.edges[off] = o.fields[off].value

(* The parts of GInv about objects say that every object is good.          *)
LEMMA ObjectsGood ==
    GInv <=> /\ DOMAIN objects \subseteq Addr
             /\ \A b \in DOMAIN objects : GoodObject(objects[b])
             /\ DOMAIN addrToBase \subseteq Addr
             /\ recent \in Seq(Write)
             /\ seq \in [Rings -> Nat]
             /\ total \in 0 .. MaxEvents
             /\ DOMAIN touched = DOMAIN objects
             /\ exposed \subseteq Addr
             /\ IndexLive
BY DEF GInv, TypeOK, FieldsInside, EdgesFollowFields, GoodObject, Write

(* The same after a step, in the direction the proofs need.                *)
LEMMA NextObjectsGood ==
    ASSUME /\ DOMAIN objects' \subseteq Addr
           /\ \A b \in DOMAIN objects' : GoodObject(objects'[b])
           /\ DOMAIN addrToBase' \subseteq Addr
           /\ recent' \in Seq(Write)
           /\ seq' \in [Rings -> Nat]
           /\ total' \in 0 .. MaxEvents
           /\ DOMAIN touched' = DOMAIN objects'
           /\ exposed' \subseteq Addr
           /\ IndexLive'
    PROVE  GInv'
BY DEF GInv, TypeOK, FieldsInside, EdgesFollowFields, GoodObject, Write

(* A write becomes a field of the right shape.                             *)
LEMMA FieldOfType ==
    ASSUME NEW w \in Write
    PROVE  FieldOf(w) \in Field /\ FieldOf(w).value = w.value
           /\ FieldOf(w).ptr = IsPtr(w)
BY DEF Write, FieldOf, Field, IsPtr

(* A good object that takes a write inside its range stays good and keeps  *)
(* its fields.                                                             *)
LEMMA UpdateGood ==
    ASSUME NEW o, GoodObject(o),
           NEW w \in Write, NEW off \in Nat, off < o.size
    PROVE  LET u == UpdateField(o, off, w)
           IN  GoodObject(u) /\ DOMAIN u.fields = DOMAIN o.fields \cup {off}
<1> DEFINE u == UpdateField(o, off, w)
<1> DEFINE F == Insert(o.fields, off, FieldOf(w))
<1>1. /\ u.size = o.size /\ u.last = w.seq /\ u.fields = F
      /\ u.edges = IF IsPtr(w) THEN Insert(o.edges, off, w.value) ELSE o.edges
  BY DEF UpdateField
<1>2. /\ DOMAIN F = DOMAIN o.fields \cup {off} /\ F[off] = FieldOf(w)
      /\ \A y \in DOMAIN o.fields : y # off => F[y] = o.fields[y]
  BY DEF Insert
<1>3. /\ DOMAIN u.edges \subseteq DOMAIN F
      /\ IsPtr(w) => off \in DOMAIN u.edges /\ u.edges[off] = w.value
      /\ \A y \in DOMAIN o.edges : y # off => y \in DOMAIN u.edges /\ u.edges[y] = o.edges[y]
  <2>1. CASE IsPtr(w)
    BY <2>1, <1>1, <1>2 DEF GoodObject, Insert
  <2>2. CASE ~ IsPtr(w)
    BY <2>2, <1>1, <1>2 DEF GoodObject
  <2> QED BY <2>1, <2>2
<1>4. w.seq \in Nat
  BY DEF Write
<1>5. \A y \in DOMAIN F :
        /\ F[y] \in Field /\ y < o.size
        /\ F[y].ptr => y \in DOMAIN u.edges /\ u.edges[y] = F[y].value
  <2> TAKE y \in DOMAIN F
  <2>1. CASE y = off
    BY <2>1, <1>2, <1>3, FieldOfType
  <2>2. CASE y # off
    BY <2>2, <1>2, <1>3 DEF GoodObject
  <2> QED BY <2>1, <2>2
<1> HIDE DEF u, F
<1>6. GoodObject(u)
  BY <1>1, <1>2, <1>3, <1>4, <1>5 DEF GoodObject
<1> QED
  BY <1>1, <1>2, <1>6 DEF u

(* The object of a cluster is good: its base is a field, every field is    *)
(* inside, every pointer has its edge.                                     *)
LEMMA ClusterGood ==
    ASSUME NEW r \in Seq(Write), NEW near \in SUBSET DOMAIN r,
           NEW obj \in Addr, \E i \in near : r[i].addr = obj,
           \A i \in near : obj <= r[i].addr,
           NEW latest \in [{r[i].addr - obj : i \in near} -> near],
           NEW size \in Nat,
           \A i \in near : r[i].addr - obj < size,
           NEW last \in Nat
    PROVE  LET o == ClusterObject(r, latest, size, last)
           IN  /\ GoodObject(o)
               /\ \A i \in near : r[i].addr - obj \in DOMAIN o.fields
<1> DEFINE D == {r[i].addr - obj : i \in near}
<1> DEFINE o == ClusterObject(r, latest, size, last)
<1>1. /\ DOMAIN latest = D
      /\ \A off \in D : latest[off] \in near
  OBVIOUS
<1>2. \A i \in near : r[i] \in Write /\ r[i].addr \in Nat /\ r[i].addr - obj \in Nat
  <2>1. \A i \in near : r[i] \in Write
    BY ElementOfSeq, DOMAIN r = 1 .. Len(r)
  <2>2. \A i \in near : r[i].addr \in Nat
    BY <2>1, GraphAssumption DEF Write
  <2>3. obj \in Nat
    BY GraphAssumption
  <2> QED BY <2>1, <2>2, <2>3
<1>3. D \subseteq Nat /\ 0 \in D /\ \A off \in D : off < size
  BY <1>2
<1>4. /\ o.size = size /\ o.last = last /\ DOMAIN o.fields = D
      /\ \A off \in D : o.fields[off] = FieldOf(r[latest[off]])
      /\ DOMAIN o.edges = {off \in D : o.fields[off].ptr}
      /\ \A off \in DOMAIN o.edges : o.edges[off] = o.fields[off].value
  BY <1>1 DEF ClusterObject
<1>5. \A off \in D : o.fields[off] \in Field
  BY <1>1, <1>2, <1>4, FieldOfType
<1> HIDE DEF o
<1>6. GoodObject(o)
  BY <1>3, <1>4, <1>5 DEF GoodObject
<1> QED
  BY <1>4, <1>6 DEF o

(* The window stays a sequence of writes.                                  *)
LEMMA RecentType ==
    ASSUME GInv, NEW w \in Write
    PROVE  PushRecent(w) \in Seq(Write)
<1> DEFINE r == Append(recent, w)
<1>1. recent \in Seq(Write)
  BY ObjectsGood
<1>2. r \in Seq(Write) /\ r # <<>>
  BY <1>1, AppendProperties
<1>3. Tail(r) \in Seq(Write)
  BY <1>2, HeadTailProperties
<1> QED
  BY <1>2, <1>3 DEF PushRecent

(* Writing into a known object.                                            *)
LEMMA WriteKnownInv ==
    ASSUME GInv, NEW w \in Write, NEW obj \in DOMAIN objects,
           WriteKnown(w, obj), total' \in Nat
    PROVE  /\ DOMAIN objects' \subseteq Addr
           /\ \A b \in DOMAIN objects' : GoodObject(objects'[b])
           /\ DOMAIN addrToBase' \subseteq Addr
           /\ DOMAIN touched' = DOMAIN objects'
           /\ exposed' \subseteq Addr
           /\ IndexLive'
<1> USE GraphAssumption
<1> DEFINE off == w.addr - obj
<1> DEFINE u == UpdateField(objects[obj], off, w)
<1>1. /\ DOMAIN objects \subseteq Addr
      /\ \A b \in DOMAIN objects : GoodObject(objects[b])
      /\ DOMAIN addrToBase \subseteq Addr
      /\ DOMAIN touched = DOMAIN objects
      /\ exposed \subseteq Addr
      /\ IndexLive
  BY ObjectsGood
<1>2. obj \in Nat /\ w.addr \in Nat
  BY <1>1 DEF Write
<1>3. off \in Nat /\ off < objects[obj].size
  <2>1. CASE w.addr \in DOMAIN addrToBase
    BY <2>1, <1>1, <1>2 DEF WriteKnown, Finds, IndexLive, GoodObject
  <2>2. CASE w.addr \notin DOMAIN addrToBase
    BY <2>2, <1>1, <1>2 DEF WriteKnown, Finds, GoodObject
  <2> QED BY <2>1, <2>2
<1>4. GoodObject(u) /\ DOMAIN u.fields = DOMAIN objects[obj].fields \cup {off}
  BY <1>1, <1>3, UpdateGood
<1> HIDE DEF u, off
<1>5. /\ DOMAIN objects' = DOMAIN objects
      /\ objects'[obj] = u
      /\ \A b \in DOMAIN objects : b # obj => objects'[b] = objects[b]
  BY DEF WriteKnown, Insert, u, off
<1>6. /\ DOMAIN touched' = DOMAIN touched
      /\ addrToBase' = addrToBase /\ exposed' \subseteq exposed
  BY <1>1 DEF WriteKnown, Insert
<1>7. \A b \in DOMAIN objects : DOMAIN objects[b].fields \subseteq DOMAIN objects'[b].fields
  BY <1>4, <1>5
<1>8. IndexLive'
  BY <1>1, <1>5, <1>6, <1>7 DEF IndexLive
<1> QED
  BY <1>1, <1>4, <1>5, <1>6, <1>8

(* A new object.                                                           *)
LEMMA NewObjectInv ==
    ASSUME GInv, NEW w \in Write, NEW r \in Seq(Write),
           NEW near \in SUBSET DOMAIN r, NEW obj,
           obj \in {r[i].addr : i \in near},
           \A i \in near : obj <= r[i].addr,
           obj \notin DOMAIN objects,
           NewObject(w, r, near, obj)
    PROVE  /\ DOMAIN objects' \subseteq Addr
           /\ \A b \in DOMAIN objects' : GoodObject(objects'[b])
           /\ DOMAIN addrToBase' \subseteq Addr
           /\ DOMAIN touched' = DOMAIN objects'
           /\ IndexLive'
<1> USE GraphAssumption
<1>1. /\ DOMAIN objects \subseteq Addr
      /\ \A b \in DOMAIN objects : GoodObject(objects[b])
      /\ DOMAIN addrToBase \subseteq Addr
      /\ DOMAIN touched = DOMAIN objects
      /\ IndexLive
  BY ObjectsGood
<1>2. \A i \in near : /\ r[i] \in Write /\ r[i].addr \in Addr
                      /\ r[i].addr \in Nat /\ r[i].size \in Nat \ {0}
  <2>1. \A i \in near : r[i] \in Write
    BY ElementOfSeq, DOMAIN r = 1 .. Len(r)
  <2> QED BY <2>1 DEF Write
<1>3. obj \in Addr /\ obj \in Nat
  BY <1>2
<1> DEFINE members == {r[i].addr : i \in near}
<1>4. PICK top \in {WriteEnd(r[i]) : i \in near},
           latest \in [{r[i].addr - obj : i \in near} -> near] :
        /\ \A i \in near : WriteEnd(r[i]) <= top
        /\ Latest(r, near, obj, latest)
        /\ LET size == IF top - obj > MinSize THEN top - obj ELSE MinSize
           IN  objects' =
                   Insert(objects, obj, ClusterObject(r, latest, size, w.seq))
        /\ addrToBase' = [a \in DOMAIN addrToBase \cup members |->
                              IF a \in members THEN obj ELSE addrToBase[a]]
        /\ touched' = Insert(touched, obj, total')
  BY DEF NewObject
<1> DEFINE size == IF top - obj > MinSize THEN top - obj ELSE MinSize
<1> DEFINE o == ClusterObject(r, latest, size, w.seq)
<1>5. top \in Nat /\ size \in Nat /\ w.seq \in Nat
  BY SMTT(30), <1>2, <1>3 DEF Write, WriteEnd
<1>6. \A i \in near : r[i].addr - obj < size
  <2>1. size >= top - obj
    BY <1>3, <1>5
  <2>2. \A i \in near : r[i].addr + r[i].size <= top
    BY <1>4 DEF WriteEnd
  <2> HIDE DEF size
  <2> TAKE i \in near
  <2>3. /\ r[i].addr \in Nat /\ r[i].size \in Nat /\ r[i].size > 0
        /\ r[i].addr + r[i].size <= top
    BY <1>2, <2>2
  <2> QED BY <1>3, <1>5, <2>1, <2>3
<1> HIDE DEF size
<1>7. /\ GoodObject(o)
      /\ \A i \in near : r[i].addr - obj \in DOMAIN o.fields
  <2>1. \E i \in near : r[i].addr = obj
    OBVIOUS
  <2> QED BY <2>1, <1>3, <1>5, <1>6, ClusterGood
<1> HIDE DEF o
<1>8. /\ DOMAIN objects' = DOMAIN objects \cup {obj}
      /\ objects'[obj] = o
      /\ \A b \in DOMAIN objects : objects'[b] = objects[b]
  BY <1>4 DEF Insert, o, size
<1>9. DOMAIN touched' = DOMAIN touched \cup {obj}
  BY <1>4 DEF Insert
<1>10. /\ DOMAIN addrToBase' = DOMAIN addrToBase \cup members
       /\ \A a \in members : addrToBase'[a] = obj
       /\ \A a \in DOMAIN addrToBase \ members : addrToBase'[a] = addrToBase[a]
  BY <1>4
<1>11. members \subseteq Addr
  BY <1>2
<1>12. \A a \in members : obj <= a /\ a - obj \in DOMAIN o.fields
  BY <1>7
<1> HIDE DEF members
<1>13. IndexLive'
  <2> SUFFICES ASSUME NEW a \in DOMAIN addrToBase'
               PROVE  LET b == addrToBase'[a]
                      IN  /\ b \in DOMAIN objects' /\ b <= a
                          /\ a - b \in DOMAIN objects'[b].fields
    BY DEF IndexLive
  <2>1. CASE a \in members
    BY <2>1, <1>8, <1>10, <1>12
  <2>2. CASE a \notin members
    BY <2>2, <1>1, <1>8, <1>10 DEF IndexLive
  <2> QED BY <2>1, <2>2
<1> QED
  BY <1>1, <1>3, <1>7, <1>8, <1>9, <1>10, <1>11, <1>13

(* Removing objects removes the index entries that led to them.            *)
LEMMA RemoveInv ==
    ASSUME GInv, NEW bases \in SUBSET DOMAIN objects, RemoveObjects(bases)
    PROVE  /\ DOMAIN objects' \subseteq Addr
           /\ \A b \in DOMAIN objects' : GoodObject(objects'[b])
           /\ DOMAIN addrToBase' \subseteq Addr
           /\ recent' \in Seq(Write)
           /\ DOMAIN touched' = DOMAIN objects'
           /\ exposed' \subseteq Addr
           /\ IndexLive'
<1> USE GraphAssumption
<1> DEFINE gone == FieldAddrs(bases)
<1>1. /\ DOMAIN objects \subseteq Addr
      /\ \A b \in DOMAIN objects : GoodObject(objects[b])
      /\ DOMAIN addrToBase \subseteq Addr
      /\ recent \in Seq(Write)
      /\ DOMAIN touched = DOMAIN objects
      /\ exposed \subseteq Addr
      /\ IndexLive
  BY ObjectsGood
<1>2. /\ DOMAIN objects' = DOMAIN objects \ bases
      /\ \A b \in DOMAIN objects' : objects'[b] = objects[b]
      /\ DOMAIN touched' = DOMAIN touched \ bases
      /\ DOMAIN addrToBase' = DOMAIN addrToBase \ gone
      /\ \A a \in DOMAIN addrToBase' : addrToBase'[a] = addrToBase[a]
      /\ recent' = recent
  BY DEF RemoveObjects, Restrict
<1>3. exposed' \subseteq Addr
  BY <1>1 DEF RemoveObjects
<1>4. ASSUME NEW a \in DOMAIN addrToBase, addrToBase[a] \in bases
      PROVE  a \in gone
  <2> DEFINE b == addrToBase[a]
  <2>1. a \in Nat /\ b \in Nat /\ a - b \in DOMAIN objects[b].fields
    BY <1>1 DEF IndexLive
  <2>2. a = b + (a - b)
    BY <2>1
  <2> QED BY <1>4, <2>1, <2>2 DEF FieldAddrs
<1> HIDE DEF gone
<1>5. IndexLive'
  BY <1>1, <1>2, <1>4 DEF IndexLive
<1> QED
  BY <1>1, <1>2, <1>3, <1>5

(* A WRITE event.                                                          *)
LEMMA ProcessWriteInv ==
    ASSUME GInv, NEW ring \in Rings, NEW a \in Addr, NEW s \in Sizes,
           NEW v \in Values, ProcessWrite(ring, a, s, v)
    PROVE  GInv'
<1> DEFINE w == [addr |-> a, size |-> s, value |-> v, seq |-> seq[ring] + 1]
<1>1. /\ seq \in [Rings -> Nat] /\ total \in 0 .. MaxEvents
      /\ DOMAIN objects \subseteq Addr
      /\ \A b \in DOMAIN objects : GoodObject(objects[b])
      /\ DOMAIN addrToBase \subseteq Addr
      /\ DOMAIN touched = DOMAIN objects
      /\ exposed \subseteq Addr
      /\ IndexLive
  BY ObjectsGood
<1>2. w \in Write
  BY <1>1 DEF Write
<1>3. /\ NextEvent(ring)
      /\ recent' = PushRecent(w)
      /\ \/ \E obj \in DOMAIN objects : WriteKnown(w, obj)
         \/ WriteUnknown(w)
  BY DEF ProcessWrite
<1> HIDE DEF w
<1>4. /\ total' \in 0 .. MaxEvents /\ total' \in Nat
      /\ seq' \in [Rings -> Nat]
  BY <1>1, <1>3, GraphAssumption DEF NextEvent
<1>5. recent' \in Seq(Write)
  BY <1>2, <1>3, RecentType
<1>6. /\ DOMAIN objects' \subseteq Addr
      /\ \A b \in DOMAIN objects' : GoodObject(objects'[b])
      /\ DOMAIN addrToBase' \subseteq Addr
      /\ DOMAIN touched' = DOMAIN objects'
      /\ exposed' \subseteq Addr
      /\ IndexLive'
  <2>1. CASE \E obj \in DOMAIN objects : WriteKnown(w, obj)
    BY <2>1, <1>2, <1>4, WriteKnownInv
  <2>2. CASE WriteUnknown(w)
    <3> DEFINE r == PushRecent(w)
    <3> DEFINE near == Nearby(r, w.addr)
    <3>1. exposed' = exposed
      BY <2>2 DEF WriteUnknown
    <3>2. CASE UNCHANGED <<objects, addrToBase, touched>>
      BY <3>1, <3>2, <1>1 DEF IndexLive
    <3>3. CASE \E obj \in {r[i].addr : i \in near} :
                  /\ \A i \in near : obj <= r[i].addr
                  /\ obj \notin DOMAIN objects
                  /\ NewObject(w, r, near, obj)
      <4>1. r \in Seq(Write) /\ near \in SUBSET DOMAIN r
        BY <1>2, RecentType DEF Nearby
      <4> HIDE DEF r, near
      <4> QED BY <3>1, <3>3, <4>1, <1>1, <1>2, NewObjectInv
    <3> QED BY <2>2, <3>2, <3>3 DEF WriteUnknown
  <2> QED BY <1>3, <2>1, <2>2
<1> QED
  BY <1>4, <1>5, <1>6, NextObjectsGood

(* A FREE event, or an ALLOC over a tracked block.                         *)
LEMMA OnFreeInv ==
    ASSUME GInv, NEW ring \in Rings, NEW addr \in Addr, NEW size \in Sizes,
           OnFree(ring, addr, size)
    PROVE  GInv'
<1>1. PICK bases \in SUBSET DOMAIN objects : RemoveObjects(bases)
  BY DEF OnFree
<1>2. seq \in [Rings -> Nat] /\ total \in 0 .. MaxEvents
  BY ObjectsGood
<1>3. seq' \in [Rings -> Nat] /\ total' \in 0 .. MaxEvents
  BY <1>2, GraphAssumption DEF OnFree, NextEvent
<1> QED
  BY <1>1, <1>3, RemoveInv, NextObjectsGood

(* An eviction.                                                            *)
LEMMA GcStaleInv ==
    ASSUME GInv, GcStale
    PROVE  GInv'
<1>1. PICK bases \in SUBSET DOMAIN objects : RemoveObjects(bases)
  BY DEF GcStale, Stale
<1>2. seq' \in [Rings -> Nat] /\ total' \in 0 .. MaxEvents
  BY ObjectsGood DEF GcStale
<1> QED
  BY <1>1, <1>2, RemoveInv, NextObjectsGood

(* An event of another kind.                                               *)
LEMMA OtherEventInv ==
    ASSUME GInv, NEW ring \in Rings, OtherEvent(ring)
    PROVE  GInv'
<1>1. seq \in [Rings -> Nat] /\ total \in 0 .. MaxEvents
  BY ObjectsGood
<1>2. seq' \in [Rings -> Nat] /\ total' \in 0 .. MaxEvents
  BY <1>1, GraphAssumption DEF OtherEvent, NextEvent
<1>3. UNCHANGED <<objects, addrToBase, recent, touched, exposed>>
  BY DEF OtherEvent
<1> QED
  BY <1>2, <1>3, ObjectsGood, NextObjectsGood DEF IndexLive

(* GInv holds in every reachable state.                                    *)
THEOREM GraphInvariant == Spec => []GInv
<1>1. Init => GInv
  BY GraphAssumption DEF Init, GInv, TypeOK, IndexLive, FieldsInside, EdgesFollowFields
<1>2. GInv /\ [Next]_vars => GInv'
  <2> SUFFICES ASSUME GInv, [Next]_vars PROVE GInv'
    OBVIOUS
  <2>1. CASE \E r \in Rings, a \in Addr, s \in Sizes, v \in Values : ProcessWrite(r, a, s, v)
    BY <2>1, ProcessWriteInv
  <2>2. CASE \E r \in Rings, a \in Addr, s \in Sizes : OnFree(r, a, s)
    BY <2>2, OnFreeInv
  <2>3. CASE \E r \in Rings : OtherEvent(r)
    BY <2>3, OtherEventInv
  <2>4. CASE GcStale
    BY <2>4, GcStaleInv
  <2>5. CASE UNCHANGED vars
    BY <2>5 DEF vars, GInv, TypeOK, IndexLive, FieldsInside, EdgesFollowFields
  <2> QED BY <2>1, <2>2, <2>3, <2>4, <2>5 DEF Next
<1> QED BY <1>1, <1>2, PTL DEF Spec

(* Type correctness of the heap graph.                                     *)
THEOREM GraphTypeCorrect == Spec => []TypeOK
BY GraphInvariant, PTL DEF GInv

(* process_write never unwraps an object that is gone: through clustering, *)
(* overlap, on_free and gc_stale every index entry leads to a live object. *)
THEOREM IndexAlwaysLive == Spec => []IndexLive
BY GraphInvariant, PTL DEF GInv

(* Every recorded field lies inside the object that on_free or gc_stale    *)
(* removes it with.                                                        *)
THEOREM FieldsStayInside == Spec => []FieldsInside
BY GraphInvariant, PTL DEF GInv

(* The edges of pointer fields follow the fields.                          *)
THEOREM EdgesFollow == Spec => []EdgesFollowFields
BY GraphInvariant, PTL DEF GInv

----------------------------------------------------------------------------
(* LookupCurrent rests on the window: the last write to an address in it   *)
(* is the last write to that address at all, so an object made from the    *)
(* window starts with current values.                                      *)
RecentCurrent ==
    \A i \in 1 .. Len(recent) :
        (\A j \in 1 .. Len(recent) : i < j => recent[j].addr # recent[i].addr) =>
            /\ recent[i].addr \in DOMAIN memory
            /\ recent[i].value = memory[recent[i].addr]

(* LookupCurrent for one object and one address.                           *)
Current(a, b) ==
    Finds(a, b) /\ b <= a /\ a - b \in DOMAIN objects[b].fields =>
        /\ a \in DOMAIN memory
        /\ objects[b].fields[a - b].value = memory[a]

LInv ==
    /\ GInv /\ RecentCurrent
    /\ \A b \in DOMAIN objects : \A a \in Addr \ exposed : Current(a, b)

(* A write keeps the window current.                                       *)
LEMMA RecentStaysCurrent ==
    ASSUME GInv, RecentCurrent, NEW w \in Write,
           recent' = PushRecent(w), memory' = Insert(memory, w.addr, w.value)
    PROVE  RecentCurrent'
<1> DEFINE n == Len(recent)
<1> DEFINE r == Append(recent, w)
<1>1. /\ recent \in Seq(Write) /\ n \in Nat
      /\ r \in Seq(Write) /\ Len(r) = n + 1 /\ r[n + 1] = w
      /\ \A i \in 1 .. n : r[i] = recent[i]
  BY ObjectsGood, AppendProperties, LenProperties
<1>2. /\ w.addr \in DOMAIN memory' /\ memory'[w.addr] = w.value
      /\ \A a \in DOMAIN memory : a \in DOMAIN memory' /\ (a # w.addr => memory'[a] = memory[a])
  BY DEF Insert
<1> HIDE DEF r, n
<1>3. \A i \in 1 .. n + 1 :
        (\A j \in 1 .. n + 1 : i < j => r[j].addr # r[i].addr) =>
            r[i].addr \in DOMAIN memory' /\ r[i].value = memory'[r[i].addr]
  <2> SUFFICES ASSUME NEW i \in 1 .. n + 1,
                      \A j \in 1 .. n + 1 : i < j => r[j].addr # r[i].addr
               PROVE  r[i].addr \in DOMAIN memory' /\ r[i].value = memory'[r[i].addr]
    OBVIOUS
  <2>1. CASE i = n + 1
    BY <2>1, <1>1, <1>2
  <2>2. CASE i # n + 1
    <3>1. i \in 1 .. n /\ n + 1 \in 1 .. n + 1 /\ i < n + 1
      BY <2>2, <1>1
    <3>2. r[i] = recent[i] /\ recent[i].addr # w.addr
      BY <3>1, <1>1
    <3>3. \A j \in 1 .. n : i < j => recent[j].addr # recent[i].addr
      BY <3>1, <1>1
    <3>4. recent[i].addr \in DOMAIN memory /\ recent[i].value = memory[recent[i].addr]
      BY <3>1, <3>3 DEF RecentCurrent, n
    <3> QED BY <3>2, <3>4, <1>2
  <2> QED BY <2>1, <2>2
<1>4. CASE Len(r) <= Window
  <2>1. recent' = r
    BY <1>1, <1>4, GraphAssumption DEF PushRecent, r
  <2> QED BY <2>1, <1>1, <1>3 DEF RecentCurrent
<1>5. CASE ~ (Len(r) <= Window)
  <2>1. recent' = Tail(r)
    BY <1>1, <1>5, GraphAssumption DEF PushRecent, r
  <2>2. Len(recent') = n /\ \A i \in 1 .. n : recent'[i] = r[i + 1]
    <3>1. r # <<>>
      BY <1>1
    <3> QED BY <2>1, <3>1, <1>1, HeadTailProperties
  <2> SUFFICES ASSUME NEW i \in 1 .. n,
                      \A j \in 1 .. n : i < j => recent'[j].addr # recent'[i].addr
               PROVE  /\ recent'[i].addr \in DOMAIN memory'
                      /\ recent'[i].value = memory'[recent'[i].addr]
    BY <2>2 DEF RecentCurrent
  <2>3. ASSUME NEW j \in 1 .. n + 1, i + 1 < j
        PROVE  r[j].addr # r[i + 1].addr
    <3>1. j - 1 \in 1 .. n /\ i < j - 1 /\ (j - 1) + 1 = j
      BY <2>3, <1>1
    <3> QED BY <3>1, <2>2
  <2>4. i + 1 \in 1 .. n + 1
    BY <1>1
  <2> QED BY <2>2, <2>3, <2>4, <1>3
<1> QED BY <1>4, <1>5

(* A write to a known object updates the one object that is found.         *)
LEMMA WriteKnownCurrent ==
    ASSUME LInv, NEW w \in Write, NEW obj \in DOMAIN objects,
           WriteKnown(w, obj), memory' = Insert(memory, w.addr, w.value),
           NEW b \in DOMAIN objects', NEW a \in Addr \ exposed'
    PROVE  Current(a, b)'
<1> USE GraphAssumption
<1> DEFINE off == w.addr - obj
<1> DEFINE u == UpdateField(objects[obj], off, w)
<1>1. GInv /\ DOMAIN objects \subseteq Addr /\ w.addr \in Nat /\ obj \in Nat
      /\ a \in Nat /\ b \in Nat
  <2>1. GInv BY DEF LInv
  <2>2. DOMAIN objects \subseteq Addr BY <2>1, ObjectsGood
  <2>3. DOMAIN objects' = DOMAIN objects BY DEF WriteKnown, Insert
  <2> QED BY <2>1, <2>2, <2>3 DEF Write
<1>2. /\ DOMAIN objects' = DOMAIN objects /\ objects'[obj] = u
      /\ \A c \in DOMAIN objects : c # obj => objects'[c] = objects[c]
      /\ addrToBase' = addrToBase
      /\ exposed' = exposed \ {w.addr}
  BY DEF WriteKnown, Insert
<1>3. /\ u.size = objects[obj].size
      /\ DOMAIN u.fields = DOMAIN objects[obj].fields \cup {off}
      /\ u.fields[off].value = w.value
      /\ \A y \in DOMAIN objects[obj].fields : y # off => u.fields[y] = objects[obj].fields[y]
  BY DEF UpdateField, Insert, FieldOf
<1>4. \A c \in DOMAIN objects : objects'[c].size = objects[c].size
  BY <1>2, <1>3
<1>5. Finds(a, b)' <=> Finds(a, b)
  BY <1>2, <1>4 DEF Finds
<1>6. /\ w.addr \in DOMAIN memory' /\ memory'[w.addr] = w.value
      /\ \A x \in DOMAIN memory : x \in DOMAIN memory' /\ (x # w.addr => memory'[x] = memory[x])
  BY DEF Insert
<1> HIDE DEF u
<1> SUFFICES ASSUME Finds(a, b), b <= a, a - b \in DOMAIN objects'[b].fields
             PROVE  a \in DOMAIN memory' /\ objects'[b].fields[a - b].value = memory'[a]
  BY <1>5 DEF Current
<1>7. CASE a = w.addr
  <2>1. b = obj
    BY <1>7, <1>1, <1>2 DEF WriteKnown, Finds
  <2> QED BY <2>1, <1>7, <1>2, <1>3, <1>6
<1>8. CASE a # w.addr
  <2>1. a \notin exposed
    BY <1>8, <1>2
  <2>2. b = obj => a - b # off
    BY <1>8, <1>1
  <2>3. a - b \in DOMAIN objects[b].fields /\ objects'[b].fields[a - b] = objects[b].fields[a - b]
    BY <2>2, <1>2, <1>3
  <2>4. a \in DOMAIN memory /\ objects[b].fields[a - b].value = memory[a]
    BY <2>1, <2>3, <1>2 DEF LInv, Current
  <2> QED BY <2>3, <2>4, <1>6, <1>8
<1> QED BY <1>7, <1>8

(* A removal changes no value, and exposes the addresses it hands over.    *)
LEMMA RemoveCurrent ==
    ASSUME LInv, NEW bases \in SUBSET DOMAIN objects, RemoveObjects(bases),
           NEW b \in DOMAIN objects', NEW a \in Addr \ exposed'
    PROVE  Current(a, b)'
<1>1. /\ DOMAIN objects' = DOMAIN objects \ bases
      /\ \A c \in DOMAIN objects' : objects'[c] = objects[c]
      /\ memory' = memory
      /\ exposed' = exposed \cup
           {x \in Addr : \E c \in DOMAIN objects' : Finds(x, c)' /\ ~ Finds(x, c)}
  BY DEF RemoveObjects, Restrict
<1>2. a \notin exposed /\ (Finds(a, b)' => Finds(a, b))
  BY <1>1
<1>3. Current(a, b)
  BY <1>1, <1>2 DEF LInv
<1> QED BY <1>1, <1>2, <1>3 DEF Current

(* A new object takes over the addresses of its cluster with their current *)
(* values; what it covers beyond them it has no field for.                 *)
LEMMA NewObjectCurrent ==
    ASSUME LInv, NEW w \in Write, NEW obj,
           recent' = PushRecent(w), memory' = Insert(memory, w.addr, w.value),
           RecentCurrent', UNCHANGED exposed,
           obj \in {recent'[i].addr : i \in Nearby(recent', w.addr)},
           \A i \in Nearby(recent', w.addr) : obj <= recent'[i].addr,
           obj \notin DOMAIN objects,
           NewObject(w, recent', Nearby(recent', w.addr), obj),
           NEW b \in DOMAIN objects', NEW a \in Addr \ exposed'
    PROVE  Current(a, b)'
<1> USE GraphAssumption
<1> DEFINE r == recent'
<1> DEFINE near == Nearby(r, w.addr)
<1> DEFINE members == {r[i].addr : i \in near}
<1>1. GInv /\ r \in Seq(Write) /\ DOMAIN r = 1 .. Len(r) /\ Len(r) \in Nat
  <2>1. GInv BY DEF LInv
  <2> QED BY <2>1, RecentType
<1>2. /\ near \subseteq DOMAIN r
      /\ \A i \in near : \A j \in DOMAIN r : r[j].addr = r[i].addr => j \in near
  BY DEF Nearby
<1>3. w.addr \in members
  <2>1. recent \in Seq(Write)
    BY <1>1, ObjectsGood
  <2> DEFINE q == Append(recent, w)
  <2>2. q \in Seq(Write) /\ Len(q) = Len(recent) + 1 /\ q[Len(q)] = w /\ Len(recent) \in Nat
    BY <2>1, AppendProperties, LenProperties
  <2>3. Len(r) \in DOMAIN r /\ r[Len(r)] = w
    <3> HIDE DEF q
    <3>1. CASE Len(q) <= Window
      BY <3>1, <2>2, <1>1 DEF PushRecent, q
    <3>2. CASE ~ (Len(q) <= Window)
      <4>1. q # <<>> /\ r = Tail(q) /\ Len(q) > 1
        BY <3>2, <2>2, <1>1 DEF PushRecent, q
      <4>2. Len(r) = Len(q) - 1 /\ \A i \in 1 .. Len(q) - 1 : r[i] = q[i + 1]
        BY <4>1, <2>2, HeadTailProperties
      <4>3. Len(q) - 1 \in 1 .. Len(q) - 1 /\ (Len(q) - 1) + 1 = Len(q)
        BY <4>1, <2>2
      <4> QED BY <4>2, <4>3, <2>2, <1>1
    <3> QED BY <3>1, <3>2
  <2>4. w.addr - w.addr \in -Radius .. Radius
    <3>1. w.addr \in Nat
      BY DEF Write
    <3>2. w.addr - w.addr = 0 /\ 0 \in -Radius .. Radius
      BY <3>1
    <3> QED BY <3>2
  <2> QED BY <2>3, <2>4 DEF Nearby
<1> HIDE DEF r, near
<1>4. \A i \in near : r[i] \in Write /\ r[i].addr \in Addr /\ r[i].addr \in Nat
  <2>1. \A i \in near : r[i] \in Write
    BY <1>1, <1>2, ElementOfSeq
  <2> QED BY <2>1 DEF Write
<1>5. obj \in Addr /\ obj \in Nat /\ a \in Nat
  BY <1>4 DEF r, near
<1>6. PICK top \in {WriteEnd(r[i]) : i \in near},
           latest \in [{r[i].addr - obj : i \in near} -> near] :
        /\ \A i \in near : WriteEnd(r[i]) <= top
        /\ Latest(r, near, obj, latest)
        /\ LET size == IF top - obj > MinSize THEN top - obj ELSE MinSize
           IN  objects' =
                   Insert(objects, obj, ClusterObject(r, latest, size, w.seq))
        /\ addrToBase' = [x \in DOMAIN addrToBase \cup members |->
                              IF x \in members THEN obj ELSE addrToBase[x]]
        /\ touched' = Insert(touched, obj, total')
  BY DEF NewObject, r, near
<1> DEFINE size == IF top - obj > MinSize THEN top - obj ELSE MinSize
<1> DEFINE o == ClusterObject(r, latest, size, w.seq)
<1>7. /\ DOMAIN o.fields = {r[i].addr - obj : i \in near}
      /\ \A off \in DOMAIN o.fields : o.fields[off].value = r[latest[off]].value
  BY <1>6 DEF ClusterObject, FieldOf
<1>8. /\ DOMAIN objects' = DOMAIN objects \cup {obj} /\ objects'[obj] = o
      /\ \A c \in DOMAIN objects : objects'[c] = objects[c]
      /\ DOMAIN addrToBase' = DOMAIN addrToBase \cup members
      /\ \A x \in members : addrToBase'[x] = obj
      /\ \A x \in DOMAIN addrToBase \ members : addrToBase'[x] = addrToBase[x]
  BY <1>6 DEF Insert
<1>9. /\ \A x \in DOMAIN memory : x \in DOMAIN memory' /\ (x # w.addr => memory'[x] = memory[x])
  BY DEF Insert
<1>10. ASSUME NEW i \in near, r[i].addr = a
       PROVE  /\ a \in DOMAIN memory'
              /\ a - obj \in DOMAIN o.fields
              /\ o.fields[a - obj].value = memory'[a]
  <2> DEFINE last == latest[a - obj]
  <2>1. /\ a - obj \in DOMAIN o.fields /\ last \in near /\ r[last].addr = a
        /\ o.fields[a - obj].value = r[last].value
    BY <1>6, <1>7, <1>10 DEF Latest
  <2>2. ASSUME NEW j \in DOMAIN r, last < j
        PROVE  r[j].addr # r[last].addr
    <3> SUFFICES ASSUME r[j].addr = a PROVE FALSE
      BY <2>1
    <3>1. j \in near
      BY <1>2, <1>10
    <3>2. j <= last
      BY <3>1, <1>6 DEF Latest
    <3>3. j \in Nat /\ last \in Nat
      BY <1>1, <1>2, <2>1
    <3> QED BY <3>2, <3>3, <2>2
  <2>3. last \in 1 .. Len(r)
    BY <1>1, <1>2, <2>1
  <2>4. r[last].addr \in DOMAIN memory' /\ r[last].value = memory'[r[last].addr]
    BY <2>2, <2>3, <1>1 DEF RecentCurrent, r
  <2> QED BY <2>1, <2>4
<1> HIDE DEF o, size
<1> SUFFICES ASSUME Finds(a, b)', b <= a, a - b \in DOMAIN objects'[b].fields
             PROVE  a \in DOMAIN memory' /\ objects'[b].fields[a - b].value = memory'[a]
  BY DEF Current
<1>11. CASE a \in members
  <2>1. b = obj
    BY <1>8, <1>11 DEF Finds
  <2> QED BY <2>1, <1>8, <1>10, <1>11
<1>12. CASE a \notin members
  <2>1. b # obj
    <3> SUFFICES ASSUME b = obj PROVE FALSE
      OBVIOUS
    <3>1. PICK i \in near : a - obj = r[i].addr - obj
      BY <1>7, <1>8
    <3>2. a = r[i].addr
      BY <3>1, <1>4, <1>5
    <3> QED BY <3>2, <1>12
  <2>2. b \in DOMAIN objects /\ objects'[b] = objects[b]
    BY <2>1, <1>8
  <2>3. Finds(a, b)
    <3>1. CASE a \in DOMAIN addrToBase
      BY <3>1, <1>8, <1>12 DEF Finds
    <3>2. CASE a \notin DOMAIN addrToBase
      BY <3>2, <2>2, <1>8, <1>12 DEF Finds
    <3> QED BY <3>1, <3>2
  <2>4. a \in DOMAIN memory /\ objects[b].fields[a - b].value = memory[a]
    BY <2>2, <2>3 DEF LInv, Current
  <2>5. a # w.addr
    BY <1>3, <1>12
  <2> QED BY <2>2, <2>4, <2>5, <1>9
<1> QED BY <1>11, <1>12

(* A WRITE event keeps what lookups return current.                        *)
LEMMA ProcessWriteCurrent ==
    ASSUME LInv, NEW ring \in Rings, NEW a \in Addr, NEW s \in Sizes,
           NEW v \in Values, ProcessWrite(ring, a, s, v)
    PROVE  LInv'
<1> DEFINE w == [addr |-> a, size |-> s, value |-> v, seq |-> seq[ring] + 1]
<1>1. GInv /\ RecentCurrent /\ seq \in [Rings -> Nat]
  BY ObjectsGood DEF LInv
<1>2. w \in Write
  BY <1>1 DEF Write
<1>3. /\ recent' = PushRecent(w)
      /\ memory' = Insert(memory, w.addr, w.value)
      /\ \/ \E obj \in DOMAIN objects : WriteKnown(w, obj)
         \/ WriteUnknown(w)
  BY DEF ProcessWrite
<1> HIDE DEF w
<1>4. GInv'
  BY <1>1, ProcessWriteInv
<1>5. RecentCurrent'
  BY <1>1, <1>2, <1>3, RecentStaysCurrent
<1>6. ASSUME NEW b \in DOMAIN objects', NEW x \in Addr \ exposed'
      PROVE  Current(x, b)'
  <2>1. CASE \E obj \in DOMAIN objects : WriteKnown(w, obj)
    BY <2>1, <1>2, <1>3, <1>6, WriteKnownCurrent
  <2>2. CASE WriteUnknown(w)
    <3> DEFINE near == Nearby(recent', w.addr)
    <3>1. exposed' = exposed /\ \A c \in Addr : ~ Finds(w.addr, c)
      BY <2>2 DEF WriteUnknown
    <3>2. CASE UNCHANGED <<objects, addrToBase, touched>>
      <4>1. b \in DOMAIN objects /\ b \in Addr
        BY <3>2, <1>1, ObjectsGood
      <4>2. Current(x, b) /\ (Finds(x, b) => x # w.addr)
        BY <3>1, <4>1 DEF LInv
      <4>3. Finds(x, b)' <=> Finds(x, b)
        BY <3>2 DEF Finds
      <4> QED BY <3>2, <4>2, <4>3, <1>3 DEF Current, Insert
    <3>3. CASE \E obj \in {recent'[i].addr : i \in near} :
                  /\ \A i \in near : obj <= recent'[i].addr
                  /\ obj \notin DOMAIN objects
                  /\ NewObject(w, recent', near, obj)
      BY <3>1, <3>3, <1>2, <1>3, <1>5, <1>6, NewObjectCurrent
    <3> QED BY <2>2, <3>2, <3>3, <1>3 DEF WriteUnknown
  <2> QED BY <1>3, <2>1, <2>2
<1> QED BY <1>4, <1>5, <1>6 DEF LInv

(* The value a lookup returns for an address is the last one written       *)
(* there, as long as no removal has handed the address to another object.  *)
THEOREM LookupsCurrent == Spec => []LookupCurrent
<1>1. Init => LInv
  <2>1. Init => GInv
    BY GraphAssumption DEF Init, GInv, TypeOK, IndexLive, FieldsInside, EdgesFollowFields
  <2> QED BY <2>1 DEF Init, LInv, RecentCurrent
<1>2. LInv /\ [Next]_vars => LInv'
  <2> SUFFICES ASSUME LInv, [Next]_vars PROVE LInv'
    OBVIOUS
  <2>1. CASE \E r \in Rings, a \in Addr, s \in Sizes, v \in Values : ProcessWrite(r, a, s, v)
    BY <2>1, ProcessWriteCurrent
  <2>2. ASSUME NEW bases \in SUBSET DOMAIN objects, RemoveObjects(bases), GInv'
        PROVE  LInv'
    <3>1. RecentCurrent'
      BY <2>2 DEF LInv, RemoveObjects, RecentCurrent
    <3> QED BY <2>2, <3>1, RemoveCurrent DEF LInv
  <2>3. CASE \E r \in Rings, a \in Addr, s \in Sizes : OnFree(r, a, s)
    <3>1. PICK bases \in SUBSET DOMAIN objects : RemoveObjects(bases)
      BY <2>3 DEF OnFree
    <3> QED BY <2>2, <2>3, <3>1, OnFreeInv DEF LInv
  <2>4. CASE GcStale
    <3>1. PICK bases \in SUBSET DOMAIN objects : RemoveObjects(bases)
      BY <2>4 DEF GcStale, Stale
    <3> QED BY <2>2, <2>4, <3>1, GcStaleInv DEF LInv
  <2>5. CASE \E r \in Rings : OtherEvent(r)
    <3>1. GInv'
      BY <2>5, OtherEventInv DEF LInv
    <3>2. UNCHANGED <<objects, addrToBase, recent, memory, touched, exposed>>
      BY <2>5 DEF OtherEvent
    <3> QED BY <3>1, <3>2 DEF LInv, RecentCurrent, Current, Finds
  <2>6. CASE UNCHANGED vars
    <3>1. GInv'
      BY <2>6 DEF vars, LInv, GInv, TypeOK, IndexLive, FieldsInside, EdgesFollowFields
    <3>2. UNCHANGED <<objects, addrToBase, recent, memory, exposed>>
      BY <2>6 DEF vars
    <3> QED BY <3>1, <3>2 DEF LInv, RecentCurrent, Current, Finds
  <2> QED BY <2>1, <2>3, <2>4, <2>5, <2>6 DEF Next
<1>3. LInv => LookupCurrent
  BY DEF LInv, Current, LookupCurrent
<1> QED BY <1>1, <1>2, <1>3, PTL DEF Spec

----------------------------------------------------------------------------
(* gc_stale compares the engine's count of events with a number that a     *)
(* ring gave.  With one ring the two run together, and an object's number  *)
(* is the count at its last write.                                         *)
OneClock(r) ==
    /\ total = seq[r]
    /\ \A b \in DOMAIN objects : b \in DOMAIN touched /\ touched[b] = objects[b].last

(* Objects only leave.                                                     *)
LEMMA RemoveClock ==
    ASSUME NEW r, NEW bases, OneClock(r), RemoveObjects(bases)
    PROVE  \A b \in DOMAIN objects' : b \in DOMAIN touched' /\ touched'[b] = objects'[b].last
BY DEF OneClock, RemoveObjects, Restrict

(* An object takes the number and the count of the same event.             *)
LEMMA WriteClock ==
    ASSUME NEW r, Rings = {r}, GInv, OneClock(r),
           NEW a \in Addr, NEW s \in Sizes, NEW v \in Values, ProcessWrite(r, a, s, v)
    PROVE  \A b \in DOMAIN objects' : b \in DOMAIN touched' /\ touched'[b] = objects'[b].last
<1> DEFINE w == [addr |-> a, size |-> s, value |-> v, seq |-> seq[r] + 1]
<1>1. w.seq = total' /\ w.addr = a
  BY DEF ProcessWrite, NextEvent, OneClock
<1>2. \/ \E obj \in DOMAIN objects : WriteKnown(w, obj)
      \/ WriteUnknown(w)
  BY DEF ProcessWrite
<1> HIDE DEF w
<1>3. ASSUME NEW obj, NEW o, o.last = total', objects' = Insert(objects, obj, o),
             touched' = Insert(touched, obj, total')
      PROVE  \A b \in DOMAIN objects' : b \in DOMAIN touched' /\ touched'[b] = objects'[b].last
  BY <1>3 DEF Insert, OneClock
<1>4. ASSUME NEW obj \in DOMAIN objects, WriteKnown(w, obj)
      PROVE  \A b \in DOMAIN objects' : b \in DOMAIN touched' /\ touched'[b] = objects'[b].last
  <2>1. UpdateField(objects[obj], w.addr - obj, w).last = total'
    BY <1>1 DEF UpdateField
  <2> QED
    BY <1>3, <1>4, <2>1 DEF WriteKnown
<1>5. CASE WriteUnknown(w)
  <2>1. CASE UNCHANGED <<objects, touched>>
    BY <2>1 DEF OneClock
  <2>2. ASSUME NEW q, NEW near, NEW obj, NewObject(w, q, near, obj)
        PROVE  \A b \in DOMAIN objects' : b \in DOMAIN touched' /\ touched'[b] = objects'[b].last
    <3>1. PICK latest, size :
             /\ objects' = Insert(objects, obj, ClusterObject(q, latest, size, w.seq))
             /\ touched' = Insert(touched, obj, total')
      BY <2>2 DEF NewObject
    <3>2. ClusterObject(q, latest, size, w.seq).last = total'
      BY <1>1 DEF ClusterObject
    <3> QED
      BY <1>3, <3>1, <3>2
  <2> QED
    BY <1>5, <2>1, <2>2 DEF WriteUnknown
<1> QED
  BY <1>2, <1>4, <1>5

(* gc_stale evicts only objects that were not written during the last      *)
(* MaxAge events, if all events come from one ring.                        *)
THEOREM GcEvictsOnlyStale ==
    ASSUME NEW r, Rings = {r}
    PROVE  Spec => []GcOnlyStale
<1>1. Init => OneClock(r)
  BY DEF Init, OneClock
<1>2. ASSUME GInv, OneClock(r), [Next]_vars
      PROVE  OneClock(r)'
  <2>1. seq \in [Rings -> Nat] /\ total \in Nat /\ total = seq[r]
    BY <1>2, ObjectsGood, GraphAssumption DEF OneClock
  <2>2. (NextEvent(r) => total' = seq'[r]) /\ (UNCHANGED <<seq, total>> => total' = seq'[r])
    BY <2>1 DEF NextEvent
  <2>3. ASSUME NEW a \in Addr, NEW s \in Sizes, NEW v \in Values, ProcessWrite(r, a, s, v)
        PROVE  OneClock(r)'
    <3>1. NextEvent(r)
      BY <2>3 DEF ProcessWrite
    <3>2. \A b \in DOMAIN objects' : b \in DOMAIN touched' /\ touched'[b] = objects'[b].last
      BY <1>2, <2>3, WriteClock
    <3> QED
      BY <2>2, <3>1, <3>2 DEF OneClock
  <2>4. ASSUME NEW a, NEW s, OnFree(r, a, s) PROVE OneClock(r)'
    <3>1. \A b \in DOMAIN objects' : b \in DOMAIN touched' /\ touched'[b] = objects'[b].last
      BY <1>2, <2>4, RemoveClock DEF OnFree
    <3> QED
      BY <2>2, <2>4, <3>1 DEF OneClock, OnFree
  <2>5. CASE OtherEvent(r)
    BY <1>2, <2>2, <2>5 DEF OneClock, OtherEvent
  <2>6. CASE GcStale
    <3>1. \A b \in DOMAIN objects' : b \in DOMAIN touched' /\ touched'[b] = objects'[b].last
      BY <1>2, <2>6, RemoveClock DEF GcStale
    <3> QED
      BY <2>2, <2>6, <3>1 DEF OneClock, GcStale
  <2>7. CASE UNCHANGED vars
    BY <1>2, <2>7 DEF OneClock, vars
  <2> QED
    BY <1>2, <2>3, <2>4, <2>5, <2>6, <2>7 DEF Next
<1>3. OneClock(r) => GcOnlyStale
  BY DEF OneClock, GcOnlyStale, Stale
<1> QED
  BY <1>1, <1>2, <1>3, GraphInvariant, PTL DEF Spec

-----------------------------------------------------------------------------
(* The stream, and what the graph built from it holds.                     *)

TextLine ==
    [ty : {"ALLOC", "FREE", "STAMP", "LINK"}, seq : Nat, tid : Tids, addr : Nat,
     src : {"", "alloc", "global", "field"}, to : Objs \cup {0}]

(* A line is about an object, a LINK about the field of one and another.   *)
GoodLine(l) ==
    /\ l \in TextLine
    /\ l.ty # "LINK" => l.addr \in Objs
    /\ l.ty = "LINK" => l.to \in Objs /\ l.src = "" /\ \E a \in Objs : l.addr = a + FieldOff
    /\ l.ty \in {"ALLOC", "FREE"} => l.src = ""
GoodLines(ls) == ls \in Seq(TextLine) /\ \A i \in 1 .. Len(ls) : GoodLine(ls[i])

Is(ls, i, ty, a) == ls[i].ty = ty /\ ls[i].addr = a

(* What the hypotheses of the verdicts say of the first n lines.           *)
NoResize(ls, n) ==
    \A a \in Objs : \A i, j \in 1 .. n :
        Is(ls, i, "ALLOC", a) /\ Is(ls, j, "ALLOC", a) /\ i < j =>
            \E k \in 1 .. n : Is(ls, k, "FREE", a) /\ i < k /\ k < j
StampsFirst(ls, n) ==
    \A a \in Objs : \A j \in 1 .. n :
        Is(ls, j, "LINK", a + FieldOff) => \E i \in 1 .. n : Is(ls, i, "STAMP", a) /\ i < j

(* A list of len records is made of the lines of a type, in their order:   *)
(* h gives the line of each.                                               *)
Kept(h, len, ls, n, ty) ==
    /\ len \in Nat /\ h \in [1 .. len -> 1 .. n]
    /\ \A k, m \in 1 .. len : k < m => h[k] < h[m]
    /\ \A k \in 1 .. len : ls[h[k]].ty = ty
    /\ \A i \in 1 .. n : ls[i].ty = ty => \E k \in 1 .. len : h[k] = i

(* The same after a line of the type.                                      *)
KeptMore(hh, h, len, ls, n, ty) ==
    /\ Kept(hh, len + 1, ls, n + 1, ty)
    /\ hh[len + 1] = n + 1 /\ \A k \in 1 .. len : hh[k] = h[k]

Record == [seq : Nat, addr : Nat, freed : BOOLEAN, freeSeq : Nat]
AllocFits(ls, n, i, x) ==
    /\ x.seq = ls[i].seq /\ x.addr = ls[i].addr
    /\ x.freed => \E j \in 1 .. n : i < j /\ Is(ls, j, "FREE", x.addr) /\ x.freeSeq = ls[j].seq
    /\ NoResize(ls, n) /\ ~x.freed => \A j \in 1 .. n : i < j => ~Is(ls, j, "FREE", x.addr)
AllocsFit(ls, n, xs) ==
    /\ xs \in Seq(Record)
    /\ \E h : Kept(h, Len(xs), ls, n, "ALLOC") /\ \A k \in 1 .. Len(xs) : AllocFits(ls, n, h[k], xs[k])
LinesFit(ls, n, xs, ty) ==
    /\ xs \in Seq(TextLine)
    /\ \E h : Kept(h, Len(xs), ls, n, ty) /\ \A k \in 1 .. Len(xs) : xs[k] = ls[h[k]]
(* The edges of objects are those of their last LINKs.                     *)
LastLink(ls, n, j, a) ==
    Is(ls, j, "LINK", a + FieldOff) /\ \A k \in 1 .. n : j < k => ~Is(ls, k, "LINK", a + FieldOff)
EdgesFit(ls, n, edges) ==
    StampsFirst(ls, n) =>
        /\ DOMAIN edges \subseteq Objs
        /\ \A a \in Objs : \A j \in 1 .. n : Is(ls, j, "LINK", a + FieldOff) => a \in DOMAIN edges
        /\ \A a \in DOMAIN edges : \E j \in 1 .. n : LastLink(ls, n, j, a) /\ ls[j].to = edges[a]

GraphFits(ls, n, g) ==
    /\ g \in [allocs : Seq(Record), stamps : Seq(TextLine), links : Seq(TextLine), edges : {g.edges}]
    /\ AllocsFit(ls, n, g.allocs)
    /\ LinesFit(ls, n, g.stamps, "STAMP")
    /\ LinesFit(ls, n, g.links, "LINK")
    /\ EdgesFit(ls, n, g.edges)

-----------------------------------------------------------------------------
(* A line of another type adds nothing to a list.                          *)
LEMMA KeptSkip ==
    ASSUME NEW ls, NEW n \in Nat, NEW h, NEW len, NEW ty, Kept(h, len, ls, n, ty), ls[n + 1].ty # ty
    PROVE  Kept(h, len, ls, n + 1, ty)
<1>1. h \in [1 .. len -> 1 .. n + 1]
  BY DEF Kept
<1>2. \A i \in 1 .. n + 1 : i \in 1 .. n \/ i = n + 1
  OBVIOUS
<1> QED
  BY <1>1, <1>2 DEF Kept

(* A line of the type adds one record.                                     *)
LEMMA KeptOne ==
    ASSUME NEW ls, NEW n \in Nat, NEW h, NEW len, NEW ty, Kept(h, len, ls, n, ty), ls[n + 1].ty = ty
    PROVE  \E hh : KeptMore(hh, h, len, ls, n, ty)
<1> DEFINE hh == [k \in 1 .. len + 1 |-> IF k = len + 1 THEN n + 1 ELSE h[k]]
<1>1. len \in Nat /\ h \in [1 .. len -> 1 .. n]
  BY DEF Kept
<1>2. hh[len + 1] = n + 1 /\ \A k \in 1 .. len : hh[k] = h[k]
  BY <1>1
<1>3. hh \in [1 .. len + 1 -> 1 .. n + 1]
  BY <1>1
<1> HIDE DEF hh
<1>4. \A k \in 1 .. len + 1 : k \in 1 .. len \/ k = len + 1
  BY <1>1
<1>5. \A k, m \in 1 .. len + 1 : k < m => hh[k] < hh[m]
  <2> SUFFICES ASSUME NEW k \in 1 .. len + 1, NEW m \in 1 .. len + 1, k < m PROVE hh[k] < hh[m]
    OBVIOUS
  <2>1. k \in 1 .. len /\ h[k] \in 1 .. n /\ hh[k] = h[k]
    BY <1>1, <1>2
  <2>2. CASE m = len + 1
    BY <1>2, <2>1, <2>2
  <2>3. CASE m \in 1 .. len
    <3>1. h[k] < h[m]
      BY <2>1, <2>3 DEF Kept
    <3> QED
      BY <1>2, <2>1, <2>3, <3>1
  <2> QED
    BY <1>4, <2>2, <2>3
<1>6. \A k \in 1 .. len + 1 : ls[hh[k]].ty = ty
  BY <1>2, <1>4 DEF Kept
<1>7. \A i \in 1 .. n + 1 : ls[i].ty = ty => \E k \in 1 .. len + 1 : hh[k] = i
  <2> SUFFICES ASSUME NEW i \in 1 .. n + 1, ls[i].ty = ty PROVE \E k \in 1 .. len + 1 : hh[k] = i
    OBVIOUS
  <2>1. CASE i = n + 1
    BY <1>1, <1>2, <2>1
  <2>2. CASE i \in 1 .. n
    <3>1. PICK k \in 1 .. len : h[k] = i
      BY <2>2 DEF Kept
    <3> QED
      BY <1>1, <1>2, <3>1
  <2> QED
    BY <2>1, <2>2
<1>8. Kept(hh, len + 1, ls, n + 1, ty)
  <2>1. len + 1 \in Nat
    BY <1>1
  <2> QED
    BY <1>3, <1>5, <1>6, <1>7, <2>1, Zenon DEF Kept
<1> QED
  BY <1>2, <1>8 DEF KeptMore

(* A list of lines, with one more line.                                    *)
LEMMA LinesFitSkip ==
    ASSUME NEW ls, NEW n \in Nat, NEW xs, NEW ty, LinesFit(ls, n, xs, ty), ls[n + 1].ty # ty
    PROVE  LinesFit(ls, n + 1, xs, ty)
<1>1. PICK h : Kept(h, Len(xs), ls, n, ty) /\ \A k \in 1 .. Len(xs) : xs[k] = ls[h[k]]
  BY DEF LinesFit
<1>2. Kept(h, Len(xs), ls, n + 1, ty)
  BY <1>1, KeptSkip
<1> QED
  BY <1>1, <1>2 DEF LinesFit

LEMMA LinesFitOne ==
    ASSUME NEW ls, NEW n \in Nat, NEW xs, NEW ty, LinesFit(ls, n, xs, ty), ls[n + 1].ty = ty,
           ls[n + 1] \in TextLine
    PROVE  LinesFit(ls, n + 1, Append(xs, ls[n + 1]), ty)
<1>1. PICK h : Kept(h, Len(xs), ls, n, ty) /\ \A k \in 1 .. Len(xs) : xs[k] = ls[h[k]]
  BY DEF LinesFit
<1> DEFINE ys == Append(xs, ls[n + 1])
           len == Len(xs)
<1>2. /\ xs \in Seq(TextLine) /\ len \in Nat /\ ys \in Seq(TextLine) /\ Len(ys) = len + 1
      /\ ys[len + 1] = ls[n + 1] /\ \A k \in 1 .. len : ys[k] = xs[k]
  BY DEF LinesFit
<1>3. PICK hh : KeptMore(hh, h, len, ls, n, ty)
  BY <1>1, KeptOne
<1>9. /\ Kept(hh, len + 1, ls, n + 1, ty)
      /\ hh[len + 1] = n + 1 /\ \A k \in 1 .. len : hh[k] = h[k]
  BY <1>3 DEF KeptMore
<1> HIDE DEF ys
<1>4. \A k \in 1 .. len + 1 : ys[k] = ls[hh[k]]
  <2> TAKE k \in 1 .. len + 1
  <2>1. k = len + 1 \/ k \in 1 .. len
    BY <1>2
  <2> QED
    BY <1>1, <1>2, <1>9, <2>1
<1> HIDE DEF len
<1>5. LinesFit(ls, n + 1, ys, ty)
  BY <1>2, <1>9, <1>4 DEF LinesFit
<1> QED
  BY <1>5 DEF ys

(* A set of numbers with a bound has a greatest element.                   *)
LEMMA MaxIn ==
    ASSUME NEW n \in Nat, NEW S \in SUBSET (0 .. n), S # {}
    PROVE  Max(S) \in S /\ \A y \in S : y <= Max(S)
<1> DEFINE T == {n - x : x \in S}
<1>1. T \subseteq Nat /\ T # {}
  <2>1. \A x \in S : x \in Nat /\ n - x \in Nat
    OBVIOUS
  <2> QED
    BY <2>1
<1>2. PICK m \in T : \A k \in T : m <= k
  <2> HIDE DEF T
  <2> QED
    BY <1>1, LeastElement
<1>3. n - m \in S /\ \A y \in S : n - m >= y
  BY <1>2
<1> QED
  BY <1>3 DEF Max

(* A set of numbers has a least element.                                   *)
LEMMA MinIn ==
    ASSUME NEW S \in SUBSET Nat, S # {}
    PROVE  Min(S) \in S /\ \A y \in S : Min(S) <= y
<1>1. PICK m \in S : \A y \in S : m <= y
  BY LeastElement
<1> QED
  BY <1>1 DEF Min

(* If a block is not resized in n + 1 lines, it is not in n.               *)
LEMMA NoResizeBefore ==
    ASSUME NEW ls, NEW n \in Nat, NoResize(ls, n + 1)
    PROVE  NoResize(ls, n)
<1> SUFFICES ASSUME NEW a \in Objs, NEW i \in 1 .. n, NEW j \in 1 .. n,
                    Is(ls, i, "ALLOC", a), Is(ls, j, "ALLOC", a), i < j
             PROVE  \E k \in 1 .. n : Is(ls, k, "FREE", a) /\ i < k /\ k < j
  BY DEF NoResize
<1>1. i \in 1 .. n + 1 /\ j \in 1 .. n + 1
  OBVIOUS
<1>2. PICK k \in 1 .. n + 1 : Is(ls, k, "FREE", a) /\ i < k /\ k < j
  BY <1>1 DEF NoResize
<1>3. k \in 1 .. n
  BY <1>2
<1> QED
  BY <1>2, <1>3

(* A line that does not free the block of a record leaves the record true. *)
LEMMA AllocFitsLater ==
    ASSUME NEW ls, NEW n \in Nat, NEW i, NEW x, AllocFits(ls, n, i, x),
           x.freed \/ ~Is(ls, n + 1, "FREE", x.addr)
    PROVE  AllocFits(ls, n + 1, i, x)
<1>1. \A j : j \in 1 .. n + 1 <=> j \in 1 .. n \/ j = n + 1
  OBVIOUS
<1>2. NoResize(ls, n + 1) => NoResize(ls, n)
  BY NoResizeBefore
<1> QED
  BY <1>1, <1>2 DEF AllocFits

(* A STAMP or a LINK.                                                      *)
LEMMA AllocsFitSkip ==
    ASSUME NEW ls, NEW n \in Nat, NEW xs, AllocsFit(ls, n, xs), ls[n + 1].ty \notin {"ALLOC", "FREE"}
    PROVE  AllocsFit(ls, n + 1, xs)
<1>1. PICK h : Kept(h, Len(xs), ls, n, "ALLOC") /\ \A k \in 1 .. Len(xs) : AllocFits(ls, n, h[k], xs[k])
  BY DEF AllocsFit
<1>2. Kept(h, Len(xs), ls, n + 1, "ALLOC")
  BY <1>1, KeptSkip
<1>3. \A k \in 1 .. Len(xs) : AllocFits(ls, n + 1, h[k], xs[k])
  <2> TAKE k \in 1 .. Len(xs)
  <2>1. ~Is(ls, n + 1, "FREE", xs[k].addr)
    BY DEF Is
  <2> QED
    BY <1>1, <2>1, AllocFitsLater
<1> QED
  BY <1>2, <1>3 DEF AllocsFit

(* An ALLOC.                                                               *)
LEMMA AllocsFitAlloc ==
    ASSUME NEW ls, NEW n \in Nat, NEW xs, AllocsFit(ls, n, xs), ls[n + 1].ty = "ALLOC",
           ls[n + 1] \in TextLine,
           NEW x, x = [seq |-> ls[n + 1].seq, addr |-> ls[n + 1].addr, freed |-> FALSE, freeSeq |-> 0]
    PROVE  AllocsFit(ls, n + 1, Append(xs, x))
<1>1. PICK h : Kept(h, Len(xs), ls, n, "ALLOC") /\ \A k \in 1 .. Len(xs) : AllocFits(ls, n, h[k], xs[k])
  BY DEF AllocsFit
<1> DEFINE ys == Append(xs, x)
           len == Len(xs)
<1>2. /\ xs \in Seq(Record) /\ len \in Nat /\ x \in Record /\ ys \in Seq(Record) /\ Len(ys) = len + 1
      /\ ys[len + 1] = x /\ \A k \in 1 .. len : ys[k] = xs[k]
  <2>1. xs \in Seq(Record)
    BY DEF AllocsFit
  <2>2. x \in Record
    BY DEF Record, TextLine
  <2> QED
    BY <2>1, <2>2
<1>3. PICK hh : KeptMore(hh, h, len, ls, n, "ALLOC")
  BY <1>1, KeptOne
<1>9. /\ Kept(hh, len + 1, ls, n + 1, "ALLOC")
      /\ hh[len + 1] = n + 1 /\ \A k \in 1 .. len : hh[k] = h[k]
  BY <1>3 DEF KeptMore
<1> HIDE DEF ys
<1>4. AllocFits(ls, n + 1, n + 1, x)
  BY DEF AllocFits
<1>5. \A k \in 1 .. len : AllocFits(ls, n + 1, hh[k], ys[k])
  <2> TAKE k \in 1 .. len
  <2>1. ~Is(ls, n + 1, "FREE", xs[k].addr)
    BY DEF Is
  <2> QED
    BY <1>1, <1>2, <1>9, <2>1, AllocFitsLater
<1>6. \A k \in 1 .. len + 1 : AllocFits(ls, n + 1, hh[k], ys[k])
  <2> TAKE k \in 1 .. len + 1
  <2>1. k = len + 1 \/ k \in 1 .. len
    BY <1>2
  <2> QED
    BY <1>2, <1>9, <1>4, <1>5, <2>1
<1> HIDE DEF len
<1>7. AllocsFit(ls, n + 1, ys)
  BY <1>2, <1>9, <1>6 DEF AllocsFit
<1> QED
  BY <1>7 DEF ys

(* One element replaced.                                                   *)
LEMMA ReplaceOne ==
    ASSUME NEW S, NEW xs \in Seq(S), NEW m \in 1 .. Len(xs), NEW y \in S,
           NEW ys, ys = [xs EXCEPT ![m] = y]
    PROVE  /\ ys \in Seq(S) /\ Len(ys) = Len(xs) /\ ys[m] = y
           /\ \A k \in 1 .. Len(xs) : k # m => ys[k] = xs[k]
<1>1. Len(xs) \in Nat /\ xs \in [1 .. Len(xs) -> S]
  OBVIOUS
<1>2. ys \in [1 .. Len(xs) -> S]
  BY <1>1
<1> QED
  BY <1>1, <1>2

(* A FREE closes the only open record of its address, if there is one and  *)
(* no block was resized.                                                   *)
LEMMA AllocsFitFree ==
    ASSUME NEW ls, NEW n \in Nat, NEW xs, AllocsFit(ls, n, xs), ls[n + 1].ty = "FREE",
           ls[n + 1] \in TextLine, ls[n + 1].addr \in Objs,
           NEW open, open = {i \in DOMAIN xs : xs[i].addr = ls[n + 1].addr /\ ~xs[i].freed},
           NEW ys, ys = IF open = {} THEN xs
                        ELSE [xs EXCEPT ![Max(open)] = [@ EXCEPT !.freed = TRUE, !.freeSeq = ls[n + 1].seq]]
    PROVE  AllocsFit(ls, n + 1, ys)
<1>1. PICK h : Kept(h, Len(xs), ls, n, "ALLOC") /\ \A k \in 1 .. Len(xs) : AllocFits(ls, n, h[k], xs[k])
  BY DEF AllocsFit
<1>2. xs \in Seq(Record) /\ Len(xs) \in Nat /\ DOMAIN xs = 1 .. Len(xs)
  BY DEF AllocsFit
<1>3. Kept(h, Len(xs), ls, n + 1, "ALLOC")
  BY <1>1, KeptSkip
<1>4. ASSUME NEW k \in 1 .. Len(xs), k \notin open
      PROVE  AllocFits(ls, n + 1, h[k], xs[k])
  <2>1. xs[k].freed \/ ~Is(ls, n + 1, "FREE", xs[k].addr)
    BY <1>2, <1>4 DEF Is
  <2> QED
    BY <1>1, <2>1, AllocFitsLater
<1>5. CASE open = {}
  BY <1>2, <1>3, <1>4, <1>5 DEF AllocsFit
<1>6. CASE open # {}
  <2> DEFINE m == Max(open)
             y == [xs[m] EXCEPT !.freed = TRUE, !.freeSeq = ls[n + 1].seq]
  <2>1. m \in open
    <3>1. open \in SUBSET (0 .. Len(xs))
      BY <1>2
    <3> QED
      BY <1>2, <1>6, <3>1, MaxIn
  <2> HIDE DEF m
  <2>2. m \in 1 .. Len(xs) /\ xs[m].addr = ls[n + 1].addr /\ ~xs[m].freed /\ xs[m] \in Record
    BY <1>2, <2>1
  <2>3. /\ y \in Record /\ y.seq = xs[m].seq /\ y.addr = xs[m].addr /\ y.freed
        /\ y.freeSeq = ls[n + 1].seq
    BY <2>2 DEF Record, TextLine
  <2>4. ys = [xs EXCEPT ![m] = y]
    BY <1>6 DEF m
  <2> HIDE DEF y
  <2>5. /\ ys \in Seq(Record) /\ Len(ys) = Len(xs) /\ ys[m] = y
        /\ \A k \in 1 .. Len(xs) : k # m => ys[k] = xs[k]
    <3> HIDE DEF m
    <3>1. m \in 1 .. Len(xs) /\ y \in Record
      BY <2>2, <2>3
    <3>2. \A zs : zs = [xs EXCEPT ![m] = y] =>
             /\ zs \in Seq(Record) /\ Len(zs) = Len(xs) /\ zs[m] = y
             /\ \A k \in 1 .. Len(xs) : k # m => zs[k] = xs[k]
      BY <1>2, <3>1, ReplaceOne
    <3> QED
      BY <2>4, <3>2, Zenon
  <2>6. AllocFits(ls, n + 1, h[m], y)
    <3>1. AllocFits(ls, n, h[m], xs[m]) /\ h[m] \in 1 .. n
      BY <1>1, <2>2 DEF Kept
    <3>2. n + 1 \in 1 .. n + 1 /\ h[m] < n + 1 /\ Is(ls, n + 1, "FREE", y.addr)
      BY <2>2, <2>3, <3>1 DEF Is
    <3>3. xs[m].seq = ls[h[m]].seq /\ xs[m].addr = ls[h[m]].addr
      BY <3>1 DEF AllocFits
    <3> QED
      BY <2>3, <3>2, <3>3 DEF AllocFits
  <2>7. ASSUME NEW k \in 1 .. Len(xs), k # m, k \in open
        PROVE  AllocFits(ls, n + 1, h[k], xs[k])
    <3> DEFINE a == ls[n + 1].addr
    <3>1. /\ xs[k].addr = a /\ ~xs[k].freed /\ h[k] \in 1 .. n /\ h[m] \in 1 .. n
          /\ AllocFits(ls, n, h[k], xs[k]) /\ AllocFits(ls, n, h[m], xs[m])
      BY <1>1, <2>2, <2>7 DEF Kept
    <3>2. Is(ls, h[k], "ALLOC", a) /\ Is(ls, h[m], "ALLOC", a)
      BY <1>1, <2>2, <3>1 DEF AllocFits, Kept, Is
    <3>3. h[k] < h[m] \/ h[m] < h[k]
      BY <1>1, <1>2, <2>2, <2>7 DEF Kept
    <3>4. ~NoResize(ls, n)
      <4>1. SUFFICES ASSUME NoResize(ls, n) PROVE FALSE
        OBVIOUS
      <4>2. \A j \in 1 .. n : (h[k] < j => ~Is(ls, j, "FREE", a)) /\ (h[m] < j => ~Is(ls, j, "FREE", a))
        BY <2>2, <3>1, <4>1 DEF AllocFits
      <4> QED
        BY <3>1, <3>2, <3>3, <4>1, <4>2 DEF NoResize
    <3>5. ~NoResize(ls, n + 1)
      BY <3>4, NoResizeBefore
    <3> QED
      BY <3>1, <3>5 DEF AllocFits
  <2>8. \A k \in 1 .. Len(ys) : AllocFits(ls, n + 1, h[k], ys[k])
    BY <1>4, <2>5, <2>6, <2>7
  <2> QED
    BY <1>3, <2>5, <2>8 DEF AllocsFit
<1> QED
  BY <1>5, <1>6

(* Stamps that come first in n + 1 lines come first in n.                  *)
LEMMA StampsFirstBefore ==
    ASSUME NEW ls, NEW n \in Nat, StampsFirst(ls, n + 1)
    PROVE  StampsFirst(ls, n)
<1> SUFFICES ASSUME NEW a \in Objs, NEW j \in 1 .. n, Is(ls, j, "LINK", a + FieldOff)
             PROVE  \E i \in 1 .. n : Is(ls, i, "STAMP", a) /\ i < j
  BY DEF StampsFirst
<1>1. j \in 1 .. n + 1
  OBVIOUS
<1>2. PICK i \in 1 .. n + 1 : Is(ls, i, "STAMP", a) /\ i < j
  BY <1>1 DEF StampsFirst
<1>3. i \in 1 .. n
  BY <1>2
<1> QED
  BY <1>2, <1>3

(* A field is resolved to the object it lies in, if that has a stamp.      *)
LEMMA ResolvesToObject ==
    ASSUME NEW stamps \in Seq(TextLine), \A k \in 1 .. Len(stamps) : stamps[k].addr \in Objs,
           NEW a \in Objs, \E k \in 1 .. Len(stamps) : stamps[k].addr = a
    PROVE  ResolveBase(stamps, a + FieldOff) = a
<1> DEFINE f == a + FieldOff
           cov == {i \in DOMAIN stamps : stamps[i].addr <= f /\ f < stamps[i].addr + ObjSize}
<1>1. Len(stamps) \in Nat /\ DOMAIN stamps = 1 .. Len(stamps)
  OBVIOUS
<1>2. /\ Objs \subseteq Nat /\ ObjSize \in Nat /\ FieldOff \in Nat /\ FieldOff < ObjSize
      /\ \A x, y \in Objs : x < y => x + ObjSize <= y
  BY CheckAssumption
<1>3. \A b \in Objs : b <= f /\ f < b + ObjSize => b = a
  BY <1>2
<1>4. a <= f /\ f < a + ObjSize
  BY <1>2
<1> HIDE DEF f
<1>5. cov # {} /\ cov \in SUBSET (0 .. Len(stamps))
  BY <1>1, <1>4
<1>6. Max(cov) \in cov
  <2> HIDE DEF cov
  <2> QED
    BY <1>1, <1>5, MaxIn
<1>7. stamps[Max(cov)].addr = a
  <2> DEFINE m == Max(cov)
  <2>1. m \in cov
    BY <1>6
  <2> HIDE DEF m
  <2>2. m \in 1 .. Len(stamps) /\ stamps[m].addr <= f /\ f < stamps[m].addr + ObjSize
    BY <1>1, <2>1
  <2>3. stamps[m].addr = a
    BY <1>3, <2>2
  <2> QED
    BY <2>3 DEF m
<1>8. ResolveBase(stamps, f) = IF cov = {} THEN f ELSE stamps[Max(cov)].addr
  BY DEF ResolveBase
<1> HIDE DEF cov
<1>9. ResolveBase(stamps, f) = a
  BY <1>5, <1>7, <1>8
<1> QED
  BY <1>9 DEF f

(* A line that is no LINK leaves the edges true.                           *)
LEMMA EdgesFitSkip ==
    ASSUME NEW ls, NEW n \in Nat, NEW edges, EdgesFit(ls, n, edges), ls[n + 1].ty # "LINK"
    PROVE  EdgesFit(ls, n + 1, edges)
<1> SUFFICES ASSUME StampsFirst(ls, n + 1) PROVE EdgesFit(ls, n + 1, edges)
  BY DEF EdgesFit
<1>1. StampsFirst(ls, n)
  BY StampsFirstBefore
<1>2. \A j : j \in 1 .. n + 1 <=> j \in 1 .. n \/ j = n + 1
  OBVIOUS
<1>3. \A a : ~Is(ls, n + 1, "LINK", a)
  BY DEF Is
<1> QED
  BY <1>1, <1>2, <1>3 DEF EdgesFit, LastLink

(* A LINK becomes the edge of its object.                                  *)
LEMMA EdgesFitLink ==
    ASSUME NEW ls, NEW n \in Nat, NEW edges, NEW stamps, EdgesFit(ls, n, edges),
           LinesFit(ls, n, stamps, "STAMP"), \A i \in 1 .. n + 1 : GoodLine(ls[i]),
           ls[n + 1].ty = "LINK"
    PROVE  EdgesFit(ls, n + 1, With(edges, ResolveBase(stamps, ls[n + 1].addr), ls[n + 1].to))
<1> DEFINE l == ls[n + 1]
           e == With(edges, ResolveBase(stamps, l.addr), l.to)
<1> SUFFICES ASSUME StampsFirst(ls, n + 1) PROVE EdgesFit(ls, n + 1, e)
  BY DEF EdgesFit
<1>1. StampsFirst(ls, n)
  BY StampsFirstBefore
<1>2. n + 1 \in 1 .. n + 1 /\ \A j : j \in 1 .. n + 1 <=> j \in 1 .. n \/ j = n + 1
  OBVIOUS
<1>3. PICK a \in Objs : l.addr = a + FieldOff
  BY <1>2 DEF GoodLine
<1>4. Is(ls, n + 1, "LINK", a + FieldOff)
  BY <1>3 DEF Is
<1>5. PICK i \in 1 .. n : Is(ls, i, "STAMP", a)
  <2>1. PICK i \in 1 .. n + 1 : Is(ls, i, "STAMP", a) /\ i < n + 1
    BY <1>2, <1>4 DEF StampsFirst
  <2>2. i \in 1 .. n
    BY <2>1
  <2> QED
    BY <2>1, <2>2
<1>6. ResolveBase(stamps, l.addr) = a
  <2>1. stamps \in Seq(TextLine)
    BY DEF LinesFit
  <2>2. PICK h : Kept(h, Len(stamps), ls, n, "STAMP") /\ \A k \in 1 .. Len(stamps) : stamps[k] = ls[h[k]]
    BY DEF LinesFit
  <2>3. \A k \in 1 .. Len(stamps) : stamps[k].addr \in Objs
    <3> TAKE k \in 1 .. Len(stamps)
    <3>1. h[k] \in 1 .. n /\ ls[h[k]].ty = "STAMP" /\ stamps[k] = ls[h[k]]
      BY <2>2 DEF Kept
    <3> QED
      BY <1>2, <3>1 DEF GoodLine
  <2>4. \E k \in 1 .. Len(stamps) : stamps[k].addr = a
    <3>1. ls[i].ty = "STAMP" /\ ls[i].addr = a
      BY <1>5 DEF Is
    <3>2. \A j \in 1 .. n : ls[j].ty = "STAMP" => \E k \in 1 .. Len(stamps) : h[k] = j
      BY <2>2 DEF Kept
    <3>3. PICK k \in 1 .. Len(stamps) : h[k] = i
      BY <3>1, <3>2
    <3>4. stamps[k] = ls[i]
      BY <2>2, <3>3
    <3> QED
      BY <3>1, <3>4
  <2> QED
    BY <1>3, <2>1, <2>3, <2>4, ResolvesToObject
<1>7. DOMAIN e = DOMAIN edges \cup {a} /\ e[a] = l.to /\ \A x \in DOMAIN edges : x # a => e[x] = edges[x]
  BY <1>6 DEF With
<1> HIDE DEF e, l
<1>8. \A x \in Objs : Is(ls, n + 1, "LINK", x + FieldOff) => x = a
  <2>1. \A x \in Objs : x + FieldOff = a + FieldOff => x = a
    BY CheckAssumption
  <2>2. \A x \in Objs : Is(ls, n + 1, "LINK", x + FieldOff) => x + FieldOff = a + FieldOff
    BY <1>3 DEF Is, l
  <2> QED
    BY <2>1, <2>2
<1>9. /\ DOMAIN edges \subseteq Objs
      /\ \A x \in Objs : \A j \in 1 .. n : Is(ls, j, "LINK", x + FieldOff) => x \in DOMAIN edges
      /\ \A x \in DOMAIN edges : \E j \in 1 .. n : LastLink(ls, n, j, x) /\ ls[j].to = edges[x]
  BY <1>1 DEF EdgesFit
<1>10. \A x \in Objs : \A j \in 1 .. n + 1 : Is(ls, j, "LINK", x + FieldOff) => x \in DOMAIN e
  BY <1>2, <1>7, <1>8, <1>9
<1>11. ASSUME NEW x \in DOMAIN e
       PROVE  \E j \in 1 .. n + 1 : LastLink(ls, n + 1, j, x) /\ ls[j].to = e[x]
  <2>1. CASE x = a
    <3>1. \A k \in 1 .. n + 1 : ~(n + 1 < k)
      OBVIOUS
    <3>2. LastLink(ls, n + 1, n + 1, a)
      BY <1>4, <3>1 DEF LastLink
    <3> QED
      BY <1>2, <1>7, <2>1, <3>2 DEF l
  <2>2. CASE x # a
    <3>1. x \in DOMAIN edges /\ x \in Objs /\ e[x] = edges[x]
      BY <1>7, <1>9, <2>2
    <3>2. PICK j \in 1 .. n : LastLink(ls, n, j, x) /\ ls[j].to = edges[x]
      BY <1>9, <3>1
    <3>3. ~Is(ls, n + 1, "LINK", x + FieldOff)
      BY <1>8, <2>2, <3>1
    <3>4. LastLink(ls, n + 1, j, x)
      BY <1>2, <3>2, <3>3 DEF LastLink
    <3> QED
      BY <1>2, <3>1, <3>2, <3>4
  <2> QED
    BY <2>1, <2>2
<1>12. DOMAIN e \subseteq Objs
  BY <1>7, <1>9
<1> QED
  BY <1>10, <1>11, <1>12 DEF EdgesFit

-----------------------------------------------------------------------------
(* The graph after every line.                                             *)

LEMMA GraphFitsNothing == ASSUME NEW ls PROVE GraphFits(ls, 0, NoGraph)
<1>1. /\ NoGraph \in [allocs : Seq(Record), stamps : Seq(TextLine), links : Seq(TextLine),
                     edges : {NoGraph.edges}]
      /\ NoGraph.allocs = <<>> /\ NoGraph.stamps = <<>> /\ NoGraph.links = <<>>
      /\ NoGraph.edges = << >>
  BY DEF NoGraph
<1>2. \A ty : Kept(<<>>, 0, ls, 0, ty)
  BY DEF Kept
<1>3. AllocsFit(ls, 0, <<>>)
  BY <1>2 DEF AllocsFit
<1>4. \A ty : LinesFit(ls, 0, <<>>, ty)
  BY <1>2 DEF LinesFit
<1>5. EdgesFit(ls, 0, << >>)
  BY DEF EdgesFit
<1> QED
  BY <1>1, <1>3, <1>4, <1>5 DEF GraphFits

LEMMA GraphFitsOne ==
    ASSUME NEW ls, NEW n \in Nat, NEW g, GraphFits(ls, n, g), \A i \in 1 .. n + 1 : GoodLine(ls[i])
    PROVE  GraphFits(ls, n + 1, Absorb(g, ls[n + 1]))
<1> DEFINE l == ls[n + 1]
           G(xs, st, li, ed) == [allocs |-> xs, stamps |-> st, links |-> li, edges |-> ed]
<1>1. g = G(g.allocs, g.stamps, g.links, g.edges)
  BY DEF GraphFits
<1>2. l \in TextLine /\ GoodLine(l)
  <2>1. n + 1 \in 1 .. n + 1
    OBVIOUS
  <2> QED
    BY <2>1 DEF GoodLine
<1>3. ASSUME NEW xs, NEW st, NEW li, NEW ed,
             AllocsFit(ls, n + 1, xs), LinesFit(ls, n + 1, st, "STAMP"),
             LinesFit(ls, n + 1, li, "LINK"), EdgesFit(ls, n + 1, ed)
      PROVE  GraphFits(ls, n + 1, G(xs, st, li, ed))
  BY <1>3 DEF GraphFits, AllocsFit, LinesFit
<1>4. /\ AllocsFit(ls, n, g.allocs) /\ LinesFit(ls, n, g.stamps, "STAMP")
      /\ LinesFit(ls, n, g.links, "LINK") /\ EdgesFit(ls, n, g.edges)
  BY DEF GraphFits
<1>5. CASE l.ty = "ALLOC"
  <2> DEFINE x == [seq |-> l.seq, addr |-> l.addr, freed |-> FALSE, freeSeq |-> 0]
  <2>1. Absorb(g, l) = G(Append(g.allocs, x), g.stamps, g.links, g.edges)
    BY <1>1, <1>5 DEF Absorb
  <2>2. AllocsFit(ls, n + 1, Append(g.allocs, x))
    BY <1>2, <1>4, <1>5, AllocsFitAlloc
  <2>3. LinesFit(ls, n + 1, g.stamps, "STAMP") /\ LinesFit(ls, n + 1, g.links, "LINK")
    BY <1>4, <1>5, LinesFitSkip
  <2>4. EdgesFit(ls, n + 1, g.edges)
    BY <1>4, <1>5, EdgesFitSkip
  <2> QED
    BY <1>3, <2>1, <2>2, <2>3, <2>4
<1>6. CASE l.ty = "FREE"
  <2> DEFINE open == {i \in DOMAIN g.allocs : g.allocs[i].addr = l.addr /\ ~g.allocs[i].freed}
             ys == IF open = {} THEN g.allocs
                   ELSE [g.allocs EXCEPT ![Max(open)] = [@ EXCEPT !.freed = TRUE, !.freeSeq = l.seq]]
  <2>1. Absorb(g, l) = G(ys, g.stamps, g.links, g.edges)
    <3>1. Absorb(g, l) = IF open = {} THEN g
             ELSE [g EXCEPT !.allocs[Max(open)] = [@ EXCEPT !.freed = TRUE, !.freeSeq = l.seq]]
      BY <1>6 DEF Absorb
    <3> HIDE DEF open
    <3> QED
      BY <1>1, <3>1
  <2>2. AllocsFit(ls, n + 1, ys)
    BY <1>2, <1>4, <1>6, AllocsFitFree DEF GoodLine
  <2>3. LinesFit(ls, n + 1, g.stamps, "STAMP") /\ LinesFit(ls, n + 1, g.links, "LINK")
    BY <1>4, <1>6, LinesFitSkip
  <2>4. EdgesFit(ls, n + 1, g.edges)
    BY <1>4, <1>6, EdgesFitSkip
  <2> QED
    BY <1>3, <2>1, <2>2, <2>3, <2>4
<1>7. CASE l.ty = "STAMP"
  <2>1. Absorb(g, l) = G(g.allocs, Append(g.stamps, l), g.links, g.edges)
    BY <1>1, <1>7 DEF Absorb
  <2>2. AllocsFit(ls, n + 1, g.allocs)
    BY <1>4, <1>7, AllocsFitSkip
  <2>3. LinesFit(ls, n + 1, Append(g.stamps, l), "STAMP") /\ LinesFit(ls, n + 1, g.links, "LINK")
    BY <1>2, <1>4, <1>7, LinesFitOne, LinesFitSkip
  <2>4. EdgesFit(ls, n + 1, g.edges)
    BY <1>4, <1>7, EdgesFitSkip
  <2> QED
    BY <1>3, <2>1, <2>2, <2>3, <2>4
<1>8. CASE l.ty = "LINK"
  <2> DEFINE ed == With(g.edges, ResolveBase(g.stamps, l.addr), l.to)
  <2>1. Absorb(g, l) = G(g.allocs, g.stamps, Append(g.links, l), ed)
    BY <1>1, <1>8 DEF Absorb
  <2>2. AllocsFit(ls, n + 1, g.allocs)
    BY <1>4, <1>8, AllocsFitSkip
  <2>3. LinesFit(ls, n + 1, g.stamps, "STAMP") /\ LinesFit(ls, n + 1, Append(g.links, l), "LINK")
    BY <1>2, <1>4, <1>8, LinesFitOne, LinesFitSkip
  <2>4. EdgesFit(ls, n + 1, ed)
    BY <1>4, <1>8, EdgesFitLink
  <2> QED
    BY <1>3, <2>1, <2>2, <2>3, <2>4
<1> QED
  BY <1>2, <1>5, <1>6, <1>7, <1>8 DEF TextLine

(* Build is the graph after the last line.                                 *)
LEMMA BuildCourse ==
    ASSUME lines \in Seq(TextLine)
    PROVE  \E f : /\ f[0] = NoGraph /\ f[Len(lines)] = Build
                  /\ \A i \in 1 .. Len(lines) : f[i] = Absorb(f[i - 1], lines[i])
<1> DEFINE N == Len(lines)
           Step(f, i) == IF i = 0 THEN NoGraph ELSE Absorb(f[i - 1], lines[i])
           IsCourse(f, n) == f = [i \in 0 .. n |-> Step(f, i)]
           T == {n \in Nat : \E f : IsCourse(f, n)}
<1>1. N \in Nat
  OBVIOUS
<1>2. 0 \in T
  <2> DEFINE f == [i \in 0 .. 0 |-> NoGraph]
  <2>1. IsCourse(f, 0)
    OBVIOUS
  <2> QED
    BY <2>1
<1>3. ASSUME NEW n \in Nat, n \in T PROVE n + 1 \in T
  <2>1. PICK f : IsCourse(f, n)
    BY <1>3
  <2> DEFINE h == [i \in 0 .. n + 1 |-> IF i = n + 1 THEN Absorb(f[n], lines[n + 1]) ELSE f[i]]
  <2>2. \A i \in 0 .. n : h[i] = f[i] /\ f[i] = Step(f, i)
    BY <2>1
  <2>3. h[n + 1] = Absorb(f[n], lines[n + 1])
    OBVIOUS
  <2>4. DOMAIN h = 0 .. n + 1 /\ h = [i \in 0 .. n + 1 |-> h[i]]
    OBVIOUS
  <2> HIDE DEF h
  <2>5. \A i \in 0 .. n + 1 : h[i] = Step(h, i)
    <3> TAKE i \in 0 .. n + 1
    <3>1. CASE i = n + 1
      <4>1. (n + 1) - 1 = n /\ n \in 0 .. n /\ n + 1 # 0
        OBVIOUS
      <4> QED
        BY <2>2, <2>3, <3>1, <4>1
    <3>2. CASE i # n + 1
      <4>1. i \in 0 .. n /\ (i # 0 => i - 1 \in 0 .. n)
        BY <3>2
      <4> QED
        BY <2>2, <4>1
    <3> QED
      BY <3>1, <3>2
  <2>6. IsCourse(h, n + 1)
    <3> HIDE DEF Step
    <3> QED
      BY <2>4, <2>5
  <2> HIDE DEF IsCourse
  <2> QED
    BY <2>6
<1>4. \A n \in Nat : n \in T
  <2> HIDE DEF T
  <2> QED
    BY <1>2, <1>3, NatByInduction
<1> DEFINE c == CHOOSE f : IsCourse(f, N)
<1>5. IsCourse(c, N)
  <2>1. \E f : IsCourse(f, N)
    BY <1>1, <1>4
  <2> HIDE DEF IsCourse
  <2> QED
    BY <2>1
<1>6. Build = c[N]
  BY DEF Build
<1> HIDE DEF c
<1>7. c[0] = NoGraph
  BY <1>1, <1>5
<1>8. \A i \in 1 .. N : c[i] = Absorb(c[i - 1], lines[i])
  BY <1>1, <1>5
<1> QED
  BY <1>6, <1>7, <1>8

LEMMA BuildFits ==
    ASSUME GoodLines(lines)
    PROVE  GraphFits(lines, Len(lines), Build)
<1>1. lines \in Seq(TextLine) /\ Len(lines) \in Nat /\ \A i \in 1 .. Len(lines) : GoodLine(lines[i])
  BY DEF GoodLines
<1>2. PICK f : /\ f[0] = NoGraph /\ f[Len(lines)] = Build
               /\ \A i \in 1 .. Len(lines) : f[i] = Absorb(f[i - 1], lines[i])
  BY <1>1, BuildCourse
<1> DEFINE T == {n \in Nat : n <= Len(lines) => GraphFits(lines, n, f[n])}
<1>3. 0 \in T
  BY <1>2, GraphFitsNothing
<1>4. ASSUME NEW n \in Nat, n \in T PROVE n + 1 \in T
  <2>1. SUFFICES ASSUME n + 1 <= Len(lines) PROVE GraphFits(lines, n + 1, f[n + 1])
    OBVIOUS
  <2>2. /\ n <= Len(lines) /\ n + 1 \in 1 .. Len(lines) /\ (n + 1) - 1 = n
        /\ 1 .. n + 1 \subseteq 1 .. Len(lines)
    BY <1>1, <2>1
  <2>3. f[n + 1] = Absorb(f[n], lines[n + 1]) /\ GraphFits(lines, n, f[n])
    BY <1>2, <1>4, <2>2
  <2> QED
    BY <1>1, <2>2, <2>3, GraphFitsOne
<1>5. \A n \in Nat : n \in T
  <2> HIDE DEF T
  <2> QED
    BY <1>3, <1>4, NatByInduction
<1> QED
  BY <1>1, <1>2, <1>5

-----------------------------------------------------------------------------
(* The stream and what it is about.                                        *)

(* The counter a line is numbered by.                                      *)
Counter(l) == <<l.tid, IF l.ty \in {"ALLOC", "FREE"} \/ l.src = "alloc" THEN "call" ELSE "jit">>

(* The lines of a counter are in its order.                                *)
InOrder(ls) ==
    \A i, j \in 1 .. Len(ls) :
        i < j /\ Counter(ls[i]) = Counter(ls[j]) => ls[i].seq <= ls[j].seq
(* The numbers up to the counters', and that of c too while its event is   *)
(* handled.                                                                *)
Numbered(ls, sq) == \A i \in 1 .. Len(ls) : ls[i].seq < sq[Counter(ls[i])]
Numbering(ls, sq, c) ==
    \A i \in 1 .. Len(ls) :
        /\ ls[i].seq <= sq[Counter(ls[i])]
        /\ Counter(ls[i]) # c => ls[i].seq < sq[Counter(ls[i])]

(* What is live was allocated and not freed since.                         *)
Unfreed(ls, j, a) ==
    Is(ls, j, "ALLOC", a) /\ \A k \in 1 .. Len(ls) : j < k => ~Is(ls, k, "FREE", a)
LiveFits(ls, L) == \A a \in Objs : a \in L <=> \E j \in 1 .. Len(ls) : Unfreed(ls, j, a)

(* A stamp of an allocation site comes after the allocation, and before a  *)
(* FREE of it.                                                             *)
SitesFit(ls) ==
    \A i \in 1 .. Len(ls) : ls[i].ty = "STAMP" /\ ls[i].src = "alloc" =>
        \E j \in 1 .. Len(ls) :
            /\ Is(ls, j, "ALLOC", ls[i].addr) /\ j < i
            /\ \A k \in 1 .. Len(ls) : j < k /\ k < i => ~Is(ls, k, "FREE", ls[i].addr)

(* A pointer that is not unseen is the target of the last LINK.            *)
HeapFits(ls, hp, un) ==
    \A a \in Objs \ un :
        /\ hp[a] = 0 => \A j \in 1 .. Len(ls) : ~Is(ls, j, "LINK", a + FieldOff)
        /\ hp[a] # 0 => \E j \in 1 .. Len(ls) : LastLink(ls, Len(ls), j, a) /\ ls[j].to = hp[a]

StreamInv ==
    /\ GoodLines(lines)
    /\ seqs \in [Tids \X Domains -> Nat]
    /\ heap \in [Objs -> Objs \cup {0}] /\ DOMAIN live \subseteq Objs
    /\ InOrder(lines) /\ Numbered(lines, seqs)
    /\ LiveFits(lines, DOMAIN live) /\ SitesFit(lines)
    /\ HeapFits(lines, heap, unseen)

(* The lines of a stream with one more.                                    *)
LEMMA OneLineMore ==
    ASSUME NEW ls, GoodLines(ls), NEW l, GoodLine(l)
    PROVE  LET m == Append(ls, l)
           IN /\ GoodLines(m) /\ Len(ls) \in Nat /\ Len(m) = Len(ls) + 1
              /\ m[Len(ls) + 1] = l /\ \A i \in 1 .. Len(ls) : m[i] = ls[i]
              /\ \A i : i \in 1 .. Len(m) <=> i \in 1 .. Len(ls) \/ i = Len(ls) + 1
<1> DEFINE m == Append(ls, l)
<1>1. ls \in Seq(TextLine) /\ l \in TextLine /\ \A i \in 1 .. Len(ls) : GoodLine(ls[i])
  BY DEF GoodLines, GoodLine
<1>2. /\ m \in Seq(TextLine) /\ Len(ls) \in Nat /\ Len(m) = Len(ls) + 1
      /\ m[Len(ls) + 1] = l /\ \A i \in 1 .. Len(ls) : m[i] = ls[i]
  BY <1>1
<1> HIDE DEF m
<1>3. \A i : i \in 1 .. Len(m) <=> i \in 1 .. Len(ls) \/ i = Len(ls) + 1
  BY <1>2
<1>4. GoodLines(m)
  BY <1>1, <1>2, <1>3 DEF GoodLines
<1> QED
  BY <1>2, <1>3, <1>4 DEF m

(* A line numbered by the counter of its event.                            *)
LEMMA OrderOne ==
    ASSUME NEW ls, GoodLines(ls), NEW l, GoodLine(l), NEW sq \in [Tids \X Domains -> Nat],
           InOrder(ls), Numbering(ls, sq, Counter(l)), l.seq = sq[Counter(l)]
    PROVE  LET m == Append(ls, l) IN InOrder(m) /\ Numbering(m, sq, Counter(l))
<1> DEFINE m == Append(ls, l)
<1>1. /\ Len(ls) \in Nat /\ Len(m) = Len(ls) + 1
      /\ m[Len(ls) + 1] = l /\ \A i \in 1 .. Len(ls) : m[i] = ls[i]
      /\ \A i : i \in 1 .. Len(m) <=> i \in 1 .. Len(ls) \/ i = Len(ls) + 1
  BY OneLineMore
<1> HIDE DEF m
<1>2. l.seq \in Nat
  BY DEF GoodLine, TextLine
<1>3. InOrder(m)
  <2> SUFFICES ASSUME NEW i \in 1 .. Len(m), NEW j \in 1 .. Len(m), i < j, Counter(m[i]) = Counter(m[j])
               PROVE  m[i].seq <= m[j].seq
    BY DEF InOrder
  <2>1. i \in 1 .. Len(ls) /\ m[i] = ls[i]
    BY <1>1
  <2>2. CASE j \in 1 .. Len(ls)
    BY <1>1, <2>1, <2>2 DEF InOrder
  <2>3. CASE j = Len(ls) + 1
    BY <1>1, <2>1, <2>3 DEF Numbering
  <2> QED
    BY <1>1, <2>2, <2>3
<1>4. Numbering(m, sq, Counter(l))
  <2> SUFFICES ASSUME NEW i \in 1 .. Len(m)
               PROVE  /\ m[i].seq <= sq[Counter(m[i])]
                      /\ Counter(m[i]) # Counter(l) => m[i].seq < sq[Counter(m[i])]
    BY Zenon DEF Numbering
  <2>1. CASE i \in 1 .. Len(ls)
    BY <1>1, <2>1 DEF Numbering
  <2>2. CASE i = Len(ls) + 1
    BY <1>1, <1>2, <2>2
  <2> QED
    BY <1>1, <2>1, <2>2
<1> QED
  BY <1>3, <1>4 DEF m

(* The event is over: its counter goes on.                                 *)
LEMMA OrderNext ==
    ASSUME NEW ls, GoodLines(ls), NEW sq \in [Tids \X Domains -> Nat], NEW c \in Tids \X Domains,
           Numbering(ls, sq, c)
    PROVE  Numbered(ls, [sq EXCEPT ![c] = @ + 1])
<1> SUFFICES ASSUME NEW i \in 1 .. Len(ls)
             PROVE  ls[i].seq < [sq EXCEPT ![c] = @ + 1][Counter(ls[i])]
  BY DEF Numbered
<1>1. ls[i].seq \in Nat /\ ls[i].tid \in Tids
  BY DEF GoodLines, GoodLine, TextLine
<1>2. Counter(ls[i]) \in Tids \X Domains
  BY <1>1 DEF Counter, Domains
<1>3. /\ ls[i].seq <= sq[Counter(ls[i])]
      /\ Counter(ls[i]) # c => ls[i].seq < sq[Counter(ls[i])]
  BY DEF Numbering
<1>4. sq[Counter(ls[i])] \in Nat
  BY <1>2
<1> HIDE DEF Counter
<1> QED
  BY <1>1, <1>2, <1>3, <1>4

LEMMA OrderBegins ==
    ASSUME NEW ls, GoodLines(ls), NEW sq \in [Tids \X Domains -> Nat], NEW c, Numbered(ls, sq)
    PROVE  Numbering(ls, sq, c)
<1> SUFFICES ASSUME NEW i \in 1 .. Len(ls)
             PROVE  ls[i].seq <= sq[Counter(ls[i])] /\ ls[i].seq < sq[Counter(ls[i])]
  BY DEF Numbering
<1>1. ls[i].seq \in Nat /\ ls[i].tid \in Tids
  BY DEF GoodLines, GoodLine, TextLine
<1>2. Counter(ls[i]) \in Tids \X Domains
  BY <1>1 DEF Counter, Domains
<1>3. sq[Counter(ls[i])] \in Nat
  BY <1>2
<1>4. ls[i].seq < sq[Counter(ls[i])]
  BY DEF Numbered
<1> QED
  BY <1>1, <1>3, <1>4

(* A STAMP or a LINK changes nothing of what is live.                      *)
LEMMA LiveSkip ==
    ASSUME NEW ls, GoodLines(ls), NEW l, GoodLine(l), NEW L, LiveFits(ls, L), l.ty \notin {"ALLOC", "FREE"}
    PROVE  LiveFits(Append(ls, l), L)
<1> DEFINE m == Append(ls, l)
<1>1. /\ Len(ls) \in Nat /\ Len(m) = Len(ls) + 1
      /\ m[Len(ls) + 1] = l /\ \A i \in 1 .. Len(ls) : m[i] = ls[i]
      /\ \A i : i \in 1 .. Len(m) <=> i \in 1 .. Len(ls) \/ i = Len(ls) + 1
  BY OneLineMore
<1> HIDE DEF m
<1>2. ASSUME NEW a, NEW j PROVE j \in 1 .. Len(m) /\ Unfreed(m, j, a) <=> j \in 1 .. Len(ls) /\ Unfreed(ls, j, a)
  BY <1>1 DEF Unfreed, Is
<1>3. LiveFits(m, L)
  BY <1>2 DEF LiveFits
<1> QED
  BY <1>3 DEF m

(* An ALLOC makes its object live.                                         *)
LEMMA LiveAlloc ==
    ASSUME NEW ls, GoodLines(ls), NEW l, GoodLine(l), NEW L, LiveFits(ls, L), l.ty = "ALLOC"
    PROVE  LiveFits(Append(ls, l), L \cup {l.addr})
<1> DEFINE m == Append(ls, l)
<1>1. /\ Len(ls) \in Nat /\ Len(m) = Len(ls) + 1
      /\ m[Len(ls) + 1] = l /\ \A i \in 1 .. Len(ls) : m[i] = ls[i]
      /\ \A i : i \in 1 .. Len(m) <=> i \in 1 .. Len(ls) \/ i = Len(ls) + 1
  BY OneLineMore
<1> HIDE DEF m
<1>2. ASSUME NEW a, NEW j \in 1 .. Len(ls) PROVE Unfreed(m, j, a) <=> Unfreed(ls, j, a)
  BY <1>1 DEF Unfreed, Is
<1>3. ASSUME NEW a PROVE Unfreed(m, Len(ls) + 1, a) <=> a = l.addr
  <2>1. \A k \in 1 .. Len(m) : ~(Len(ls) + 1 < k)
    BY <1>1
  <2> QED
    BY <1>1, <2>1 DEF Unfreed, Is
<1>4. LiveFits(m, L \cup {l.addr})
  BY <1>1, <1>2, <1>3 DEF LiveFits
<1> QED
  BY <1>4 DEF m

(* A FREE ends it.                                                         *)
LEMMA LiveFree ==
    ASSUME NEW ls, GoodLines(ls), NEW l, GoodLine(l), NEW L, LiveFits(ls, L), l.ty = "FREE"
    PROVE  LiveFits(Append(ls, l), L \ {l.addr})
<1> DEFINE m == Append(ls, l)
<1>1. /\ Len(ls) \in Nat /\ Len(m) = Len(ls) + 1
      /\ m[Len(ls) + 1] = l /\ \A i \in 1 .. Len(ls) : m[i] = ls[i]
      /\ \A i : i \in 1 .. Len(m) <=> i \in 1 .. Len(ls) \/ i = Len(ls) + 1
  BY OneLineMore
<1> HIDE DEF m
<1>2. ASSUME NEW a, a # l.addr, NEW j
      PROVE  j \in 1 .. Len(m) /\ Unfreed(m, j, a) <=> j \in 1 .. Len(ls) /\ Unfreed(ls, j, a)
  BY <1>1, <1>2 DEF Unfreed, Is
<1>3. ASSUME NEW j \in 1 .. Len(m) PROVE ~Unfreed(m, j, l.addr)
  <2>1. j \in 1 .. Len(ls) => j < Len(ls) + 1
    BY <1>1
  <2> QED
    BY <1>1, <1>3, <2>1 DEF Unfreed, Is
<1>4. LiveFits(m, L \ {l.addr})
  BY <1>2, <1>3 DEF LiveFits
<1> QED
  BY <1>4 DEF m

(* A line that is no stamp of a site.                                      *)
LEMMA SitesSkip ==
    ASSUME NEW ls, GoodLines(ls), NEW l, GoodLine(l), SitesFit(ls), ~(l.ty = "STAMP" /\ l.src = "alloc")
    PROVE  SitesFit(Append(ls, l))
<1> DEFINE m == Append(ls, l)
<1>1. /\ Len(ls) \in Nat /\ Len(m) = Len(ls) + 1
      /\ m[Len(ls) + 1] = l /\ \A i \in 1 .. Len(ls) : m[i] = ls[i]
      /\ \A i : i \in 1 .. Len(m) <=> i \in 1 .. Len(ls) \/ i = Len(ls) + 1
  BY OneLineMore
<1> HIDE DEF m
<1>2. ASSUME NEW i \in 1 .. Len(m), m[i].ty = "STAMP" /\ m[i].src = "alloc"
      PROVE  \E j \in 1 .. Len(m) :
                /\ Is(m, j, "ALLOC", m[i].addr) /\ j < i
                /\ \A k \in 1 .. Len(m) : j < k /\ k < i => ~Is(m, k, "FREE", m[i].addr)
  <2>1. i \in 1 .. Len(ls) /\ m[i] = ls[i]
    BY <1>1, <1>2
  <2>2. PICK j \in 1 .. Len(ls) :
                /\ Is(ls, j, "ALLOC", ls[i].addr) /\ j < i
                /\ \A k \in 1 .. Len(ls) : j < k /\ k < i => ~Is(ls, k, "FREE", ls[i].addr)
    BY <1>2, <2>1 DEF SitesFit
  <2>3. Is(m, j, "ALLOC", m[i].addr) /\ j \in 1 .. Len(m)
    BY <1>1, <2>1, <2>2 DEF Is
  <2>4. ASSUME NEW k \in 1 .. Len(m), j < k /\ k < i PROVE ~Is(m, k, "FREE", m[i].addr)
    <3>1. k \in 1 .. Len(ls) /\ m[k] = ls[k]
      BY <1>1, <2>1, <2>4
    <3> QED
      BY <2>1, <2>2, <2>4, <3>1 DEF Is
  <2> QED
    BY <2>2, <2>3, <2>4
<1>3. SitesFit(m)
  BY <1>2 DEF SitesFit
<1> QED
  BY <1>3 DEF m

(* The stamp of a site whose block is live.                                *)
LEMMA SitesStamp ==
    ASSUME NEW ls, GoodLines(ls), NEW l, GoodLine(l), SitesFit(ls), l.ty = "STAMP",
           NEW L, LiveFits(ls, L), l.addr \in L
    PROVE  SitesFit(Append(ls, l))
<1> DEFINE m == Append(ls, l)
<1>1. /\ Len(ls) \in Nat /\ Len(m) = Len(ls) + 1
      /\ m[Len(ls) + 1] = l /\ \A i \in 1 .. Len(ls) : m[i] = ls[i]
      /\ \A i : i \in 1 .. Len(m) <=> i \in 1 .. Len(ls) \/ i = Len(ls) + 1
  BY OneLineMore
<1> HIDE DEF m
<1>2. ASSUME NEW i \in 1 .. Len(m), m[i].ty = "STAMP" /\ m[i].src = "alloc"
      PROVE  \E j \in 1 .. Len(m) :
                /\ Is(m, j, "ALLOC", m[i].addr) /\ j < i
                /\ \A k \in 1 .. Len(m) : j < k /\ k < i => ~Is(m, k, "FREE", m[i].addr)
  <2>1. PICK j \in 1 .. Len(ls) :
                /\ Is(ls, j, "ALLOC", m[i].addr) /\ j < i
                /\ \A k \in 1 .. Len(ls) : j < k /\ k < i => ~Is(ls, k, "FREE", m[i].addr)
    <3>1. CASE i \in 1 .. Len(ls)
      BY <1>1, <1>2, <3>1 DEF SitesFit
    <3>2. CASE i = Len(ls) + 1
      <4>1. l.addr \in Objs
        BY DEF GoodLine
      <4>2. PICK j \in 1 .. Len(ls) : Unfreed(ls, j, l.addr)
        BY <4>1 DEF LiveFits
      <4>3. j < i /\ m[i].addr = l.addr
        BY <1>1, <3>2
      <4> QED
        BY <4>2, <4>3 DEF Unfreed
    <3> QED
      BY <1>1, <3>1, <3>2
  <2>2. Is(m, j, "ALLOC", m[i].addr) /\ j \in 1 .. Len(m)
    BY <1>1, <2>1 DEF Is
  <2>3. ASSUME NEW k \in 1 .. Len(m), j < k /\ k < i PROVE ~Is(m, k, "FREE", m[i].addr)
    <3>1. k \in 1 .. Len(ls) /\ m[k] = ls[k]
      BY <1>1, <2>3
    <3> QED
      BY <2>1, <2>3, <3>1 DEF Is
  <2> QED
    BY <2>1, <2>2, <2>3
<1>3. SitesFit(m)
  BY <1>2 DEF SitesFit
<1> QED
  BY <1>3 DEF m

(* A line that is no LINK leaves the pointers alone.                       *)
LEMMA HeapSkip ==
    ASSUME NEW ls, GoodLines(ls), NEW l, GoodLine(l), NEW hp, NEW un, HeapFits(ls, hp, un), l.ty # "LINK"
    PROVE  HeapFits(Append(ls, l), hp, un)
<1> DEFINE m == Append(ls, l)
<1>1. /\ Len(ls) \in Nat /\ Len(m) = Len(ls) + 1
      /\ m[Len(ls) + 1] = l /\ \A i \in 1 .. Len(ls) : m[i] = ls[i]
      /\ \A i : i \in 1 .. Len(m) <=> i \in 1 .. Len(ls) \/ i = Len(ls) + 1
  BY OneLineMore
<1> HIDE DEF m
<1>2. ASSUME NEW a, NEW j \in 1 .. Len(m)
      PROVE  Is(m, j, "LINK", a) <=> j \in 1 .. Len(ls) /\ Is(ls, j, "LINK", a)
  BY <1>1 DEF Is
<1>3. ASSUME NEW a, NEW j \in 1 .. Len(ls), LastLink(ls, Len(ls), j, a)
      PROVE  LastLink(m, Len(m), j, a) /\ m[j] = ls[j] /\ j \in 1 .. Len(m)
  BY <1>1, <1>2, <1>3 DEF LastLink
<1>4. HeapFits(m, hp, un)
  BY <1>1, <1>2, <1>3 DEF HeapFits
<1> QED
  BY <1>4 DEF m

(* A pointer that is written without a LINK is unseen.                     *)
LEMMA HeapUnseen ==
    ASSUME NEW ls, NEW hp, NEW un, HeapFits(ls, hp, un), NEW a, NEW to
    PROVE  HeapFits(ls, [hp EXCEPT ![a] = to], un \cup {a})
<1>1. \A x \in Objs \ (un \cup {a}) : x \in Objs \ un /\ [hp EXCEPT ![a] = to][x] = hp[x]
  OBVIOUS
<1> QED
  BY <1>1 DEF HeapFits

(* One that is written with a LINK is seen.                                *)
LEMMA HeapLink ==
    ASSUME NEW ls, GoodLines(ls), NEW l, GoodLine(l), NEW hp \in [Objs -> Objs \cup {0}], NEW un,
           HeapFits(ls, hp, un), NEW a \in Objs, l.ty = "LINK", l.addr = a + FieldOff
    PROVE  HeapFits(Append(ls, l), [hp EXCEPT ![a] = l.to], un \ {a})
<1> DEFINE m == Append(ls, l)
           h == [hp EXCEPT ![a] = l.to]
<1>1. /\ Len(ls) \in Nat /\ Len(m) = Len(ls) + 1
      /\ m[Len(ls) + 1] = l /\ \A i \in 1 .. Len(ls) : m[i] = ls[i]
      /\ \A i : i \in 1 .. Len(m) <=> i \in 1 .. Len(ls) \/ i = Len(ls) + 1
  BY OneLineMore
<1> HIDE DEF m
<1>2. h[a] = l.to /\ l.to # 0 /\ \A x \in Objs : x # a => h[x] = hp[x]
  BY CheckAssumption DEF GoodLine
<1> HIDE DEF h
<1>3. \A x \in Objs : x + FieldOff = a + FieldOff => x = a
  BY CheckAssumption
<1>4. ASSUME NEW x \in Objs, x # a, NEW j \in 1 .. Len(m)
      PROVE  Is(m, j, "LINK", x + FieldOff) <=> j \in 1 .. Len(ls) /\ Is(ls, j, "LINK", x + FieldOff)
  <2>1. ~(l.addr = x + FieldOff)
    BY <1>3, <1>4
  <2> QED
    BY <1>1, <2>1 DEF Is
<1>5. ASSUME NEW x \in Objs, x # a, NEW j \in 1 .. Len(ls), LastLink(ls, Len(ls), j, x)
      PROVE  LastLink(m, Len(m), j, x) /\ m[j] = ls[j] /\ j \in 1 .. Len(m)
  BY <1>1, <1>4, <1>5 DEF LastLink
<1>6. LastLink(m, Len(m), Len(ls) + 1, a) /\ m[Len(ls) + 1].to = h[a] /\ Len(ls) + 1 \in 1 .. Len(m)
  <2>1. \A k \in 1 .. Len(m) : ~(Len(ls) + 1 < k)
    BY <1>1
  <2> QED
    BY <1>1, <1>2, <2>1 DEF LastLink, Is
<1>7. ASSUME NEW x \in Objs \ (un \ {a})
      PROVE  /\ h[x] = 0 => \A j \in 1 .. Len(m) : ~Is(m, j, "LINK", x + FieldOff)
             /\ h[x] # 0 => \E j \in 1 .. Len(m) : LastLink(m, Len(m), j, x) /\ m[j].to = h[x]
  <2>1. CASE x = a
    BY <1>2, <1>6, <2>1
  <2>2. CASE x # a
    <3>1. x \in Objs \ un /\ h[x] = hp[x]
      BY <1>2, <2>2
    <3>2. /\ hp[x] = 0 => \A j \in 1 .. Len(ls) : ~Is(ls, j, "LINK", x + FieldOff)
          /\ hp[x] # 0 => \E j \in 1 .. Len(ls) : LastLink(ls, Len(ls), j, x) /\ ls[j].to = hp[x]
      BY <3>1 DEF HeapFits
    <3> QED
      BY <1>4, <1>5, <2>2, <3>1, <3>2
  <2> QED
    BY <2>1, <2>2
<1>8. HeapFits(m, h, un \ {a})
  BY <1>7 DEF HeapFits
<1> QED
  BY <1>8 DEF m, h

-----------------------------------------------------------------------------
(* The steps.                                                              *)

LEMMA StreamInitInv == CheckInit => StreamInv
<1> SUFFICES ASSUME CheckInit PROVE StreamInv
  OBVIOUS
<1>1. /\ lines = <<>> /\ seqs = [c \in Tids \X Domains |-> 1] /\ live = << >>
      /\ heap = [a \in Objs |-> 0] /\ unseen = {}
  BY DEF CheckInit
<1>2. Len(lines) = 0 /\ DOMAIN live = {} /\ \A i : i \notin 1 .. Len(lines)
  BY <1>1
<1>3. GoodLines(lines)
  BY <1>1, <1>2 DEF GoodLines
<1>4. InOrder(lines) /\ Numbered(lines, seqs) /\ SitesFit(lines)
  BY <1>2 DEF InOrder, Numbered, SitesFit
<1>5. LiveFits(lines, DOMAIN live)
  BY <1>2 DEF LiveFits
<1>6. HeapFits(lines, heap, unseen)
  BY <1>1, <1>2 DEF HeapFits
<1>7. seqs \in [Tids \X Domains -> Nat] /\ heap \in [Objs -> Objs \cup {0}]
  BY <1>1
<1> QED
  BY <1>2, <1>3, <1>4, <1>5, <1>6, <1>7 DEF StreamInv

(* The counters after an event.                                            *)
LEMMA EventCounts ==
    ASSUME StreamInv, NEW t \in Tids, NEW d \in Domains, Event(t, d)
    PROVE  /\ seqs' = [seqs EXCEPT ![<<t, d>>] = @ + 1]
           /\ seqs' \in [Tids \X Domains -> Nat] /\ <<t, d>> \in Tids \X Domains
           /\ seqs[<<t, d>>] \in Nat
           /\ Numbering(lines, seqs, <<t, d>>)
           /\ \A ls : GoodLines(ls) /\ Numbering(ls, seqs, <<t, d>>) => Numbered(ls, seqs')
<1>1. seqs' = [seqs EXCEPT ![<<t, d>>] = @ + 1] /\ seqs \in [Tids \X Domains -> Nat]
  BY DEF Event, StreamInv
<1>2. <<t, d>> \in Tids \X Domains
  OBVIOUS
<1> DEFINE c == <<t, d>>
<1>3. c \in Tids \X Domains /\ seqs' = [seqs EXCEPT ![c] = @ + 1]
  BY <1>1, <1>2
<1> HIDE DEF c
<1>4. seqs[c] \in Nat /\ seqs' \in [Tids \X Domains -> Nat]
  BY <1>1, <1>3
<1>5. Numbering(lines, seqs, c)
  BY <1>1, OrderBegins DEF StreamInv
<1>6. \A ls : GoodLines(ls) /\ Numbering(ls, seqs, c) => Numbered(ls, seqs')
  <2> SUFFICES ASSUME NEW ls, GoodLines(ls), Numbering(ls, seqs, c) PROVE Numbered(ls, seqs')
    OBVIOUS
  <2>1. Numbered(ls, [seqs EXCEPT ![c] = @ + 1])
    BY <1>1, <1>3, OrderNext
  <2> QED
    BY <1>3, <2>1
<1> QED
  BY <1>1, <1>2, <1>4, <1>5, <1>6 DEF c

(* The lines of an event about an object.                                  *)
LEMMA GoodEventLine ==
    ASSUME StreamInv, NEW t \in Tids, NEW d \in Domains, NEW a \in Objs,
           NEW ty \in {"ALLOC", "FREE", "STAMP"}
    PROVE  LET l == Line(ty, t, d, a)
           IN /\ ty = "ALLOC" /\ d = "call" => GoodLine(l) /\ Counter(l) = <<t, d>>
              /\ ty = "FREE" /\ d = "call" => GoodLine(l) /\ Counter(l) = <<t, d>>
              /\ ty = "STAMP" /\ d = "call" =>
                    GoodLine([l EXCEPT !.src = "alloc"]) /\ Counter([l EXCEPT !.src = "alloc"]) = <<t, d>>
              /\ ty = "STAMP" /\ d = "jit" =>
                    \A src \in {"global", "field"} :
                        GoodLine([l EXCEPT !.src = src]) /\ Counter([l EXCEPT !.src = src]) = <<t, d>>
              /\ l.seq = seqs[<<t, d>>] /\ l.addr = a /\ l.ty = ty
<1>1. seqs[<<t, d>>] \in Nat
  <2>1. <<t, d>> \in Tids \X Domains
    OBVIOUS
  <2> DEFINE c == <<t, d>>
  <2>2. c \in Tids \X Domains
    BY <2>1
  <2> HIDE DEF c
  <2>3. seqs[c] \in Nat
    BY <2>2 DEF StreamInv
  <2> QED
    BY <2>3 DEF c
<1>2. a \in Nat
  BY CheckAssumption
<1> QED
  BY <1>1, <1>2 DEF Line, GoodLine, TextLine, Counter

LEMMA StreamAlloc ==
    ASSUME StreamInv, NEW t \in Tids, NEW a \in Objs, NEW size, NEW site \in BOOLEAN,
           AllocEvent(t, a, size, site)
    PROVE  StreamInv'
<1> DEFINE dup == a \in DOMAIN live /\ live[a] = size
           x == Line("ALLOC", t, "call", a)
           y == [Line("STAMP", t, "call", a) EXCEPT !.src = "alloc"]
           c == <<t, "call">>
           mid == IF dup THEN lines ELSE Append(lines, x)
           L == DOMAIN live \cup {a}
<1>1. /\ Event(t, "call") /\ live' = With(live, a, size) /\ heap' = heap /\ unseen' = unseen
      /\ lines' = lines \o (IF dup THEN <<>> ELSE <<x>>) \o (IF site THEN <<y>> ELSE <<>>)
  BY DEF AllocEvent
<1>2. /\ GoodLines(lines) /\ InOrder(lines) /\ SitesFit(lines) /\ LiveFits(lines, DOMAIN live)
      /\ HeapFits(lines, heap, unseen) /\ DOMAIN live \subseteq Objs
      /\ seqs \in [Tids \X Domains -> Nat] /\ heap \in [Objs -> Objs \cup {0}]
  BY DEF StreamInv
<1>3. "call" \in Domains
  BY DEF Domains
<1>4. /\ seqs' \in [Tids \X Domains -> Nat] /\ Numbering(lines, seqs, c)
      /\ \A ls : GoodLines(ls) /\ Numbering(ls, seqs, c) => Numbered(ls, seqs')
  BY <1>1, <1>3, EventCounts
<1>5. /\ GoodLine(x) /\ Counter(x) = c /\ x.seq = seqs[c] /\ x.ty = "ALLOC" /\ x.addr = a
      /\ GoodLine(y) /\ Counter(y) = c
  <2>1. GoodLine(x) /\ Counter(x) = c /\ x.seq = seqs[c] /\ x.ty = "ALLOC" /\ x.addr = a
    BY <1>3, GoodEventLine
  <2>2. GoodLine(y) /\ Counter(y) = c
    BY <1>3, GoodEventLine
  <2> QED
    BY <2>1, <2>2
<1>6. y.seq = seqs[c] /\ y.ty = "STAMP" /\ y.addr = a /\ y.src = "alloc"
  BY DEF Line
<1> HIDE DEF x, y, c, dup
<1>7. lines' = IF site THEN Append(mid, y) ELSE mid
  <2>1. lines \in Seq(TextLine) /\ x \in TextLine /\ y \in TextLine
    BY <1>2, <1>5 DEF GoodLines, GoodLine
  <2>2. mid \in Seq(TextLine) /\ lines \o (IF dup THEN <<>> ELSE <<x>>) = mid
    <3>1. CASE dup
      BY <2>1, <3>1
    <3>2. CASE ~dup
      BY <2>1, <3>2
    <3> QED
      BY <3>1, <3>2
  <2> HIDE DEF mid
  <2>3. CASE site
    <3>1. lines' = mid \o <<y>>
      BY <1>1, <2>2, <2>3, Zenon
    <3>2. mid \o <<y>> = Append(mid, y)
      BY <2>1, <2>2
    <3> QED
      BY <2>3, <3>1, <3>2
  <2>4. CASE ~site
    BY <1>1, <2>1, <2>2, <2>4
  <2> QED
    BY <2>3, <2>4
<1>8. /\ GoodLines(mid) /\ InOrder(mid) /\ Numbering(mid, seqs, c) /\ SitesFit(mid)
      /\ LiveFits(mid, L) /\ HeapFits(mid, heap, unseen)
  <2>1. CASE dup
    <3>1. L = DOMAIN live
      BY <2>1 DEF dup
    <3> QED
      BY <1>2, <1>4, <2>1, <3>1
  <2>2. CASE ~dup
    <3>1. GoodLines(Append(lines, x))
      BY <1>2, <1>5, OneLineMore
    <3>2. InOrder(Append(lines, x)) /\ Numbering(Append(lines, x), seqs, c)
      BY <1>2, <1>4, <1>5, OrderOne
    <3>3. SitesFit(Append(lines, x)) /\ HeapFits(Append(lines, x), heap, unseen)
      BY <1>2, <1>5, SitesSkip, HeapSkip
    <3>4. LiveFits(Append(lines, x), L)
      BY <1>2, <1>5, LiveAlloc
    <3> QED
      BY <2>2, <3>1, <3>2, <3>3, <3>4
  <2> QED
    BY <2>1, <2>2
<1> HIDE DEF mid
<1>9. /\ GoodLines(lines') /\ InOrder(lines') /\ Numbering(lines', seqs, c) /\ SitesFit(lines')
      /\ LiveFits(lines', L) /\ HeapFits(lines', heap, unseen)
  <2>1. CASE ~site
    BY <1>7, <1>8, <2>1
  <2>2. CASE site
    <3>1. GoodLines(Append(mid, y))
      BY <1>8, <1>5, OneLineMore
    <3>2. InOrder(Append(mid, y)) /\ Numbering(Append(mid, y), seqs, c)
      BY <1>2, <1>8, <1>5, <1>6, OrderOne
    <3>3. SitesFit(Append(mid, y))
      <4>1. y.addr \in L
        BY <1>6
      <4> HIDE DEF L
      <4> QED
        BY <1>8, <1>5, <1>6, <4>1, SitesStamp
    <3>4. HeapFits(Append(mid, y), heap, unseen) /\ LiveFits(Append(mid, y), L)
      BY <1>8, <1>5, <1>6, HeapSkip, LiveSkip
    <3> QED
      BY <1>7, <2>2, <3>1, <3>2, <3>3, <3>4
  <2> QED
    BY <2>1, <2>2
<1>10. DOMAIN live' = L /\ L \subseteq Objs
  BY <1>1, <1>2 DEF With
<1>11. Numbered(lines', seqs')
  BY <1>4, <1>9
<1> HIDE DEF L
<1> QED
  BY <1>1, <1>2, <1>4, <1>9, <1>10, <1>11 DEF StreamInv

LEMMA StreamFree ==
    ASSUME StreamInv, NEW t \in Tids, NEW a \in Objs, FreeEvent(t, a)
    PROVE  StreamInv'
<1> DEFINE x == Line("FREE", t, "call", a)
           c == <<t, "call">>
           L == DOMAIN live \ {a}
<1>1. /\ Event(t, "call") /\ live' = Without(live, a) /\ heap' = heap /\ unseen' = unseen
      /\ lines' = IF a \in DOMAIN live THEN Append(lines, x) ELSE lines
  BY DEF FreeEvent
<1>2. /\ GoodLines(lines) /\ InOrder(lines) /\ SitesFit(lines) /\ LiveFits(lines, DOMAIN live)
      /\ HeapFits(lines, heap, unseen) /\ DOMAIN live \subseteq Objs
      /\ seqs \in [Tids \X Domains -> Nat] /\ heap \in [Objs -> Objs \cup {0}]
  BY DEF StreamInv
<1>3. "call" \in Domains
  BY DEF Domains
<1>4. /\ seqs' \in [Tids \X Domains -> Nat] /\ Numbering(lines, seqs, c)
      /\ \A ls : GoodLines(ls) /\ Numbering(ls, seqs, c) => Numbered(ls, seqs')
  BY <1>1, <1>3, EventCounts
<1>5. GoodLine(x) /\ Counter(x) = c /\ x.seq = seqs[c] /\ x.ty = "FREE" /\ x.addr = a
  BY <1>3, GoodEventLine
<1> HIDE DEF x, c
<1>6. DOMAIN live' = L /\ L \subseteq Objs
  BY <1>1, <1>2 DEF Without
<1>7. /\ GoodLines(lines') /\ InOrder(lines') /\ Numbering(lines', seqs, c) /\ SitesFit(lines')
      /\ LiveFits(lines', L) /\ HeapFits(lines', heap, unseen)
  <2>1. CASE a \notin DOMAIN live
    <3>1. L = DOMAIN live
      BY <2>1
    <3> QED
      BY <1>1, <1>2, <1>4, <2>1, <3>1
  <2>2. CASE a \in DOMAIN live
    <3>1. GoodLines(Append(lines, x))
      BY <1>2, <1>5, OneLineMore
    <3>2. InOrder(Append(lines, x)) /\ Numbering(Append(lines, x), seqs, c)
      BY <1>2, <1>4, <1>5, OrderOne
    <3>3. SitesFit(Append(lines, x)) /\ HeapFits(Append(lines, x), heap, unseen)
      BY <1>2, <1>5, SitesSkip, HeapSkip
    <3>4. LiveFits(Append(lines, x), L)
      BY <1>2, <1>5, LiveFree
    <3> QED
      BY <1>1, <2>2, <3>1, <3>2, <3>3, <3>4
  <2> QED
    BY <2>1, <2>2
<1>8. Numbered(lines', seqs')
  BY <1>4, <1>7
<1> HIDE DEF L
<1> QED
  BY <1>1, <1>2, <1>4, <1>6, <1>7, <1>8 DEF StreamInv

LEMMA StreamStamp ==
    ASSUME StreamInv, NEW t \in Tids, NEW a \in Objs, NEW silent \in BOOLEAN, StampEvent(t, a, silent)
    PROVE  StreamInv'
<1> DEFINE x == [Line("STAMP", t, "jit", a) EXCEPT !.src = "global"]
           c == <<t, "jit">>
<1>1. /\ Event(t, "jit") /\ live' = live /\ heap' = heap /\ unseen' = unseen
      /\ lines' = IF silent THEN lines ELSE Append(lines, x)
  BY DEF StampEvent
<1>2. /\ GoodLines(lines) /\ InOrder(lines) /\ SitesFit(lines) /\ LiveFits(lines, DOMAIN live)
      /\ HeapFits(lines, heap, unseen) /\ DOMAIN live \subseteq Objs
      /\ seqs \in [Tids \X Domains -> Nat] /\ heap \in [Objs -> Objs \cup {0}]
  BY DEF StreamInv
<1>3. "jit" \in Domains
  BY DEF Domains
<1>4. /\ seqs' \in [Tids \X Domains -> Nat] /\ Numbering(lines, seqs, c)
      /\ \A ls : GoodLines(ls) /\ Numbering(ls, seqs, c) => Numbered(ls, seqs')
  BY <1>1, <1>3, EventCounts
<1>5. GoodLine(x) /\ Counter(x) = c
  BY <1>3, GoodEventLine
<1>6. x.seq = seqs[c] /\ x.ty = "STAMP" /\ x.src = "global"
  BY DEF Line
<1> HIDE DEF x, c
<1>7. /\ GoodLines(lines') /\ InOrder(lines') /\ Numbering(lines', seqs, c) /\ SitesFit(lines')
      /\ LiveFits(lines', DOMAIN live) /\ HeapFits(lines', heap, unseen)
  <2>1. CASE silent
    BY <1>1, <1>2, <1>4, <2>1
  <2>2. CASE ~silent
    <3>1. GoodLines(Append(lines, x))
      BY <1>2, <1>5, OneLineMore
    <3>2. InOrder(Append(lines, x)) /\ Numbering(Append(lines, x), seqs, c)
      BY <1>2, <1>4, <1>5, <1>6, OrderOne
    <3>3. SitesFit(Append(lines, x)) /\ HeapFits(Append(lines, x), heap, unseen)
      BY <1>2, <1>5, <1>6, SitesSkip, HeapSkip
    <3>4. LiveFits(Append(lines, x), DOMAIN live)
      BY <1>2, <1>5, <1>6, LiveSkip
    <3> QED
      BY <1>1, <2>2, <3>1, <3>2, <3>3, <3>4
  <2> QED
    BY <2>1, <2>2
<1>8. Numbered(lines', seqs')
  BY <1>4, <1>7
<1> QED
  BY <1>1, <1>2, <1>4, <1>7, <1>8 DEF StreamInv

LEMMA StreamLink ==
    ASSUME StreamInv, NEW t \in Tids, NEW a \in Objs, NEW to \in Objs \cup {0}, NEW stamps \in BOOLEAN,
           LinkEvent(t, a, to, stamps)
    PROVE  StreamInv'
<1> DEFINE linked == a \in typed /\ to # 0
           x == [Line("LINK", t, "jit", a + FieldOff) EXCEPT !.to = to]
           y == [Line("STAMP", t, "jit", to) EXCEPT !.src = "field"]
           c == <<t, "jit">>
           mid == Append(lines, x)
           un == IF linked THEN unseen \ {a} ELSE unseen \cup {a}
           hp == [heap EXCEPT ![a] = to]
<1>1. /\ Event(t, "jit") /\ (stamps => linked) /\ live' = live /\ heap' = hp /\ unseen' = un
      /\ lines' = IF linked THEN Append(lines, x) \o (IF stamps THEN <<y>> ELSE <<>>) ELSE lines
  BY DEF LinkEvent
<1>2. /\ GoodLines(lines) /\ InOrder(lines) /\ SitesFit(lines) /\ LiveFits(lines, DOMAIN live)
      /\ HeapFits(lines, heap, unseen) /\ DOMAIN live \subseteq Objs
      /\ seqs \in [Tids \X Domains -> Nat] /\ heap \in [Objs -> Objs \cup {0}]
  BY DEF StreamInv
<1>3. "jit" \in Domains
  BY DEF Domains
<1>4. /\ seqs' \in [Tids \X Domains -> Nat] /\ Numbering(lines, seqs, c) /\ seqs[c] \in Nat
      /\ \A ls : GoodLines(ls) /\ Numbering(ls, seqs, c) => Numbered(ls, seqs')
  BY <1>1, <1>3, EventCounts
<1>5. linked => to \in Objs
  OBVIOUS
<1>6. /\ x.seq = seqs[c] /\ x.ty = "LINK" /\ x.addr = a + FieldOff /\ x.to = to /\ Counter(x) = c
      /\ y.seq = seqs[c] /\ y.ty = "STAMP" /\ y.src = "field"
  BY DEF Line, Counter
<1>7. linked => GoodLine(x)
  <2> SUFFICES ASSUME linked PROVE GoodLine(x)
    OBVIOUS
  <2>1. a + FieldOff \in Nat
    BY CheckAssumption
  <2>2. seqs[c] \in Nat
    BY <1>4
  <2> DEFINE r == Line("LINK", t, "jit", a + FieldOff)
  <2>3. r \in TextLine /\ r.src = ""
    BY <2>1, <2>2 DEF Line, TextLine, c
  <2> HIDE DEF r
  <2>4. [r EXCEPT !.to = to] \in TextLine /\ [r EXCEPT !.to = to].src = ""
    BY <2>3 DEF TextLine
  <2>5. x \in TextLine /\ x.src = ""
    BY <2>4 DEF x, r
  <2> QED
    BY <1>5, <1>6, <2>5 DEF GoodLine
<1>8. linked => GoodLine(y) /\ Counter(y) = c
  BY <1>3, <1>5, GoodEventLine
<1>9. hp \in [Objs -> Objs \cup {0}]
  BY <1>2
<1> HIDE DEF x, y, c, hp
<1>10. CASE ~linked
  <2>1. lines' = lines
    BY <1>1, <1>10
  <2>2. HeapFits(lines, hp, unseen \cup {a})
    BY <1>2, HeapUnseen DEF hp
  <2>3. Numbered(lines', seqs')
    BY <1>2, <1>4, <2>1
  <2> QED
    BY <1>1, <1>2, <1>4, <1>9, <1>10, <2>1, <2>2, <2>3 DEF StreamInv
<1>11. CASE linked
  <2> HIDE DEF linked
  <2>1. lines' = IF stamps THEN Append(mid, y) ELSE mid
    <3>1. lines \in Seq(TextLine) /\ x \in TextLine /\ y \in TextLine
      BY <1>2, <1>7, <1>8, <1>11 DEF GoodLines, GoodLine
    <3> QED
      BY <1>1, <1>11, <3>1
  <2>2. GoodLines(mid)
    BY <1>2, <1>7, <1>11, OneLineMore
  <2>3. InOrder(mid) /\ Numbering(mid, seqs, c)
    BY <1>2, <1>4, <1>6, <1>7, <1>11, OrderOne
  <2>4. SitesFit(mid) /\ LiveFits(mid, DOMAIN live)
    BY <1>2, <1>6, <1>7, <1>11, SitesSkip, LiveSkip
  <2>5. HeapFits(mid, hp, unseen \ {a})
    <3>1. hp = [heap EXCEPT ![a] = x.to]
      BY <1>6 DEF hp
    <3> HIDE DEF mid
    <3> QED
      BY <1>2, <1>6, <1>7, <1>11, <3>1, HeapLink DEF mid
  <2> HIDE DEF mid
  <2>6. /\ GoodLines(lines') /\ InOrder(lines') /\ Numbering(lines', seqs, c) /\ SitesFit(lines')
        /\ LiveFits(lines', DOMAIN live) /\ HeapFits(lines', hp, unseen \ {a})
    <3>1. CASE ~stamps
      BY <2>1, <2>2, <2>3, <2>4, <2>5, <3>1
    <3>2. CASE stamps
      <4>1. GoodLines(Append(mid, y))
        BY <1>8, <1>11, <2>2, OneLineMore
      <4>2. InOrder(Append(mid, y)) /\ Numbering(Append(mid, y), seqs, c)
        BY <1>2, <1>6, <1>8, <1>11, <2>2, <2>3, OrderOne
      <4>3. SitesFit(Append(mid, y)) /\ LiveFits(Append(mid, y), DOMAIN live)
        BY <1>6, <1>8, <1>11, <2>2, <2>4, SitesSkip, LiveSkip
      <4>4. HeapFits(Append(mid, y), hp, unseen \ {a})
        BY <1>6, <1>8, <1>11, <2>2, <2>5, HeapSkip
      <4> QED
        BY <2>1, <3>2, <4>1, <4>2, <4>3, <4>4
    <3> QED
      BY <3>1, <3>2
  <2>7. Numbered(lines', seqs')
    BY <1>4, <2>6
  <2> QED
    BY <1>1, <1>2, <1>4, <1>9, <1>11, <2>6, <2>7 DEF StreamInv
<1> QED
  BY <1>10, <1>11

(* The lines are numbered and say what happened to blocks and pointers, in *)
(* every stream the engine writes (TopologyStream and its callers).        *)
THEOREM StreamInvariant == CheckSpec => []StreamInv
<1>1. StreamInv /\ UNCHANGED checkVars => StreamInv'
  BY DEF StreamInv, checkVars
<1>2. StreamInv /\ [CheckNext]_checkVars => StreamInv'
  BY <1>1, StreamAlloc, StreamFree, StreamStamp, StreamLink DEF CheckNext
<1> QED
  BY StreamInitInv, <1>2, PTL DEF CheckSpec

-----------------------------------------------------------------------------
(* The verdicts.                                                           *)

(* The graph of a stream: where each record comes from.                    *)
Sources(g, ha, hs, hl) ==
    LET N == Len(lines)
    IN /\ g.allocs \in Seq(Record) /\ g.stamps \in Seq(TextLine) /\ g.links \in Seq(TextLine)
       /\ Kept(ha, Len(g.allocs), lines, N, "ALLOC")
       /\ \A k \in 1 .. Len(g.allocs) : AllocFits(lines, N, ha[k], g.allocs[k])
       /\ Kept(hs, Len(g.stamps), lines, N, "STAMP")
       /\ \A k \in 1 .. Len(g.stamps) : g.stamps[k] = lines[hs[k]]
       /\ Kept(hl, Len(g.links), lines, N, "LINK")
       /\ \A k \in 1 .. Len(g.links) : g.links[k] = lines[hl[k]]
       /\ EdgesFit(lines, N, g.edges)

LEMMA BuildSources ==
    ASSUME StreamInv
    PROVE  \E ha, hs, hl : Sources(Build, ha, hs, hl)
<1> DEFINE g == Build
           N == Len(lines)
<1>1. GraphFits(lines, N, g)
  BY BuildFits DEF StreamInv
<1> HIDE DEF g
<1>2. PICK ha : Kept(ha, Len(g.allocs), lines, N, "ALLOC")
                /\ \A k \in 1 .. Len(g.allocs) : AllocFits(lines, N, ha[k], g.allocs[k])
  BY <1>1 DEF GraphFits, AllocsFit
<1>3. PICK hs : Kept(hs, Len(g.stamps), lines, N, "STAMP")
                /\ \A k \in 1 .. Len(g.stamps) : g.stamps[k] = lines[hs[k]]
  BY <1>1 DEF GraphFits, LinesFit
<1>4. PICK hl : Kept(hl, Len(g.links), lines, N, "LINK")
                /\ \A k \in 1 .. Len(g.links) : g.links[k] = lines[hl[k]]
  BY <1>1 DEF GraphFits, LinesFit
<1>5. /\ g.allocs \in Seq(Record) /\ g.stamps \in Seq(TextLine) /\ g.links \in Seq(TextLine)
      /\ EdgesFit(lines, N, g.edges)
  BY <1>1 DEF GraphFits, AllocsFit, LinesFit
<1>6. Sources(g, ha, hs, hl)
  BY <1>2, <1>3, <1>4, <1>5 DEF Sources
<1> QED
  BY <1>6 DEF g

(* Facts about the lines at hand.                                          *)
LEMMA LineFacts ==
    ASSUME StreamInv
    PROVE  /\ Len(lines) \in Nat /\ DOMAIN lines = 1 .. Len(lines)
           /\ \A i \in 1 .. Len(lines) : GoodLine(lines[i]) /\ lines[i].seq \in Nat
           /\ \A ty, a, i : i \in At(ty, a) <=> i \in 1 .. Len(lines) /\ Is(lines, i, ty, a)
<1>1. lines \in Seq(TextLine) /\ \A i \in 1 .. Len(lines) : GoodLine(lines[i])
  BY DEF StreamInv, GoodLines
<1>2. Len(lines) \in Nat /\ DOMAIN lines = 1 .. Len(lines)
  BY <1>1
<1>3. \A i \in 1 .. Len(lines) : lines[i].seq \in Nat
  BY <1>1 DEF GoodLine, TextLine
<1> QED
  BY <1>1, <1>2, <1>3 DEF At, Is

(* In a stream of one ring, the lines of WRITEs are in order, and those of *)
(* ALLOC and FREE and the stamps of their sites.                           *)
ByWrite(l) == l.ty = "LINK" \/ (l.ty = "STAMP" /\ l.src # "alloc")
LEMMA OneRingOrder ==
    ASSUME StreamInv, OneRing, NEW i \in 1 .. Len(lines), NEW j \in 1 .. Len(lines), i < j,
           ByWrite(lines[i]) <=> ByWrite(lines[j])
    PROVE  lines[i].seq <= lines[j].seq
<1>1. /\ DOMAIN lines = 1 .. Len(lines) /\ GoodLine(lines[i]) /\ GoodLine(lines[j])
  BY LineFacts
<1>2. lines[i].tid = lines[j].tid
  BY <1>1 DEF OneRing
<1>3. ASSUME NEW l, GoodLine(l)
      PROVE  Counter(l) = <<l.tid, IF ByWrite(l) THEN "jit" ELSE "call">>
  BY <1>3 DEF GoodLine, TextLine, Counter, ByWrite
<1>4. Counter(lines[i]) = Counter(lines[j])
  BY <1>1, <1>2, <1>3
<1> QED
  BY <1>4 DEF StreamInv, InOrder

(* The first stamp that counts, in the graph and in the stream.            *)
FirstStamps(a) == {i \in At("STAMP", a) : lines[i].src # "alloc"}
JudgedOf(g, a) == {i \in Judged(g) : g.stamps[i].addr = a}
LEMMA FirstStamp ==
    ASSUME StreamInv, NEW g, NEW ha, NEW hs, NEW hl, Sources(g, ha, hs, hl), NEW a
    PROVE  /\ JudgedOf(g, a) = {} <=> FirstStamps(a) = {}
           /\ FirstStamps(a) # {} =>
                 /\ g.stamps[Min(JudgedOf(g, a))] = lines[Min(FirstStamps(a))]
                 /\ Min(FirstStamps(a)) \in FirstStamps(a)
<1> DEFINE N == Len(lines)
           M == Len(g.stamps)
<1>1. /\ N \in Nat /\ \A ty, b, i : i \in At(ty, b) <=> i \in 1 .. N /\ Is(lines, i, ty, b)
  BY LineFacts
<1>2. /\ g.stamps \in Seq(TextLine) /\ Kept(hs, M, lines, N, "STAMP")
      /\ \A k \in 1 .. M : g.stamps[k] = lines[hs[k]]
  BY DEF Sources
<1>3. M \in Nat /\ DOMAIN g.stamps = 1 .. M
  BY <1>2
<1> HIDE DEF M, N
<1>4. /\ \A k \in 1 .. M : hs[k] \in 1 .. N /\ lines[hs[k]].ty = "STAMP"
      /\ \A k, m \in 1 .. M : k < m => hs[k] < hs[m]
      /\ \A i \in 1 .. N : lines[i].ty = "STAMP" => \E k \in 1 .. M : hs[k] = i
  BY <1>2 DEF Kept
<1>5. \A k : k \in JudgedOf(g, a) <=> k \in 1 .. M /\ hs[k] \in FirstStamps(a)
  BY <1>1, <1>2, <1>3, <1>4 DEF JudgedOf, Judged, NotAllocSite, FirstStamps, Is
<1>6. \A i \in FirstStamps(a) : \E k \in JudgedOf(g, a) : hs[k] = i
  BY <1>1, <1>4, <1>5 DEF FirstStamps, Is
<1>7. JudgedOf(g, a) \subseteq Nat /\ FirstStamps(a) \subseteq Nat
  BY <1>1, <1>3, <1>5 DEF FirstStamps
<1>8. ASSUME FirstStamps(a) # {}
      PROVE  /\ g.stamps[Min(JudgedOf(g, a))] = lines[Min(FirstStamps(a))]
             /\ Min(FirstStamps(a)) \in FirstStamps(a)
  <2> DEFINE S == JudgedOf(g, a)
             F == FirstStamps(a)
  <2>1. S # {} /\ S \in SUBSET Nat /\ F \in SUBSET Nat
    BY <1>6, <1>7, <1>8
  <2> HIDE DEF S, F
  <2>2. Min(S) \in S /\ (\A y \in S : Min(S) <= y)
    BY <2>1, MinIn
  <2>3. Min(F) \in F /\ (\A y \in F : Min(F) <= y)
    BY <1>8, <2>1, MinIn DEF F
  <2>4. PICK k \in S : hs[k] = Min(F)
    BY <1>6, <2>3 DEF S, F
  <2>5. k \in 1 .. M /\ Min(S) \in 1 .. M /\ hs[Min(S)] \in F
    BY <1>5, <2>2, <2>4 DEF S, F
  <2>6. k = Min(S)
    <3>1. Min(S) <= k /\ Min(F) <= hs[Min(S)]
      BY <2>2, <2>3, <2>4, <2>5
    <3>2. Min(S) < k => hs[Min(S)] < hs[k]
      BY <1>4, <2>5
    <3>3. hs[Min(S)] \in Nat /\ hs[k] \in Nat /\ Min(S) \in Nat /\ k \in Nat
      BY <2>1, <2>2, <2>3, <2>4, <2>5
    <3> QED
      BY <2>4, <3>1, <3>2, <3>3
  <2> QED
    BY <1>2, <2>3, <2>4, <2>5, <2>6 DEF S, F
<1> QED
  BY <1>5, <1>6, <1>8

LEMMA OrderIsJudged ==
    ASSUME StreamInv, NEW g, NEW ha, NEW hs, NEW hl, Sources(g, ha, hs, hl)
    PROVE  OrderJudged(g)
<1> SUFFICES ASSUME OneRing PROVE OrderJudged(g)
  BY DEF OrderJudged
<1> DEFINE N == Len(lines)
<1>1. /\ N \in Nat /\ DOMAIN lines = 1 .. N
      /\ \A i \in 1 .. N : GoodLine(lines[i]) /\ lines[i].seq \in Nat
      /\ \A ty, a, i : i \in At(ty, a) <=> i \in 1 .. N /\ Is(lines, i, ty, a)
  BY LineFacts
<1>2. /\ DOMAIN g.allocs = 1 .. Len(g.allocs) /\ DOMAIN g.stamps = 1 .. Len(g.stamps)
      /\ DOMAIN g.links = 1 .. Len(g.links)
  BY DEF Sources
<1>3. Ordered(g.allocs, DOMAIN g.allocs)
  <2> SUFFICES ASSUME NEW i \in 1 .. Len(g.allocs), NEW j \in 1 .. Len(g.allocs), i < j
               PROVE  g.allocs[i].seq <= g.allocs[j].seq
    BY <1>2 DEF Ordered
  <2>1. /\ ha[i] \in 1 .. N /\ ha[j] \in 1 .. N /\ ha[i] < ha[j]
        /\ lines[ha[i]].ty = "ALLOC" /\ lines[ha[j]].ty = "ALLOC"
    BY DEF Sources, Kept
  <2>2. lines[ha[i]].seq <= lines[ha[j]].seq
    BY <2>1, OneRingOrder DEF ByWrite
  <2> QED
    BY <2>2 DEF Sources, AllocFits
<1>4. Ordered(g.stamps, Judged(g))
  <2> SUFFICES ASSUME NEW i \in Judged(g), NEW j \in Judged(g), i < j
               PROVE  g.stamps[i].seq <= g.stamps[j].seq
    BY DEF Ordered
  <2>1. i \in 1 .. Len(g.stamps) /\ j \in 1 .. Len(g.stamps) /\ g.stamps[i].src # "alloc" /\ g.stamps[j].src # "alloc"
    BY <1>2 DEF Judged, NotAllocSite
  <2>2. /\ hs[i] \in 1 .. N /\ hs[j] \in 1 .. N /\ hs[i] < hs[j]
        /\ lines[hs[i]].ty = "STAMP" /\ lines[hs[j]].ty = "STAMP"
        /\ g.stamps[i] = lines[hs[i]] /\ g.stamps[j] = lines[hs[j]]
    BY <2>1 DEF Sources, Kept
  <2>3. lines[hs[i]].seq <= lines[hs[j]].seq
    BY <2>1, <2>2, OneRingOrder DEF ByWrite
  <2> QED
    BY <2>2, <2>3
<1>5. Ordered(g.links, DOMAIN g.links)
  <2> SUFFICES ASSUME NEW i \in 1 .. Len(g.links), NEW j \in 1 .. Len(g.links), i < j
               PROVE  g.links[i].seq <= g.links[j].seq
    BY <1>2 DEF Ordered
  <2>1. /\ hl[i] \in 1 .. N /\ hl[j] \in 1 .. N /\ hl[i] < hl[j]
        /\ lines[hl[i]].ty = "LINK" /\ lines[hl[j]].ty = "LINK"
        /\ g.links[i] = lines[hl[i]] /\ g.links[j] = lines[hl[j]]
    BY DEF Sources, Kept
  <2>2. lines[hl[i]].seq <= lines[hl[j]].seq
    BY <2>1, OneRingOrder DEF ByWrite
  <2> QED
    BY <2>1, <2>2
<1> DEFINE First(a) == Min(FirstStamps(a))
<1>6. StampBeforeLink(g) <=>
        \A j \in 1 .. N : lines[j].ty = "LINK" /\ FirstStamps(lines[j].to) # {} =>
            lines[j].seq >= lines[First(lines[j].to)].seq
  <2>1. StampBeforeLink(g) <=>
          \A l \in Range(g.links) : JudgedOf(g, l.to) # {} => l.seq >= g.stamps[Min(JudgedOf(g, l.to))].seq
    BY Zenon DEF StampBeforeLink, JudgedOf
  <2>2. \A l : l \in Range(g.links) <=> \E j \in 1 .. N : lines[j].ty = "LINK" /\ l = lines[j]
    <3>1. \A l : l \in Range(g.links) <=> \E k \in 1 .. Len(g.links) : l = g.links[k]
      BY <1>2 DEF Range
    <3>2. \A k \in 1 .. Len(g.links) : hl[k] \in 1 .. N /\ lines[hl[k]].ty = "LINK" /\ g.links[k] = lines[hl[k]]
      BY DEF Sources, Kept
    <3>3. \A j \in 1 .. N : lines[j].ty = "LINK" => \E k \in 1 .. Len(g.links) : hl[k] = j
      BY DEF Sources, Kept
    <3> HIDE DEF N
    <3> QED
      BY <3>1, <3>2, <3>3
  <2>3. \A a : /\ JudgedOf(g, a) = {} <=> FirstStamps(a) = {}
               /\ FirstStamps(a) # {} => g.stamps[Min(JudgedOf(g, a))] = lines[First(a)]
    BY FirstStamp
  <2>4. \A l : (JudgedOf(g, l.to) # {} => l.seq >= g.stamps[Min(JudgedOf(g, l.to))].seq) <=>
              (FirstStamps(l.to) # {} => l.seq >= lines[First(l.to)].seq)
    <3> TAKE l
    <3>1. CASE FirstStamps(l.to) = {}
      BY <2>3, <3>1
    <3>2. CASE FirstStamps(l.to) # {}
      <4>1. JudgedOf(g, l.to) # {} /\ g.stamps[Min(JudgedOf(g, l.to))] = lines[First(l.to)]
        BY <2>3, <3>2
      <4> HIDE DEF First
      <4> QED
        BY <3>2, <4>1
    <3> QED
      BY <3>1, <3>2
  <2> HIDE DEF N, First
  <2>5. StampBeforeLink(g) <=>
          \A l \in Range(g.links) : FirstStamps(l.to) # {} => l.seq >= lines[First(l.to)].seq
    BY <2>1, <2>4, Zenon
  <2> QED
    BY <2>2, <2>5, Zenon
<1>7. ASSUME NEW j \in 1 .. N, lines[j].ty = "LINK", NEW a, FirstStamps(a) # {}
      PROVE  lines[j].seq >= lines[First(a)].seq <=> j > First(a) \/ lines[j].seq = lines[First(a)].seq
  <2> DEFINE m == First(a)
  <2>1. m \in FirstStamps(a)
    <3>1. Min(FirstStamps(a)) \in FirstStamps(a)
      BY <1>7, FirstStamp
    <3> QED
      BY <3>1
  <2> HIDE DEF m
  <2>2. m \in 1 .. N /\ lines[m].ty = "STAMP" /\ lines[m].src # "alloc"
    BY <1>1, <2>1 DEF FirstStamps, Is
  <2>3. m < j => lines[m].seq <= lines[j].seq
    BY <1>7, <2>2, OneRingOrder DEF ByWrite
  <2>4. j < m => lines[j].seq <= lines[m].seq
    BY <1>7, <2>2, OneRingOrder DEF ByWrite
  <2>5. m # j /\ m \in Nat /\ j \in Nat /\ lines[j].seq \in Nat /\ lines[m].seq \in Nat
    BY <1>1, <1>7, <2>2
  <2>6. lines[j].seq >= lines[m].seq <=> j > m \/ lines[j].seq = lines[m].seq
    BY <2>3, <2>4, <2>5
  <2> QED
    BY <2>6 DEF m
<1>8. ASSUME NEW a, NEW j
      PROVE  j \in Uses(a) /\ lines[j].ty = "LINK" <=> j \in 1 .. N /\ lines[j].ty = "LINK" /\ lines[j].to = a
  BY <1>1 DEF Uses, Is
<1>9. \A j \in 1 .. N : lines[j].ty = "LINK" => lines[j].to \in Objs
  BY <1>1 DEF GoodLine
<1>10. StampBeforeLink(g) <=> \A a \in Objs :
          FirstStamps(a) # {} => \A j \in Uses(a) : lines[j].ty = "LINK" =>
              j > First(a) \/ lines[j].seq = lines[First(a)].seq
  <2> HIDE DEF N, First
  <2> QED
    BY <1>6, <1>7, <1>8, <1>9
<1>11. MonotonicSeq(g)
  BY <1>3, <1>4, <1>5 DEF MonotonicSeq
<1> QED
  BY <1>10, <1>11, Zenon DEF OrderJudged, FirstStamps

LEMMA UsesAreJudged ==
    ASSUME StreamInv, NEW g, NEW ha, NEW hs, NEW hl, Sources(g, ha, hs, hl)
    PROVE  UsesJudged(g)
<1> SUFFICES ASSUME OneRing, \A a \in Objs : \A i, j \in At("ALLOC", a) : i = j,
                    \A a \in Objs : \A i \in Uses(a) : lines[i].ty = "STAMP" /\ lines[i].src = "alloc"
             PROVE  NoUseAfterFree(g) /\ AllocBeforeStamp(g)
  BY Zenon DEF UsesJudged
<1> DEFINE N == Len(lines)
<1>1. /\ N \in Nat /\ DOMAIN lines = 1 .. N
      /\ \A i \in 1 .. N : GoodLine(lines[i]) /\ lines[i].seq \in Nat
      /\ \A ty, a, i : i \in At(ty, a) <=> i \in 1 .. N /\ Is(lines, i, ty, a)
  BY LineFacts
<1>2. /\ DOMAIN g.allocs = 1 .. Len(g.allocs) /\ DOMAIN g.stamps = 1 .. Len(g.stamps)
      /\ DOMAIN g.links = 1 .. Len(g.links)
  BY DEF Sources
<1>3. \A j \in 1 .. N : lines[j].ty # "LINK"
  <2> SUFFICES ASSUME NEW j \in 1 .. N, lines[j].ty = "LINK" PROVE FALSE
    OBVIOUS
  <2>1. lines[j].to \in Objs
    BY <1>1 DEF GoodLine
  <2>2. j \in Uses(lines[j].to)
    BY <1>1 DEF Uses
  <2> QED
    BY <2>1, <2>2
<1>4. Range(g.links) = {}
  <2>1. \A k \in 1 .. Len(g.links) : hl[k] \in 1 .. N /\ lines[hl[k]].ty = "LINK"
    BY DEF Sources, Kept
  <2> HIDE DEF N
  <2> QED
    BY <1>2, <1>3, <2>1 DEF Range
<1>5. \A l \in Range(g.stamps) : \E i \in 1 .. N :
         l = lines[i] /\ lines[i].ty = "STAMP" /\ lines[i].src = "alloc" /\ lines[i].addr \in Objs
  <2> SUFFICES ASSUME NEW k \in 1 .. Len(g.stamps)
               PROVE  \E i \in 1 .. N : /\ g.stamps[k] = lines[i] /\ lines[i].ty = "STAMP"
                                        /\ lines[i].src = "alloc" /\ lines[i].addr \in Objs
    BY <1>2 DEF Range
  <2> DEFINE i == hs[k]
  <2>1. i \in 1 .. N /\ lines[i].ty = "STAMP" /\ g.stamps[k] = lines[i]
    BY DEF Sources, Kept
  <2> HIDE DEF i
  <2>2. lines[i].addr \in Objs
    BY <1>1, <2>1 DEF GoodLine
  <2>3. i \in Uses(lines[i].addr)
    BY <1>1, <2>1 DEF Uses, Is
  <2> QED
    BY <2>1, <2>2, <2>3
(* What a stamp and a record of its address have to do with each other.    *)
<1>6. ASSUME NEW i \in 1 .. N, lines[i].ty = "STAMP", lines[i].src = "alloc", lines[i].addr \in Objs
      PROVE  /\ \E k \in 1 .. Len(g.allocs) :
                    g.allocs[k].addr = lines[i].addr /\ g.allocs[k].seq <= lines[i].seq
             /\ \A k \in 1 .. Len(g.allocs) :
                    g.allocs[k].addr = lines[i].addr /\ g.allocs[k].freed =>
                        lines[i].seq <= g.allocs[k].freeSeq
  <2> DEFINE a == lines[i].addr
  <2>1. PICK j \in 1 .. N : /\ Is(lines, j, "ALLOC", a) /\ j < i
                            /\ \A k \in 1 .. N : j < k /\ k < i => ~Is(lines, k, "FREE", a)
    BY <1>6 DEF StreamInv, SitesFit
  <2>2. lines[j].seq <= lines[i].seq
    BY <1>6, <2>1, OneRingOrder DEF ByWrite, Is
  <2>3. PICK k \in 1 .. Len(g.allocs) : ha[k] = j
    BY <2>1 DEF Sources, Kept, Is
  <2>4. g.allocs[k].addr = a /\ g.allocs[k].seq <= lines[i].seq
    BY <2>1, <2>2, <2>3 DEF Sources, AllocFits, Is
  <2>5. ASSUME NEW m \in 1 .. Len(g.allocs), g.allocs[m].addr = a, g.allocs[m].freed
        PROVE  lines[i].seq <= g.allocs[m].freeSeq
    <3>1. /\ AllocFits(lines, N, ha[m], g.allocs[m]) /\ ha[m] \in 1 .. N /\ lines[ha[m]].ty = "ALLOC"
      BY DEF Sources, Kept
    <3>2. Is(lines, ha[m], "ALLOC", a)
      BY <2>5, <3>1 DEF AllocFits, Is
    <3>3. ha[m] = j
      BY <1>1, <1>6, <2>1, <3>1, <3>2
    <3>4. PICK f \in 1 .. N : ha[m] < f /\ Is(lines, f, "FREE", a) /\ g.allocs[m].freeSeq = lines[f].seq
      BY <2>5, <3>1 DEF AllocFits
    <3>5. i < f
      <4>1. ~(f < i)
        BY <2>1, <3>3, <3>4
      <4>2. f # i
        BY <1>6, <3>4 DEF Is
      <4> QED
        BY <4>1, <4>2
    <3> QED
      BY <1>6, <3>4, <3>5, OneRingOrder DEF ByWrite, Is
  <2> QED
    BY <2>4, <2>5
<1>7. ASSUME NEW l \in Range(g.stamps) PROVE ~FreedBefore(g, l.addr, l.seq)
  <2>1. PICK i \in 1 .. N : /\ l = lines[i] /\ lines[i].ty = "STAMP"
                            /\ lines[i].src = "alloc" /\ lines[i].addr \in Objs
    BY <1>5
  <2> DEFINE recs == {k \in DOMAIN g.allocs : /\ g.allocs[k].addr = l.addr /\ g.allocs[k].freed
                                               /\ g.allocs[k].freeSeq > 0}
  <2>2. ASSUME recs # {} PROVE ~(l.seq > g.allocs[Max(recs)].freeSeq)
    <3> DEFINE m == Max(recs)
    <3>1. Len(g.allocs) \in Nat /\ recs \in SUBSET (0 .. Len(g.allocs)) /\ g.allocs \in Seq(Record)
      BY <1>2 DEF Sources
    <3>2. m \in recs
      <4> HIDE DEF recs
      <4> QED
        BY <2>2, <3>1, MaxIn
    <3> HIDE DEF m
    <3>3. m \in 1 .. Len(g.allocs) /\ g.allocs[m].addr = lines[i].addr /\ g.allocs[m].freed
      BY <1>2, <2>1, <3>2
    <3>4. lines[i].seq <= g.allocs[m].freeSeq
      BY <1>6, <2>1, <3>3
    <3>5. g.allocs[m].freeSeq \in Nat
      <4>1. g.allocs[m] \in Record
        BY <3>1, <3>3
      <4> QED
        BY <4>1 DEF Record
    <3>6. ~(lines[i].seq > g.allocs[m].freeSeq)
      BY <1>1, <3>4, <3>5
    <3> QED
      BY <2>1, <3>6 DEF m
  <2> HIDE DEF recs
  <2>3. FreedBefore(g, l.addr, l.seq) <=> recs # {} /\ l.seq > g.allocs[Max(recs)].freeSeq
    BY Zenon DEF FreedBefore, recs
  <2> QED
    BY <2>2, <2>3
<1>8. NoUseAfterFree(g)
  BY <1>4, <1>7 DEF NoUseAfterFree
<1>9. AllocBeforeStamp(g)
  <2> SUFFICES ASSUME NEW l \in Range(g.stamps)
               PROVE  \E r \in Range(g.allocs) : r.addr = l.addr /\ r.seq <= l.seq
    BY DEF AllocBeforeStamp
  <2>1. PICK i \in 1 .. N : /\ l = lines[i] /\ lines[i].ty = "STAMP"
                            /\ lines[i].src = "alloc" /\ lines[i].addr \in Objs
    BY <1>5
  <2>2. PICK k \in 1 .. Len(g.allocs) : g.allocs[k].addr = lines[i].addr /\ g.allocs[k].seq <= lines[i].seq
    BY <1>6, <2>1
  <2>3. g.allocs[k] \in Range(g.allocs)
    BY <1>2 DEF Range
  <2> QED
    BY <2>1, <2>2, <2>3
<1> QED
  BY <1>8, <1>9

LEMMA LiveIsCounted ==
    ASSUME StreamInv, NEW g, NEW ha, NEW hs, NEW hl, Sources(g, ha, hs, hl)
    PROVE  LiveCounted(g)
<1> SUFFICES ASSUME \A a \in Objs : \A i, j \in At("ALLOC", a) :
                        i < j => \E k \in At("FREE", a) : i < k /\ k < j
             PROVE  LiveAllocCount(g) = Cardinality(DOMAIN live)
  BY Zenon DEF LiveCounted
<1> DEFINE N == Len(lines)
           M == Len(g.allocs)
           open == {i \in DOMAIN g.allocs : ~g.allocs[i].freed}
           f == [k \in open |-> g.allocs[k].addr]
<1>1. /\ N \in Nat /\ DOMAIN lines = 1 .. N
      /\ \A i \in 1 .. N : GoodLine(lines[i]) /\ lines[i].seq \in Nat
      /\ \A ty, a, i : i \in At(ty, a) <=> i \in 1 .. N /\ Is(lines, i, ty, a)
  BY LineFacts
<1>2. M \in Nat /\ DOMAIN g.allocs = 1 .. M
  BY DEF Sources
<1>3. NoResize(lines, N)
  BY <1>1 DEF NoResize
<1>4. ASSUME NEW k \in 1 .. M
      PROVE  /\ AllocFits(lines, N, ha[k], g.allocs[k]) /\ ha[k] \in 1 .. N
             /\ Is(lines, ha[k], "ALLOC", g.allocs[k].addr) /\ g.allocs[k].addr \in Objs
  <2>1. AllocFits(lines, N, ha[k], g.allocs[k]) /\ ha[k] \in 1 .. N /\ lines[ha[k]].ty = "ALLOC"
    BY DEF Sources, Kept
  <2>2. lines[ha[k]].addr \in Objs
    BY <1>1, <2>1 DEF GoodLine
  <2> QED
    BY <2>1, <2>2 DEF AllocFits, Is
<1>5. ASSUME NEW k \in 1 .. M
      PROVE  ~g.allocs[k].freed <=> Unfreed(lines, ha[k], g.allocs[k].addr)
  <2>1. ~g.allocs[k].freed => \A j \in 1 .. N : ha[k] < j => ~Is(lines, j, "FREE", g.allocs[k].addr)
    BY <1>3, <1>4 DEF AllocFits
  <2>2. g.allocs[k].freed => \E j \in 1 .. N : ha[k] < j /\ Is(lines, j, "FREE", g.allocs[k].addr)
    BY <1>4 DEF AllocFits
  <2> QED
    BY <1>4, <2>1, <2>2 DEF Unfreed
<1>6. LiveFits(lines, DOMAIN live) /\ DOMAIN live \subseteq Objs
  BY DEF StreamInv
<1>7. \A k : k \in open <=> k \in 1 .. M /\ ~g.allocs[k].freed
  BY <1>2
<1> HIDE DEF open, M
<1>8. f \in [open -> DOMAIN live]
  <2> SUFFICES ASSUME NEW k \in open PROVE g.allocs[k].addr \in DOMAIN live
    OBVIOUS
  <2>1. k \in 1 .. M /\ Unfreed(lines, ha[k], g.allocs[k].addr)
    BY <1>5, <1>7
  <2> QED
    BY <1>4, <1>6, <2>1 DEF LiveFits
<1>9. ASSUME NEW k \in open, NEW m \in open, f[k] = f[m], k < m PROVE FALSE
  <2> DEFINE a == g.allocs[k].addr
  <2>1. /\ k \in 1 .. M /\ m \in 1 .. M /\ g.allocs[m].addr = a
        /\ Unfreed(lines, ha[k], a)
    BY <1>5, <1>7, <1>9
  <2>2. ha[k] < ha[m]
    BY <1>9, <2>1 DEF Sources, Kept, M
  <2>3. ha[k] \in 1 .. N /\ ha[m] \in 1 .. N /\ Is(lines, ha[k], "ALLOC", a) /\ Is(lines, ha[m], "ALLOC", a) /\ a \in Objs
    BY <1>4, <2>1
  <2> QED
    BY <1>3, <2>1, <2>2, <2>3 DEF NoResize, Unfreed
<1>10. f \in Injection(open, DOMAIN live)
  <2>1. \A k, m \in open : f[k] = f[m] => k = m
    <3> SUFFICES ASSUME NEW k \in open, NEW m \in open, f[k] = f[m], k # m PROVE FALSE
      OBVIOUS
    <3>1. k \in Nat /\ m \in Nat
      BY <1>2, <1>7
    <3>2. k < m \/ m < k
      BY <3>1
    <3> HIDE DEF f
    <3> QED
      BY <1>9, <3>2
  <2> HIDE DEF f
  <2> QED
    BY <1>8, <2>1 DEF Injection, IsInjective
<1>11. f \in Surjection(open, DOMAIN live)
  <2>1. ASSUME NEW a \in DOMAIN live PROVE \E k \in open : f[k] = a
    <3>1. PICK j \in 1 .. N : Unfreed(lines, j, a)
      BY <1>6 DEF LiveFits
    <3>2. PICK k \in 1 .. M : ha[k] = j
      BY <3>1 DEF Sources, Kept, Unfreed, Is, M
    <3>3. g.allocs[k].addr = a
      BY <1>4, <3>1, <3>2 DEF Unfreed, Is
    <3>4. k \in open
      BY <1>5, <1>7, <3>1, <3>2, <3>3
    <3> QED
      BY <3>3, <3>4
  <2> HIDE DEF f
  <2> QED
    BY <1>8, <2>1 DEF Surjection
<1>12. ExistsBijection(open, DOMAIN live)
  BY <1>10, <1>11 DEF ExistsBijection, Bijection
<1>13. IsFiniteSet(open)
  <2>1. open \in SUBSET (1 .. M)
    BY <1>7
  <2>2. IsFiniteSet(1 .. M)
    BY <1>2, FS_Interval
  <2> QED
    BY <2>1, <2>2, FS_Subset
<1>14. Cardinality(open) = Cardinality(DOMAIN live)
  BY <1>12, <1>13, FS_Bijection
<1> QED
  BY <1>14 DEF LiveAllocCount, open

-----------------------------------------------------------------------------
(* Chains.                                                                 *)

(* Where an edge leads, and the first n steps of a walk (at of Walk).      *)
Target(edges, a) == IF a \in DOMAIN edges THEN edges[a] ELSE 0
Walked(f, edges, start, n) ==
    f = [i \in 0 .. n |-> IF i = 0 THEN start ELSE IF f[i - 1] = 0 THEN 0 ELSE Target(edges, f[i - 1])]

LEMMA WalkCourse ==
    ASSUME NEW g, NEW start, Cardinality(DOMAIN g.edges) \in Nat
    PROVE  \E f : /\ Walked(f, g.edges, start, Cardinality(DOMAIN g.edges))
                  /\ Walk(g, start) = Cardinality({f[i] : i \in 0 .. Cardinality(DOMAIN g.edges)} \ {0})
<1> DEFINE E == g.edges
           M == Cardinality(DOMAIN E)
           T == {n \in Nat : \E f : Walked(f, E, start, n)}
<1>1. 0 \in T
  <2> DEFINE f == [i \in 0 .. 0 |-> start]
  <2>1. Walked(f, E, start, 0)
    BY DEF Walked
  <2> QED
    BY <2>1
<1>2. ASSUME NEW n \in Nat, n \in T PROVE n + 1 \in T
  <2>1. PICK f : Walked(f, E, start, n)
    BY <1>2
  <2> DEFINE Step(h, i) == IF i = 0 THEN start ELSE IF h[i - 1] = 0 THEN 0 ELSE Target(E, h[i - 1])
             h == [i \in 0 .. n + 1 |->
                      IF i = n + 1 THEN IF f[n] = 0 THEN 0 ELSE Target(E, f[n]) ELSE f[i]]
  <2>2. \A i \in 0 .. n : h[i] = f[i] /\ f[i] = Step(f, i)
    BY <2>1 DEF Walked
  <2>3. h[n + 1] = IF f[n] = 0 THEN 0 ELSE Target(E, f[n])
    OBVIOUS
  <2>4. DOMAIN h = 0 .. n + 1 /\ h = [i \in 0 .. n + 1 |-> h[i]]
    OBVIOUS
  <2> HIDE DEF h, E
  <2>5. \A i \in 0 .. n + 1 : h[i] = Step(h, i)
    <3> TAKE i \in 0 .. n + 1
    <3>1. CASE i = n + 1
      <4>1. (n + 1) - 1 = n /\ n \in 0 .. n /\ n + 1 # 0
        OBVIOUS
      <4> QED
        BY <2>2, <2>3, <3>1, <4>1
    <3>2. CASE i # n + 1
      <4>1. i \in 0 .. n /\ (i # 0 => i - 1 \in 0 .. n)
        BY <3>2
      <4> QED
        BY <2>2, <4>1
    <3> QED
      BY <3>1, <3>2
  <2>6. Walked(h, E, start, n + 1)
    BY <2>4, <2>5 DEF Walked
  <2> QED
    BY <2>6
<1>3. \A n \in Nat : n \in T
  <2> HIDE DEF T
  <2> QED
    BY <1>1, <1>2, NatByInduction
<1> DEFINE c == CHOOSE f : Walked(f, E, start, M)
<1>4. Walked(c, E, start, M)
  <2>1. \E f : Walked(f, E, start, M)
    BY <1>3
  <2> QED
    BY <2>1
<1>5. DOMAIN c = 0 .. M
  BY <1>4 DEF Walked
<1>6. Walk(g, start) = Cardinality({c[i] : i \in DOMAIN c} \ {0})
  BY DEF Walk, Walked, Target
<1> HIDE DEF c
<1> QED
  BY <1>4, <1>5, <1>6

(* A walk that follows the target's pointers, as many steps as there are   *)
(* edges, meets exactly what the start reaches: with one step more it      *)
(* would have come back to an object it had met.                           *)
LEMMA WalkReaches ==
    ASSUME NEW edges, DOMAIN edges \subseteq Objs, heap \in [Objs -> Objs \cup {0}],
           \A x \in Objs : Target(edges, x) = heap[x],
           NEW a \in Objs, NEW f, Walked(f, edges, a, Cardinality(DOMAIN edges))
    PROVE  {f[i] : i \in 0 .. Cardinality(DOMAIN edges)} \ {0} = Reach(a)
<1> DEFINE D == DOMAIN edges
           M == Cardinality(D)
           U == {f[i] : i \in 0 .. M} \ {0}
           nil == [x \in Objs \cup {0} |-> IF x = 0 THEN 0 ELSE heap[x]]
<1>1. 0 \notin Objs /\ IsFiniteSet(Objs)
  BY CheckAssumption
<1>2. IsFiniteSet(D) /\ M \in Nat
  <2>1. IsFiniteSet(D)
    BY <1>1, FS_Subset
  <2> QED
    BY <2>1, FS_CardinalityType
<1>3. f[0] = a /\ \A i \in 0 .. M : i # 0 => f[i] = IF f[i - 1] = 0 THEN 0 ELSE Target(edges, f[i - 1])
  BY <1>2 DEF Walked
<1> HIDE DEF M, D
(* Every step is that of the heap.                                         *)
<1>4. \A i \in 0 .. M : f[i] \in Objs \cup {0}
  <2> DEFINE T == {n \in Nat : n <= M => f[n] \in Objs \cup {0}}
  <2>1. 0 \in T
    BY <1>3
  <2>2. ASSUME NEW n \in Nat, n \in T PROVE n + 1 \in T
    <3> SUFFICES ASSUME n + 1 <= M PROVE f[n + 1] \in Objs \cup {0}
      OBVIOUS
    <3>1. n + 1 \in 0 .. M /\ n + 1 # 0 /\ (n + 1) - 1 = n /\ n <= M
      BY <1>2
    <3>2. f[n + 1] = IF f[n] = 0 THEN 0 ELSE Target(edges, f[n])
      BY <1>3, <3>1, Zenon
    <3>3. f[n] \in Objs \cup {0}
      BY <2>2, <3>1
    <3> QED
      BY <3>2, <3>3
  <2>3. \A n \in Nat : n \in T
    <3> HIDE DEF T
    <3> QED
      BY <2>1, <2>2, NatByInduction
  <2> QED
    BY <1>2, <2>3
<1>5. \A i \in 0 .. M : i + 1 <= M => f[i + 1] = nil[f[i]]
  <2> TAKE i \in 0 .. M
  <2> HAVE i + 1 <= M
  <2>1. i + 1 \in 0 .. M /\ i + 1 # 0 /\ (i + 1) - 1 = i
    BY <1>2
  <2>2. f[i + 1] = IF f[i] = 0 THEN 0 ELSE Target(edges, f[i])
    BY <1>3, <2>1, Zenon
  <2> QED
    BY <1>4, <2>2
<1>6. nil[0] = 0 /\ \A x \in Objs : nil[x] = heap[x] /\ (nil[x] # 0 => x \in D)
  BY <1>1 DEF Target, D
<1> HIDE DEF nil
<1>7. U \subseteq Objs /\ a \in U /\ \A x : x \in U <=> x # 0 /\ \E i \in 0 .. M : f[i] = x
  BY <1>1, <1>2, <1>3, <1>4
<1> HIDE DEF U
(* What is met is reached.                                                 *)
<1>8. U \subseteq Reach(a)
  <2> SUFFICES ASSUME NEW S \in SUBSET Objs, a \in S, \A x \in S : heap[x] # 0 => heap[x] \in S
               PROVE  \A b \in U : b \in S
    BY <1>7 DEF Reach
  <2> DEFINE T == {n \in Nat : n <= M => f[n] \in S \cup {0}}
  <2>1. 0 \in T
    BY <1>3
  <2>2. ASSUME NEW n \in Nat, n \in T PROVE n + 1 \in T
    <3> SUFFICES ASSUME n + 1 <= M PROVE f[n + 1] \in S \cup {0}
      OBVIOUS
    <3>1. n \in 0 .. M /\ n <= M
      BY <1>2
    <3>2. f[n + 1] = nil[f[n]]
      BY <1>5, <3>1
    <3>3. f[n] \in S \cup {0}
      BY <2>2, <3>1
    <3> QED
      BY <1>6, <3>2, <3>3
  <2>3. \A n \in Nat : n \in T
    <3> HIDE DEF T
    <3> QED
      BY <2>1, <2>2, NatByInduction
  <2>4. \A i \in 0 .. M : f[i] \in S \cup {0}
    BY <1>2, <2>3
  <2> QED
    BY <1>7, <2>4
(* What is met is closed under the pointers.                               *)
<1>9. ASSUME f[M] # 0, nil[f[M]] # 0 PROVE \E i \in 0 .. M : f[i] = nil[f[M]]
  <2>1. \A i \in 0 .. M : f[i] # 0
    <3> DEFINE T == {n \in Nat : n <= M => f[M - n] # 0}
    <3>1. 0 \in T
      BY <1>2, <1>9
    <3>2. ASSUME NEW n \in Nat, n \in T PROVE n + 1 \in T
      <4> SUFFICES ASSUME n + 1 <= M PROVE f[M - (n + 1)] # 0
        OBVIOUS
      <4> DEFINE k == M - (n + 1)
      <4>1. k \in 0 .. M /\ k + 1 <= M /\ k + 1 = M - n /\ n <= M
        BY <1>2
      <4> HIDE DEF k
      <4>2. f[k + 1] = nil[f[k]] /\ f[k + 1] # 0
        BY <1>5, <3>2, <4>1
      <4>3. f[k] # 0
        BY <1>6, <4>2
      <4> QED
        BY <4>3 DEF k
    <3>3. \A n \in Nat : n \in T
      <4> HIDE DEF T
      <4> QED
        BY <3>1, <3>2, NatByInduction
    <3> TAKE i \in 0 .. M
    <3>4. M - i \in Nat /\ M - i <= M /\ M - (M - i) = i
      BY <1>2
    <3>5. M - i \in T
      BY <3>3, <3>4
    <3> QED
      BY <3>4, <3>5
  <2>2. \A i \in 0 .. M : f[i] \in D
    <3> TAKE i \in 0 .. M
    <3>1. nil[f[i]] # 0
      <4>1. CASE i = M
        BY <1>9, <4>1
      <4>2. CASE i # M
        <5>1. i + 1 <= M /\ i + 1 \in 0 .. M
          BY <1>2, <4>2
        <5>2. f[i + 1] = nil[f[i]] /\ f[i + 1] # 0
          BY <1>5, <2>1, <5>1
        <5> QED
          BY <5>2
      <4> QED
        BY <4>1, <4>2
    <3> QED
      BY <1>4, <1>6, <2>1, <3>1
  <2> DEFINE w == [i \in 0 .. M |-> f[i]]
  <2>3. w \in [0 .. M -> D]
    BY <2>2
  <2>4. IsFiniteSet(0 .. M) /\ Cardinality(D) < Cardinality(0 .. M)
    <3>1. IsFiniteSet(0 .. M) /\ Cardinality(0 .. M) = M + 1
      BY <1>2, FS_Interval
    <3> QED
      BY <1>2, <3>1 DEF M
  <2>5. PICK p \in 0 .. M, q \in 0 .. M : p # q /\ f[p] = f[q]
    <3>1. \E p, q \in 0 .. M : p # q /\ w[p] = w[q]
      <4> HIDE DEF w
      <4> QED
        BY <1>2, <2>3, <2>4, FS_PigeonHole
    <3> QED
      BY <3>1
  <2>6. PICK i \in 0 .. M, j \in 0 .. M : i < j /\ f[i] = f[j]
    <3>1. p < q \/ q < p
      BY <2>5
    <3> QED
      BY <2>5, <3>1
  <2> DEFINE T == {n \in Nat : j + n <= M => f[i + n] = f[j + n]}
  <2>7. 0 \in T
    BY <2>6
  <2>8. ASSUME NEW n \in Nat, n \in T PROVE n + 1 \in T
    <3> SUFFICES ASSUME j + (n + 1) <= M PROVE f[i + (n + 1)] = f[j + (n + 1)]
      OBVIOUS
    <3>1. /\ i + n \in 0 .. M /\ (i + n) + 1 <= M /\ i + (n + 1) = (i + n) + 1
          /\ j + n \in 0 .. M /\ (j + n) + 1 <= M /\ j + (n + 1) = (j + n) + 1 /\ j + n <= M
      BY <1>2, <2>6
    <3>2. f[i + n] = f[j + n]
      BY <2>8, <3>1
    <3>3. f[(i + n) + 1] = nil[f[i + n]] /\ f[(j + n) + 1] = nil[f[j + n]]
      BY <1>5, <3>1
    <3> QED
      BY <3>1, <3>2, <3>3
  <2>9. M - j \in T
    <3>1. M - j \in Nat
      BY <1>2
    <3>2. \A n \in Nat : n \in T
      <4> HIDE DEF T
      <4> QED
        BY <2>7, <2>8, NatByInduction
    <3> QED
      BY <3>1, <3>2
  <2> DEFINE k == i + (M - j)
  <2>10. k \in 0 .. M /\ k + 1 <= M /\ k + 1 \in 0 .. M /\ j + (M - j) = M
    BY <1>2, <2>6
  <2>11. f[k] = f[M]
    BY <1>2, <2>9, <2>10
  <2> HIDE DEF k
  <2>12. f[k + 1] = nil[f[M]]
    BY <1>5, <2>10, <2>11
  <2> QED
    BY <2>10, <2>12
<1>10. \A x \in U : heap[x] # 0 => heap[x] \in U
  <2> SUFFICES ASSUME NEW x \in U, heap[x] # 0 PROVE heap[x] \in U
    OBVIOUS
  <2>1. PICK i \in 0 .. M : f[i] = x
    BY <1>7
  <2>2. x \in Objs /\ x # 0 /\ nil[x] = heap[x]
    BY <1>6, <1>7
  <2>3. \E k \in 0 .. M : f[k] = heap[x]
    <3>1. CASE i = M
      BY <1>9, <2>1, <2>2, <3>1
    <3>2. CASE i # M
      <4>1. i + 1 <= M /\ i + 1 \in 0 .. M
        BY <1>2, <3>2
      <4> QED
        BY <1>5, <2>1, <2>2, <4>1
    <3> QED
      BY <3>1, <3>2
  <2> QED
    BY <1>7, <2>3
<1>11. Reach(a) \subseteq U
  BY <1>7, <1>10 DEF Reach
<1>12. U = Reach(a)
  BY <1>8, <1>11
<1> QED
  BY <1>12 DEF U, M, D

LEMMA ChainIsMeasured ==
    ASSUME StreamInv, NEW g, NEW ha, NEW hs, NEW hl, Sources(g, ha, hs, hl)
    PROVE  ChainMeasured(g)
<1> SUFFICES ASSUME unseen = {},
                    \A a \in Objs : \A j \in At("LINK", a + FieldOff) : \E i \in At("STAMP", a) : i < j
             PROVE  ChainLength(g) = Max({0} \cup {Cardinality(Reach(l.addr)) :
                                     l \in {k \in Range(lines) : k.ty = "STAMP"}})
  BY Zenon DEF ChainMeasured
<1> DEFINE N == Len(lines)
           L == {k \in Range(lines) : k.ty = "STAMP"}
<1>1. /\ N \in Nat /\ DOMAIN lines = 1 .. N
      /\ \A i \in 1 .. N : GoodLine(lines[i])
      /\ \A ty, a, i : i \in At(ty, a) <=> i \in 1 .. N /\ Is(lines, i, ty, a)
  BY LineFacts
<1>2. StampsFirst(lines, N)
  BY <1>1 DEF StampsFirst
<1>3. /\ DOMAIN g.edges \subseteq Objs
      /\ \A a \in Objs : \A j \in 1 .. N : Is(lines, j, "LINK", a + FieldOff) => a \in DOMAIN g.edges
      /\ \A a \in DOMAIN g.edges : \E j \in 1 .. N : LastLink(lines, N, j, a) /\ lines[j].to = g.edges[a]
  BY <1>2 DEF Sources, EdgesFit
<1>4. /\ heap \in [Objs -> Objs \cup {0}]
      /\ \A a \in Objs :
            /\ heap[a] = 0 => \A j \in 1 .. N : ~Is(lines, j, "LINK", a + FieldOff)
            /\ heap[a] # 0 => \E j \in 1 .. N : LastLink(lines, N, j, a) /\ lines[j].to = heap[a]
  BY DEF StreamInv, HeapFits
<1>5. ASSUME NEW a \in Objs PROVE Target(g.edges, a) = heap[a]
  <2>1. CASE a \notin DOMAIN g.edges
    <3>1. heap[a] = 0
      BY <1>3, <1>4, <2>1 DEF LastLink
    <3> QED
      BY <2>1, <3>1 DEF Target
  <2>2. CASE a \in DOMAIN g.edges
    <3>1. PICK j \in 1 .. N : LastLink(lines, N, j, a) /\ lines[j].to = g.edges[a]
      BY <1>3, <2>2
    <3>2. heap[a] # 0
      BY <1>4, <3>1 DEF LastLink
    <3>3. PICK k \in 1 .. N : LastLink(lines, N, k, a) /\ lines[k].to = heap[a]
      BY <1>4, <3>2
    <3>4. j = k
      <4>1. ~(j < k) /\ ~(k < j)
        BY <3>1, <3>3 DEF LastLink
      <4> QED
        BY <1>1, <4>1
    <3> QED
      BY <2>2, <3>1, <3>3, <3>4 DEF Target
  <2> QED
    BY <2>1, <2>2
<1>6. Cardinality(DOMAIN g.edges) \in Nat
  <2>1. IsFiniteSet(DOMAIN g.edges)
    BY <1>3, CheckAssumption, FS_Subset
  <2> QED
    BY <2>1, FS_CardinalityType
<1>7. \A a \in Objs : Walk(g, a) = Cardinality(Reach(a))
  <2> TAKE a \in Objs
  <2>1. PICK f : /\ Walked(f, g.edges, a, Cardinality(DOMAIN g.edges))
                 /\ Walk(g, a) = Cardinality({f[i] : i \in 0 .. Cardinality(DOMAIN g.edges)} \ {0})
    BY <1>6, WalkCourse
  <2>2. {f[i] : i \in 0 .. Cardinality(DOMAIN g.edges)} \ {0} = Reach(a)
    BY <1>3, <1>4, <1>5, <2>1, WalkReaches
  <2> QED
    BY <2>1, <2>2, Zenon
<1>8. Range(g.stamps) = L
  <2>1. \A l : l \in Range(g.stamps) <=> \E k \in 1 .. Len(g.stamps) : l = g.stamps[k]
    BY DEF Sources, Range
  <2>2. \A l : l \in L <=> \E i \in 1 .. N : l = lines[i] /\ lines[i].ty = "STAMP"
    BY <1>1 DEF Range
  <2>3. \A k \in 1 .. Len(g.stamps) : hs[k] \in 1 .. N /\ lines[hs[k]].ty = "STAMP" /\ g.stamps[k] = lines[hs[k]]
    BY DEF Sources, Kept
  <2>4. \A i \in 1 .. N : lines[i].ty = "STAMP" => \E k \in 1 .. Len(g.stamps) : hs[k] = i
    BY DEF Sources, Kept
  <2> DEFINE R == Range(g.stamps)
  <2> HIDE DEF N, L, R
  <2>5. ASSUME NEW l \in R PROVE l \in L
    BY <2>1, <2>2, <2>3 DEF R
  <2>6. ASSUME NEW l \in L PROVE l \in R
    BY <2>1, <2>2, <2>3, <2>4 DEF R
  <2>7. R = L
    BY <2>5, <2>6
  <2> QED
    BY <2>7 DEF R
<1>9. \A l \in L : l.addr \in Objs
  BY <1>1 DEF Range, GoodLine
<1> HIDE DEF L
<1>10. {Walk(g, l.addr) : l \in Range(g.stamps)} = {Cardinality(Reach(l.addr)) : l \in L}
  BY <1>7, <1>8, <1>9
<1> QED
  BY <1>10, Zenon DEF ChainLength, L

(* What rtmap-check concludes from the graph it builds (eval_one) is true  *)
(* of the target, under the conditions each verdict needs.                 *)
THEOREM VerdictsAlwaysExact == CheckSpec => []VerdictsExact
<1>1. StreamInv => VerdictsExact
  <2> SUFFICES ASSUME StreamInv PROVE VerdictsExact
    OBVIOUS
  <2>1. PICK ha, hs, hl : Sources(Build, ha, hs, hl)
    BY BuildSources
  <2> QED
    BY <2>1, OrderIsJudged, UsesAreJudged, LiveIsCounted, ChainIsMeasured DEF VerdictsExact
<1> QED
  BY <1>1, StreamInvariant, PTL

-----------------------------------------------------------------------------
(* The comparison of two recordings.                                      *)

(* What one replay holds: the world, the registry, the checkpoints.        *)
Held(w, r, c) == [world |-> w, registry |-> r, cks |-> c]

(* What event e does to a replay of a run loaded at b.                     *)
Topology(w, e, r, b) ==
    CASE e[1] = "learn" -> [w EXCEPT !.stamps = @ \cup {e[2]}]
      [] e[1] = "reach" -> [w EXCEPT !.stamps = @ \cup ({e[2]} \cap r)]
      [] e[1] = "free" -> [w EXCEPT !.stamps = @ \ {e[2]}]
      [] e[1] = "hazard" -> [w EXCEPT !.hazards = @ \cup {e[2] + b}]
      [] OTHER -> w
After(h, e, b) ==
    LET w == Topology([h.world EXCEPT !.seq = @ + 1], e, h.registry, b)
        due == w.seq >= w.next
        shot == e[1] = "snapshot"
    IN Held(IF shot THEN [w EXCEPT !.seq = h.world.seq + SnapSlots]
            ELSE IF due THEN [w EXCEPT !.next = NextCheckpoint(w)] ELSE w,
            IF e[1] = "learn" THEN h.registry \cup {e[2]} ELSE h.registry,
            IF ~shot /\ due THEN Append(h.cks, Checkpoint(w)) ELSE h.cks)

(* f is the course of a replay of l from registry r to what is held at the *)
(* end.                                                                    *)
Course(f, l, r, b, held) ==
    /\ f[0] = Held(FreshWorld, r, <<>>)
    /\ \A i \in 1 .. Len(l) : f[i] = After(f[i - 1], l[i], b)
    /\ f[Len(l)] = held
Replayed(l, r, b, held) == \E f : Course(f, l, r, b, held)

(* The types a recording learns.                                           *)
Learned(l) == {ty \in TypeNames : \E i \in DOMAIN l : l[i] = <<"learn", ty>>}

(* A recording whose checkpoints are taken, the last one included.         *)
Finished(s, r) ==
    \E w, g, c : /\ Replayed(log[s], r, base[s], Held(w, g, c))
                 /\ cks[s] = Append(c, Checkpoint(w))

DiffTypes ==
    /\ side \in Sides \cup {"done"}
    /\ log \in [Sides -> Seq(Events)]
    /\ DOMAIN cks = Sides /\ \A s \in Sides : \E T : cks[s] \in Seq(T)

DInv ==
    /\ DiffTypes
    /\ side = "a" => /\ Replayed(log.a, {}, base.a, Held(world, registry, cks.a))
                     /\ log.b = <<>> /\ cks.b = <<>> /\ registry = Learned(log.a)
    /\ side = "b" => /\ Finished("a", {})
                     /\ Replayed(log.b, Learned(log.a), base.b, Held(world, registry, cks.b))
    /\ side = "done" => Finished("a", {}) /\ Finished("b", Learned(log.a))

-----------------------------------------------------------------------------
(* Nothing is replayed: a fresh world.                                     *)
LEMMA ReplayedNothing ==
    ASSUME NEW r, NEW b
    PROVE  Replayed(<<>>, r, b, Held(FreshWorld, r, <<>>))
<1> DEFINE f == [i \in {0} |-> Held(FreshWorld, r, <<>>)]
<1>1. Course(f, <<>>, r, b, Held(FreshWorld, r, <<>>))
  BY DEF Course
<1> QED
  BY <1>1 DEF Replayed

(* One more event.                                                         *)
LEMMA ReplayedOne ==
    ASSUME NEW S, NEW l \in Seq(S), NEW e \in S, NEW r, NEW b, NEW h, Replayed(l, r, b, h)
    PROVE  Replayed(Append(l, e), r, b, After(h, e, b))
<1>1. PICK f : Course(f, l, r, b, h)
  BY DEF Replayed
<1> DEFINE m == Append(l, e)
           g == [i \in 0 .. Len(m) |-> IF i = Len(m) THEN After(h, e, b) ELSE f[i]]
<1>2. Len(l) \in Nat /\ Len(m) = Len(l) + 1 /\ m[Len(m)] = e /\ \A i \in 1 .. Len(l) : m[i] = l[i]
  OBVIOUS
<1> HIDE DEF m
<1>3. g[Len(m)] = After(h, e, b) /\ \A i \in 0 .. Len(l) : g[i] = f[i]
  BY <1>2
<1> HIDE DEF g
<1>4. ASSUME NEW i \in 1 .. Len(m) PROVE g[i] = After(g[i - 1], m[i], b)
  <2>1. CASE i = Len(m)
    <3>1. g[i - 1] = h
      BY <1>1, <1>2, <1>3, <2>1 DEF Course
    <3> QED
      BY <1>2, <1>3, <2>1, <3>1
  <2>2. CASE i # Len(m)
    <3>1. i \in 1 .. Len(l) /\ i - 1 \in 0 .. Len(l) /\ i \in 0 .. Len(l)
      BY <1>2, <2>2
    <3>2. f[i] = After(f[i - 1], l[i], b)
      BY <1>1, <3>1 DEF Course
    <3> QED
      BY <1>2, <1>3, <3>1, <3>2
  <2> QED
    BY <2>1, <2>2
<1>5. g[0] = Held(FreshWorld, r, <<>>)
  BY <1>1, <1>2, <1>3 DEF Course
<1>6. Course(g, m, r, b, After(h, e, b))
  BY <1>3, <1>4, <1>5 DEF Course
<1> QED
  BY <1>6 DEF Replayed, m

(* An event of the model is an event of the course.                        *)
LEMMA ReplayAfter ==
    ASSUME DiffTypes, NEW e \in Events, Replay(e)
    PROVE  /\ side \in Sides /\ side' = side /\ base' = base
           /\ log' = [log EXCEPT ![side] = Append(@, e)]
           /\ \A s \in Sides \ {side} : cks'[s] = cks[s]
           /\ Held(world', registry', cks'[side]) = After(Held(world, registry, cks[side]), e, base[side])
           /\ DOMAIN cks' = Sides
           /\ \E T : cks'[side] \in Seq(T)
           /\ registry' = IF e[1] = "learn" THEN registry \cup {e[2]} ELSE registry
<1> DEFINE w == Topology([world EXCEPT !.seq = @ + 1], e, registry, base[side])
           due == w.seq >= w.next
<1>1. w = Applied([world EXCEPT !.seq = @ + 1], e)
  BY Zenon DEF Topology, Applied
<1>2. After(Held(world, registry, cks[side]), e, base[side]) =
        Held(IF e[1] = "snapshot" THEN [w EXCEPT !.seq = world.seq + SnapSlots]
             ELSE IF due THEN [w EXCEPT !.next = NextCheckpoint(w)] ELSE w,
             IF e[1] = "learn" THEN registry \cup {e[2]} ELSE registry,
             IF e[1] # "snapshot" /\ due THEN Append(cks[side], Checkpoint(w)) ELSE cks[side])
  BY DEF After, Held
<1> HIDE DEF w
<1>3. /\ side \in Sides /\ side' = side /\ base' = base
      /\ log' = [log EXCEPT ![side] = Append(@, e)]
      /\ registry' = IF e[1] = "learn" THEN registry \cup {e[2]} ELSE registry
      /\ IF e[1] = "snapshot"
         THEN world' = [w EXCEPT !.seq = world.seq + SnapSlots] /\ UNCHANGED cks
         ELSE /\ world' = IF due THEN [w EXCEPT !.next = NextCheckpoint(w)] ELSE w
              /\ cks' = IF due THEN [cks EXCEPT ![side] = Append(@, Checkpoint(w))] ELSE cks
  BY <1>1, Zenon DEF Replay
<1> HIDE DEF due
<1>4. DOMAIN cks' = Sides /\ \A s \in Sides \ {side} : cks'[s] = cks[s]
  BY <1>3 DEF DiffTypes
<1>5. cks'[side] = IF e[1] # "snapshot" /\ due THEN Append(cks[side], Checkpoint(w)) ELSE cks[side]
  BY <1>3 DEF DiffTypes
<1>6. \E T : cks'[side] \in Seq(T)
  <2>1. PICK T : cks[side] \in Seq(T)
    BY <1>3 DEF DiffTypes
  <2>2. cks'[side] \in Seq(T \cup {Checkpoint(w)})
    BY <1>5, <2>1
  <2> QED
    BY <2>2
<1> QED
  BY <1>2, <1>3, <1>4, <1>5, <1>6

(* What is learned by one more event.                                      *)
LEMMA LearnedOne ==
    ASSUME NEW l \in Seq(Events), NEW e \in Events
    PROVE  Learned(Append(l, e)) = IF e[1] = "learn" THEN Learned(l) \cup {e[2]} ELSE Learned(l)
<1> DEFINE m == Append(l, e)
<1>1. /\ Len(l) \in Nat /\ DOMAIN l = 1 .. Len(l) /\ DOMAIN m = 1 .. Len(l) + 1
      /\ m[Len(l) + 1] = e /\ \A i \in 1 .. Len(l) : m[i] = l[i]
  OBVIOUS
<1>2. e[1] = "learn" => e[2] \in TypeNames /\ e = <<"learn", e[2]>>
  BY DEF Events
<1> HIDE DEF m
<1>3. \A ty : (\E i \in DOMAIN m : m[i] = <<"learn", ty>>) <=>
              (\E i \in DOMAIN l : l[i] = <<"learn", ty>>) \/ e = <<"learn", ty>>
  <2> TAKE ty
  <2>1. ASSUME NEW i \in DOMAIN m, m[i] = <<"learn", ty>>
        PROVE  (\E k \in DOMAIN l : l[k] = <<"learn", ty>>) \/ e = <<"learn", ty>>
    <3>1. CASE i = Len(l) + 1
      BY <1>1, <2>1, <3>1
    <3>2. CASE i \in DOMAIN l
      BY <1>1, <2>1, <3>2
    <3> QED
      BY <1>1, <3>1, <3>2
  <2>2. ASSUME NEW i \in DOMAIN l, l[i] = <<"learn", ty>>
        PROVE  i \in DOMAIN m /\ m[i] = <<"learn", ty>>
    BY <1>1, <2>2
  <2>3. Len(l) + 1 \in DOMAIN m
    BY <1>1
  <2> QED
    BY <1>1, <2>1, <2>2, <2>3, Zenon
<1>4. Learned(m) = {ty \in TypeNames : (\E i \in DOMAIN l : l[i] = <<"learn", ty>>) \/ e = <<"learn", ty>>}
  BY <1>3 DEF Learned
<1>5. \A ty : e = <<"learn", ty>> <=> e[1] = "learn" /\ e[2] = ty
  BY <1>2
<1> QED
  BY <1>2, <1>4, <1>5 DEF Learned, m

(* A recording's last checkpoint.                                          *)
LEMMA FinishedOne ==
    ASSUME DiffTypes, Finish, NEW s, s = side, NEW r,
           Replayed(log[s], r, base[s], Held(world, registry, cks[s]))
    PROVE  Finished(s, r)'
<1>1. s \in Sides /\ cks' = [cks EXCEPT ![s] = Append(@, Checkpoint(world))]
      /\ log' = log /\ base' = base
  BY DEF Finish
<1>2. cks'[s] = Append(cks[s], Checkpoint(world))
  BY <1>1 DEF DiffTypes
<1>3. Replayed(log'[s], r, base'[s], Held(world, registry, cks[s]))
  BY <1>1
<1> QED
  BY <1>2, <1>3 DEF Finished

(* A recording that is finished stays as it is.                            *)
LEMMA FinishedStays ==
    ASSUME NEW s, NEW r, Finished(s, r), log'[s] = log[s], base' = base, cks'[s] = cks[s]
    PROVE  Finished(s, r)'
BY DEF Finished

-----------------------------------------------------------------------------
(* The steps.                                                              *)

LEMMA DiffInitInv == DiffInit => DInv
<1> SUFFICES ASSUME DiffInit PROVE DInv
  OBVIOUS
<1>1. /\ side = "a" /\ log = [s \in Sides |-> <<>>] /\ cks = [s \in Sides |-> <<>>]
      /\ registry = {} /\ world = FreshWorld
  BY DEF DiffInit, FreshWorld
<1>2. "a" \in Sides /\ "b" \in Sides
  BY DEF Sides
<1>3. log.a = <<>> /\ log.b = <<>> /\ cks.a = <<>> /\ cks.b = <<>>
  BY <1>1, <1>2
<1>4. DiffTypes
  <2>1. \A s \in Sides : cks[s] \in Seq({})
    BY <1>1
  <2> QED
    BY <1>1, <1>2, <2>1 DEF DiffTypes
<1>5. Replayed(log.a, {}, base.a, Held(world, registry, cks.a))
  BY <1>1, <1>3, ReplayedNothing
<1>6. registry = Learned(log.a)
  BY <1>1, <1>3 DEF Learned
<1> QED
  BY <1>1, <1>3, <1>4, <1>5, <1>6 DEF DInv

(* An event of the recording that is replayed.                             *)
LEMMA DiffReplay == ASSUME DInv, NEW e \in Events, Replay(e) PROVE DInv'
<1>1. DiffTypes
  BY DEF DInv
<1> DEFINE h == Held(world, registry, cks[side])
<1>2. /\ side \in Sides /\ side' = side /\ base' = base
      /\ log' = [log EXCEPT ![side] = Append(@, e)]
      /\ \A s \in Sides \ {side} : cks'[s] = cks[s]
      /\ Held(world', registry', cks'[side]) = After(h, e, base[side])
      /\ DOMAIN cks' = Sides
      /\ \E T : cks'[side] \in Seq(T)
      /\ registry' = IF e[1] = "learn" THEN registry \cup {e[2]} ELSE registry
  BY <1>1, ReplayAfter
<1> HIDE DEF h
<1>3. /\ log[side] \in Seq(Events) /\ log'[side] = Append(log[side], e)
      /\ \A s \in Sides \ {side} : log'[s] = log[s]
  BY <1>1, <1>2 DEF DiffTypes
<1>4. DiffTypes'
  <2>1. log' \in [Sides -> Seq(Events)]
    BY <1>1, <1>2, <1>3 DEF DiffTypes
  <2>2. \A s \in Sides : \E T : cks'[s] \in Seq(T)
    BY <1>1, <1>2 DEF DiffTypes
  <2> QED
    BY <1>1, <1>2, <2>1, <2>2 DEF DiffTypes
<1>5. "a" \in Sides /\ "b" \in Sides /\ side \in {"a", "b"} /\ Sides \ {"a"} = {"b"} /\ Sides \ {"b"} = {"a"}
  BY <1>2 DEF Sides
<1>6. CASE side = "a"
  <2>1. Replayed(log.a, {}, base.a, h) /\ log.b = <<>> /\ cks.b = <<>> /\ registry = Learned(log.a)
    BY <1>6 DEF DInv, h
  <2>2. Replayed(log'.a, {}, base.a, Held(world', registry', cks'.a))
    BY <1>2, <1>3, <1>6, <2>1, ReplayedOne
  <2>3. registry' = Learned(log'.a)
    <3>1. log.a \in Seq(Events) /\ log'.a = Append(log.a, e)
      BY <1>3, <1>6
    <3>2. Learned(log'.a) = IF e[1] = "learn" THEN Learned(log.a) \cup {e[2]} ELSE Learned(log.a)
      BY <3>1, LearnedOne
    <3> QED
      BY <1>2, <2>1, <3>2
  <2> QED
    BY <1>2, <1>3, <1>4, <1>5, <1>6, <2>1, <2>2, <2>3 DEF DInv
<1>7. CASE side = "b"
  <2>1. Finished("a", {}) /\ Replayed(log.b, Learned(log.a), base.b, h)
    BY <1>7 DEF DInv, h
  <2>2. log'.a = log.a /\ cks'.a = cks.a
    BY <1>2, <1>3, <1>5, <1>7
  <2>3. Replayed(log'.b, Learned(log.a), base.b, Held(world', registry', cks'.b))
    BY <1>2, <1>3, <1>7, <2>1, ReplayedOne
  <2>4. Finished("a", {})'
    BY <1>2, <2>1, <2>2, FinishedStays
  <2>5. Learned(log'.a) = Learned(log.a)
    BY <2>2
  <2> QED
    BY <1>2, <1>4, <1>7, <2>3, <2>4, <2>5 DEF DInv
<1> QED
  BY <1>5, <1>6, <1>7

(* The end of a recording.                                                 *)
LEMMA DiffFinish == ASSUME DInv, Finish PROVE DInv'
<1>1. DiffTypes
  BY DEF DInv
<1>2. /\ side \in Sides /\ side' = IF side = "a" THEN "b" ELSE "done"
      /\ cks' = [cks EXCEPT ![side] = Append(@, Checkpoint(world))]
      /\ world' = FreshWorld /\ base' = base /\ log' = log /\ registry' = registry
  BY DEF Finish
<1>3. \A s \in Sides \ {side} : cks'[s] = cks[s]
  BY <1>1, <1>2 DEF DiffTypes
<1>4. DiffTypes'
  <2>1. PICK T : cks[side] \in Seq(T)
    BY <1>1, <1>2 DEF DiffTypes
  <2>2. cks'[side] \in Seq(T \cup {Checkpoint(world)})
    BY <1>1, <1>2, <2>1 DEF DiffTypes
  <2>3. \A s \in Sides : \E U : cks'[s] \in Seq(U)
    BY <1>1, <1>3, <2>2 DEF DiffTypes
  <2> QED
    BY <1>1, <1>2, <2>3 DEF DiffTypes, Sides
<1>5. side \in {"a", "b"} /\ Sides \ {"a"} = {"b"} /\ Sides \ {"b"} = {"a"}
  BY <1>2 DEF Sides
<1>6. CASE side = "a"
  <2>1. /\ Replayed(log.a, {}, base.a, Held(world, registry, cks.a))
        /\ log.b = <<>> /\ cks.b = <<>> /\ registry = Learned(log.a)
    BY <1>6 DEF DInv
  <2>2. Finished("a", {})'
    BY <1>1, <1>6, <2>1, FinishedOne
  <2>3. cks'.b = <<>>
    BY <1>3, <1>5, <1>6, <2>1
  <2>4. Replayed(log'.b, Learned(log.a), base'.b, Held(world', registry', cks'.b))
    BY <1>2, <2>1, <2>3, ReplayedNothing
  <2>5. Learned(log'.a) = Learned(log.a)
    BY <1>2
  <2> QED
    BY <1>2, <1>4, <1>6, <2>2, <2>4, <2>5 DEF DInv
<1>7. CASE side = "b"
  <2>1. Finished("a", {}) /\ Replayed(log.b, Learned(log.a), base.b, Held(world, registry, cks.b))
    BY <1>7 DEF DInv
  <2>2. Finished("b", Learned(log.a))'
    <3>1. \A r : Replayed(log.b, r, base.b, Held(world, registry, cks.b)) => Finished("b", r)'
      BY <1>1, <1>7, FinishedOne
    <3>2. Learned(log.a)' = Learned(log.a)
      BY <1>2
    <3> QED
      BY <2>1, <3>1, <3>2
  <2>3. Finished("a", {})'
    BY <1>2, <1>3, <1>5, <1>7, <2>1, FinishedStays
  <2> QED
    BY <1>2, <1>4, <1>7, <2>2, <2>3 DEF DInv
<1> QED
  BY <1>5, <1>6, <1>7

(* At every point of a comparison, the topology, the registry and the      *)
(* checkpoints are those of a course of the events so far.                 *)
THEOREM ComparisonInvariant == DiffSpec => []DInv
<1>1. DInv /\ UNCHANGED diffVars => DInv'
  BY DEF DInv, diffVars, DiffTypes, Finished
<1>2. DInv /\ [DiffNext]_diffVars => DInv'
  BY <1>1, DiffReplay, DiffFinish DEF DiffNext
<1> QED
  BY DiffInitInv, <1>2, PTL DEF DiffSpec

-----------------------------------------------------------------------------
(* The comparison.                                                         *)

(* Nothing that differs is hidden by the mask of common stamps.            *)
LEMMA DiffNothingHidden == ASSUME DInv PROVE NothingHidden
<1>1. SUFFICES ASSUME side = "done" PROVE NothingHidden
  BY DEF NothingHidden
<1>2. ASSUME NEW ty \in TypeNames, NEW i \in 1 .. Pairs, ty \in SymDiff(cks.a[i].stamps, cks.b[i].stamps),
             ~(ty \in Final("a").stamps /\ ty \in Final("b").stamps)
      PROVE  ty \in Diff(i).stamps
  BY <1>2 DEF Diff, CommonMask
<1>3. ASSUME Len(cks.a) = Len(cks.b)
      PROVE  Diff(Pairs) = [stamps |-> SymDiff(Final("a").stamps, Final("b").stamps),
                            hazards |-> SymDiff(Final("a").hazards, Final("b").hazards)]
  <2>1. Len(cks.a) \in Nat
    BY DEF DInv, DiffTypes, Sides
  <2>2. Pairs = Len(cks.a)
    <3> DEFINE n == Len(cks.a)
    <3>1. Pairs = Min({n})
      BY <1>3 DEF Pairs
    <3>2. \A x \in {n} : \A y \in {n} : x <= y
      BY <2>1
    <3> HIDE DEF n
    <3>3. Min({n}) \in {n}
      BY <3>2 DEF Min
    <3> QED
      BY <3>1, <3>3 DEF n
  <2> QED
    BY <1>3, <2>2 DEF Diff, Final
<1> QED
  BY <1>1, <1>2, <1>3 DEF NothingHidden

(* The types learned by the first n events.                                *)
LearnedBy(l, n) == {ty \in TypeNames : \E j \in 1 .. n : l[j] = <<"learn", ty>>}

(* No field reaches a type that is resolved only later.                    *)
ReachesInOrder(l) ==
    \A i \in DOMAIN l : l[i][1] = "reach" =>
        (\E j \in 1 .. (i - 1) : l[j] = <<"learn", l[i][2]>>)
        \/ ~\E j \in DOMAIN l : l[j] = <<"learn", l[i][2]>>
HasHazard(l) == \E i \in DOMAIN l : l[i][1] = "hazard"

(* Two courses of the same events, the second from a registry that has     *)
(* every type of them, hold the same worlds and checkpoints, if no hazard  *)
(* tells their addresses apart and no field tells their registries apart.  *)
LEMMA SameCourse ==
    ASSUME NEW l \in Seq(Events), NEW b, NEW c, NEW f, NEW g, NEW hf, NEW hg,
           Course(f, l, {}, b, hf), Course(g, l, Learned(l), c, hg),
           b = c \/ ~HasHazard(l), ReachesInOrder(l)
    PROVE  hf.world = hg.world /\ hf.cks = hg.cks
<1> DEFINE Same(n) == /\ f[n].world = g[n].world /\ f[n].cks = g[n].cks
                      /\ f[n].registry = LearnedBy(l, n) /\ g[n].registry = Learned(l)
           T == {n \in Nat : n <= Len(l) => Same(n)}
<1>1. Len(l) \in Nat /\ DOMAIN l = 1 .. Len(l)
  OBVIOUS
<1>2. 0 \in T
  <2>1. f[0] = Held(FreshWorld, {}, <<>>) /\ g[0] = Held(FreshWorld, Learned(l), <<>>)
    BY DEF Course
  <2>2. LearnedBy(l, 0) = {}
    BY DEF LearnedBy
  <2>3. Same(0)
    BY <2>1, <2>2 DEF Held
  <2> QED
    BY <2>3
<1>3. ASSUME NEW n \in Nat, n \in T PROVE n + 1 \in T
  <2>1. SUFFICES ASSUME n + 1 <= Len(l) PROVE Same(n + 1)
    OBVIOUS
  <2> DEFINE e == l[n + 1]
  <2>2. Same(n) /\ n + 1 \in DOMAIN l /\ n + 1 \in 1 .. Len(l) /\ e \in Events
    BY <1>1, <1>3, <2>1
  <2>3. f[n + 1] = After(f[n], e, b) /\ g[n + 1] = After(g[n], e, c)
    BY <2>2 DEF Course
  <2> HIDE DEF e
  <2>4. e[1] = "hazard" => b = c
    BY <2>2 DEF e, HasHazard
  <2>5. e[1] = "reach" => {e[2]} \cap f[n].registry = {e[2]} \cap g[n].registry
    <3>1. SUFFICES ASSUME e[1] = "reach"
                   PROVE  e[2] \in LearnedBy(l, n) <=> e[2] \in Learned(l)
      BY <2>2
    <3>2. (n + 1) - 1 = n
      OBVIOUS
    <3>3. (\E j \in 1 .. n : l[j] = <<"learn", e[2]>>) \/ ~\E j \in DOMAIN l : l[j] = <<"learn", e[2]>>
      BY <2>2, <3>1, <3>2 DEF e, ReachesInOrder
    <3>4. 1 .. n \subseteq DOMAIN l
      BY <1>1, <2>1
    <3> QED
      BY <3>3, <3>4 DEF LearnedBy, Learned
  <2>6. ASSUME NEW w PROVE Topology(w, e, f[n].registry, b) = Topology(w, e, g[n].registry, c)
    BY <2>4, <2>5, Zenon DEF Topology
  <2>7. f[n + 1].world = g[n + 1].world /\ f[n + 1].cks = g[n + 1].cks
    <3> DEFINE w == Topology([f[n].world EXCEPT !.seq = @ + 1], e, f[n].registry, b)
    <3>1. w = Topology([g[n].world EXCEPT !.seq = @ + 1], e, g[n].registry, c)
      BY <2>2, <2>6, Zenon
    <3> DEFINE due == w.seq >= w.next
               shot == e[1] = "snapshot"
               World(k) == IF shot THEN [w EXCEPT !.seq = k + SnapSlots]
                           ELSE IF due THEN [w EXCEPT !.next = NextCheckpoint(w)] ELSE w
               Cks(k) == IF ~shot /\ due THEN Append(k, Checkpoint(w)) ELSE k
    <3>2. /\ After(f[n], e, b).world = World(f[n].world.seq)
          /\ After(f[n], e, b).cks = Cks(f[n].cks)
      BY DEF After, Held
    <3> HIDE DEF w
    <3>3. /\ After(g[n], e, c).world = World(g[n].world.seq)
          /\ After(g[n], e, c).cks = Cks(g[n].cks)
      BY <3>1 DEF After, Held
    <3> HIDE DEF World, Cks
    <3> QED
      BY <2>2, <2>3, <3>2, <3>3
  <2>8. f[n + 1].registry = LearnedBy(l, n + 1) /\ g[n + 1].registry = Learned(l)
    <3>1. /\ f[n + 1].registry = IF e[1] = "learn" THEN LearnedBy(l, n) \cup {e[2]} ELSE LearnedBy(l, n)
          /\ g[n + 1].registry = IF e[1] = "learn" THEN Learned(l) \cup {e[2]} ELSE Learned(l)
      BY <2>2, <2>3 DEF After, Held
    <3>2. e[1] = "learn" => e[2] \in TypeNames /\ e = <<"learn", e[2]>>
      BY <2>2 DEF Events
    <3>3. e[1] = "learn" => e[2] \in Learned(l)
      BY <2>2, <3>2 DEF Learned, e
    <3>4. \A ty : e = <<"learn", ty>> => e[1] = "learn" /\ e[2] = ty
      OBVIOUS
    <3>5. \A ty : (\E j \in 1 .. n + 1 : l[j] = <<"learn", ty>>) <=>
                  (\E j \in 1 .. n : l[j] = <<"learn", ty>>) \/ e = <<"learn", ty>>
      <4>1. 1 .. n + 1 = 1 .. n \cup {n + 1}
        OBVIOUS
      <4> QED
        BY <4>1, Zenon DEF e
    <3>6. LearnedBy(l, n + 1) = IF e[1] = "learn" THEN LearnedBy(l, n) \cup {e[2]} ELSE LearnedBy(l, n)
      <4>1. LearnedBy(l, n + 1) = {ty \in TypeNames : (\E j \in 1 .. n : l[j] = <<"learn", ty>>) \/ e = <<"learn", ty>>}
        BY <3>5 DEF LearnedBy
      <4> QED
        BY <3>2, <3>4, <4>1 DEF LearnedBy
    <3> QED
      BY <3>1, <3>3, <3>6
  <2> QED
    BY <2>7, <2>8
<1>4. \A n \in Nat : n \in T
  <2> HIDE DEF T
  <2> QED
    BY <1>2, <1>3, NatByInduction
<1>5. Same(Len(l))
  BY <1>1, <1>4
<1> QED
  BY <1>5 DEF Course

(* The same events at the same address, or without a hazard, and with      *)
(* every type resolved before a field reaches it: no difference.           *)
LEMMA DiffRepeatIdentical == ASSUME DInv PROVE RepeatIdentical
<1>1. SUFFICES
        ASSUME side = "done", log.a = log.b,
               base.a = base.b \/ ~\E e \in Range(log.a) : e[1] = "hazard",
               \A i \in DOMAIN log.a : log.a[i][1] = "reach" =>
                   (\E j \in 1 .. (i - 1) : log.a[j] = <<"learn", log.a[i][2]>>)
                   \/ ~\E j \in DOMAIN log.a : log.a[j] = <<"learn", log.a[i][2]>>
        PROVE  Identical
  BY Zenon DEF RepeatIdentical
<1>2. Finished("a", {}) /\ Finished("b", Learned(log.a))
  BY <1>1 DEF DInv
<1>3. PICK w, r, c : Replayed(log.a, {}, base.a, Held(w, r, c)) /\ cks.a = Append(c, Checkpoint(w))
  BY <1>2 DEF Finished
<1>4. PICK v, q, d : Replayed(log.b, Learned(log.a), base.b, Held(v, q, d)) /\ cks.b = Append(d, Checkpoint(v))
  BY <1>2 DEF Finished
<1>5. PICK f : Course(f, log.a, {}, base.a, Held(w, r, c))
  BY <1>3 DEF Replayed
<1>6. PICK g : Course(g, log.a, Learned(log.a), base.b, Held(v, q, d))
  BY <1>1, <1>4 DEF Replayed
<1>7. log.a \in Seq(Events)
  BY DEF DInv, DiffTypes, Sides
<1>8. (base.a = base.b \/ ~HasHazard(log.a)) /\ ReachesInOrder(log.a)
  BY <1>1 DEF Range, HasHazard, ReachesInOrder
<1>9. Held(w, r, c).world = Held(v, q, d).world /\ Held(w, r, c).cks = Held(v, q, d).cks
  BY <1>5, <1>6, <1>7, <1>8, SameCourse
<1>10. cks.a = cks.b
  BY <1>3, <1>4, <1>9 DEF Held
<1>11. \A S : SymDiff(S, S) = {}
  BY DEF SymDiff
<1>12. ASSUME NEW i \in 1 .. Pairs PROVE Diff(i) = [stamps |-> {}, hazards |-> {}]
  BY <1>10, <1>11 DEF Diff
<1> QED
  BY <1>12 DEF Identical

(* rtmap-diff loses no difference between final topologies of the same     *)
(* index, and finds two replays of the same events identical, if no hazard *)
(* tells their addresses apart and no field reaches a type too early       *)
(* (diff_checkpoints, replay_to_checkpoints).                              *)
THEOREM DiffAlwaysExact == DiffSpec => []DiffExact
<1>1. DInv => DiffExact
  BY DiffNothingHidden, DiffRepeatIdentical DEF DiffExact
<1> QED
  BY <1>1, ComparisonInvariant, PTL

-----------------------------------------------------------------------------
(* The lines of a struct.                                                  *)

(* Two offsets of one line.                                                *)
LEMMA SameLine ==
    ASSUME NEW L \in Nat \ {0}, NEW a \in Nat, NEW k \in Nat, (a % L) + k < L
    PROVE  (a + k) \div L = a \div L /\ a \div L \in Nat
OBVIOUS

(* More than one element.                                                  *)
LEMMA Several ==
    ASSUME NEW S, IsFiniteSet(S)
    PROVE  Cardinality(S) > 1 <=> \E x, y \in S : x # y
<1>1. Cardinality(S) \in Nat
  BY FS_CardinalityType
<1>2. Cardinality(S) = 0 <=> S = {}
  BY FS_EmptySet
<1>3. Cardinality(S) = 1 <=> \E x : S = {x}
  BY FS_Singleton
<1>4. ASSUME NEW x \in S, NEW y \in S, x # y PROVE Cardinality(S) > 1
  <2>1. Cardinality(S) # 0 /\ Cardinality(S) # 1
    BY <1>2, <1>3, <1>4
  <2> QED
    BY <1>1, <2>1
<1>5. ASSUME Cardinality(S) > 1 PROVE \E x, y \in S : x # y
  <2>0. Cardinality(S) # 0 /\ Cardinality(S) # 1
    BY <1>1, <1>5
  <2>1. S # {} /\ ~\E x : S = {x}
    BY <1>2, <1>3, <2>0
  <2>2. PICK x : x \in S
    BY <2>1
  <2>3. \E y \in S : y # x
    BY <2>1, <2>2
  <2> QED
    BY <2>2, <2>3
<1> QED
  BY <1>4, <1>5

(* What a field without parts is to lint.                                  *)
Leaf(f) ==
    [path |-> <<f.name>>, offset |-> f.offset, size |-> f.size, pointer |-> f.pointer,
     hot |-> f.hot, aligned |-> f.aligned, lock |-> FALSE \/ f.lock]

(* The levels of a struct, the first d of them.                            *)
Below(placed) ==
    UNION {Placed(p.field.parts, p.offset, p.path, p.lock) : p \in {q \in placed : ~IsLeaf(q.field)}}
Leveled(f, top, n) == f = [d \in 0 .. n |-> IF d = 0 THEN top ELSE Below(f[d - 1])]

LEMMA FlattenCourse ==
    ASSUME NEW s
    PROVE  Leveled(FlattenFields(s), Placed(s, 0, << >>, FALSE), MaxDepth)
<1> DEFINE top == Placed(s, 0, << >>, FALSE)
           T == {n \in Nat : \E f : Leveled(f, top, n)}
<1> HIDE DEF top
<1>1. 0 \in T
  <2> DEFINE f == [d \in 0 .. 0 |-> top]
  <2>1. Leveled(f, top, 0)
    BY DEF Leveled
  <2> QED
    BY <2>1
<1>2. ASSUME NEW n \in Nat, n \in T PROVE n + 1 \in T
  <2>1. PICK f : Leveled(f, top, n)
    BY <1>2
  <2> DEFINE Step(h, d) == IF d = 0 THEN top ELSE Below(h[d - 1])
             h == [d \in 0 .. n + 1 |-> IF d = n + 1 THEN Below(f[n]) ELSE f[d]]
  <2>2. \A d \in 0 .. n : h[d] = f[d] /\ f[d] = Step(f, d)
    BY <2>1 DEF Leveled
  <2>3. h[n + 1] = Below(f[n])
    OBVIOUS
  <2>4. DOMAIN h = 0 .. n + 1 /\ h = [d \in 0 .. n + 1 |-> h[d]]
    OBVIOUS
  <2> HIDE DEF h
  <2>5. \A d \in 0 .. n + 1 : h[d] = Step(h, d)
    <3> TAKE d \in 0 .. n + 1
    <3>1. CASE d = n + 1
      <4>1. (n + 1) - 1 = n /\ n \in 0 .. n /\ n + 1 # 0
        OBVIOUS
      <4> QED
        BY <2>2, <2>3, <3>1, <4>1
    <3>2. CASE d # n + 1
      <4>1. d \in 0 .. n /\ (d # 0 => d - 1 \in 0 .. n)
        BY <3>2
      <4> QED
        BY <2>2, <4>1
    <3> QED
      BY <3>1, <3>2
  <2>6. Leveled(h, top, n + 1)
    BY <2>4, <2>5 DEF Leveled
  <2> QED
    BY <2>6
<1>3. \A n \in Nat : n \in T
  <2> HIDE DEF T
  <2> QED
    BY <1>1, <1>2, NatByInduction
<1> DEFINE c == CHOOSE f : Leveled(f, top, MaxDepth)
<1>4. Leveled(c, top, MaxDepth)
  <2>1. \E f : Leveled(f, top, MaxDepth)
    BY <1>3, LintAssumption
  <2> QED
    BY <2>1
<1>5. FlattenFields(s) = c
  BY DEF FlattenFields, Leveled, Below, top
<1> QED
  BY <1>4, <1>5, Zenon DEF top

(* The layout of a struct without nested fields.                           *)
LEMMA PlainLayout ==
    ASSUME NEW s \in Structs, Plain(s)
    PROVE  Layout(s) = {Leaf(s[i]) : i \in DOMAIN s}
<1> DEFINE c == FlattenFields(s)
           P == Placed(s, 0, << >>, FALSE)
<1>1. Leveled(c, P, MaxDepth)
  BY FlattenCourse, Zenon
<1>2. MaxDepth \in Nat
  BY LintAssumption
<1> HIDE DEF c
<1>3. c[0] = P /\ \A d \in 1 .. MaxDepth : c[d] = Below(c[d - 1])
  <2> HIDE DEF P
  <2> QED
    BY <1>1, <1>2 DEF Leveled
<1>4. \A p \in P : IsLeaf(p.field)
  BY DEF Placed, Plain
<1>5. Below(P) = {} /\ Below({}) = {}
  BY <1>4 DEF Below
<1>6. \A d \in 1 .. MaxDepth : c[d] = {}
  <2> DEFINE T == {n \in Nat : n + 1 <= MaxDepth => c[n + 1] = {}}
  <2> HIDE DEF P
  <2>1. 0 \in T
    <3> SUFFICES ASSUME 0 + 1 <= MaxDepth PROVE c[0 + 1] = {}
      OBVIOUS
    <3>1. 1 \in 1 .. MaxDepth /\ 0 + 1 = 1 /\ 1 - 1 = 0
      BY <1>2
    <3> QED
      BY <1>3, <1>5, <3>1
  <2>2. ASSUME NEW n \in Nat, n \in T PROVE n + 1 \in T
    <3> SUFFICES ASSUME (n + 1) + 1 <= MaxDepth PROVE c[(n + 1) + 1] = {}
      OBVIOUS
    <3>1. (n + 1) + 1 \in 1 .. MaxDepth /\ ((n + 1) + 1) - 1 = n + 1 /\ n + 1 <= MaxDepth
      BY <1>2
    <3>2. c[(n + 1) + 1] = Below(c[n + 1])
      BY <1>3, <3>1
    <3> QED
      BY <1>5, <2>2, <3>1, <3>2
  <2>3. \A n \in Nat : n \in T
    <3> HIDE DEF T
    <3> QED
      BY <2>1, <2>2, NatByInduction
  <2> TAKE d \in 1 .. MaxDepth
  <2>4. d - 1 \in Nat /\ (d - 1) + 1 = d /\ d <= MaxDepth
    BY <1>2
  <2>5. d - 1 \in T
    BY <2>3, <2>4
  <2> QED
    BY <2>4, <2>5
<1>7. \A i \in DOMAIN s : s[i].offset \in Nat
  BY LintAssumption
<1>8. Leaves(P) = {Leaf(s[i]) : i \in DOMAIN s}
  <2>1. \A i \in DOMAIN s : 0 + s[i].offset = s[i].offset /\ Append(<< >>, s[i].name) = <<s[i].name>>
    BY <1>7
  <2>2. P = {[field |-> s[i], path |-> <<s[i].name>>, offset |-> s[i].offset, lock |-> FALSE \/ s[i].lock]
             : i \in DOMAIN s}
    BY <2>1 DEF Placed
  <2>3. Leaves(P) = {[path |-> p.path, offset |-> p.offset, size |-> p.field.size, pointer |-> p.field.pointer,
                      hot |-> p.field.hot, aligned |-> p.field.aligned, lock |-> p.lock] : p \in P}
    BY <1>4 DEF Leaves
  <2> DEFINE G(i) == [field |-> s[i], path |-> <<s[i].name>>, offset |-> s[i].offset, lock |-> FALSE \/ s[i].lock]
             F(p) == [path |-> p.path, offset |-> p.offset, size |-> p.field.size, pointer |-> p.field.pointer,
                      hot |-> p.field.hot, aligned |-> p.field.aligned, lock |-> p.lock]
  <2>4. \A i \in DOMAIN s : F(G(i)) = Leaf(s[i])
    BY DEF Leaf
  <2>5. P = {G(i) : i \in DOMAIN s} /\ Leaves(P) = {F(p) : p \in P}
    BY <2>2, <2>3, Zenon
  <2> HIDE DEF P, F, G
  <2> QED
    BY <2>4, <2>5
<1>9. Leaves({}) = {}
  BY DEF Leaves
<1>10. Layout(s) = UNION {Leaves(c[d]) : d \in 0 .. MaxDepth}
  BY DEF Layout, c
<1> HIDE DEF P
<1>11. Layout(s) = Leaves(P)
  <2>1. \A d \in 0 .. MaxDepth : d = 0 \/ d \in 1 .. MaxDepth
    BY <1>2
  <2>2. 0 \in 0 .. MaxDepth
    BY <1>2
  <2> QED
    <3>1. \A d \in 0 .. MaxDepth : Leaves(c[d]) = IF d = 0 THEN Leaves(P) ELSE {}
      BY <1>3, <1>6, <1>9, <2>1
    <3> QED
      BY <1>10, <2>2, <3>1
<1> QED
  BY <1>8, <1>11

(* A word of a field.                                                      *)
Holds(f, off) == f.offset <= off /\ off < f.offset + f.size

(* A field of a plain struct is on one line, and so are its words.         *)
LEMMA PlainLine ==
    ASSUME NEW s \in Structs, Plain(s), NEW i \in DOMAIN s
    PROVE  /\ Cachelines(Leaf(s[i])) = {FirstLine(s[i])}
           /\ \A off \in Nat : Holds(s[i], off) => off \div LineSize = FirstLine(s[i])
           /\ Holds(s[i], s[i].offset)
<1> DEFINE L == LineSize
           a == s[i].offset
           z == s[i].size
<1>1. L \in Nat \ {0} /\ a \in Nat /\ z \in Nat /\ z > 0 /\ (a % L) + z <= L
  BY LintAssumption DEF Plain
<1> HIDE DEF L, a, z
<1>2. \A k \in Nat : k < z => (a + k) \div L = a \div L /\ a \div L \in Nat
  <2> TAKE k \in Nat
  <2> HAVE k < z
  <2>1. a % L \in Nat
    BY <1>1
  <2>2. (a % L) + k < L
    BY <1>1, <2>1
  <2> QED
    BY <1>1, <2>2, SameLine
<1>3. \A off \in Nat : a <= off /\ off < a + z => off \div L = a \div L
  <2> TAKE off \in Nat
  <2> HAVE a <= off /\ off < a + z
  <2>1. off - a \in Nat /\ off - a < z /\ a + (off - a) = off
    BY <1>1
  <2> QED
    BY <1>2, <2>1
<1>4. a \div L .. (a + z - 1) \div L = {a \div L}
  <2>1. z - 1 \in Nat /\ z - 1 < z /\ a + (z - 1) = a + z - 1
    BY <1>1
  <2>2. (a + z - 1) \div L = a \div L /\ a \div L \in Nat
    BY <1>2, <2>1
  <2> QED
    BY <2>2
<1>5. Cachelines(Leaf(s[i])) = a \div L .. (a + z - 1) \div L
  <2>1. z # 0
    BY <1>1
  <2> QED
    BY <2>1 DEF Cachelines, Leaf, a, z, L
<1>6. Cachelines(Leaf(s[i])) = {a \div L}
  BY <1>4, <1>5
<1>7. a <= a /\ a < a + z
  BY <1>1
<1> QED
  BY <1>3, <1>6, <1>7 DEF FirstLine, Holds, a, z, L

(* The fields on a line, and the lines that are judged.                    *)
LEMMA LineFields ==
    ASSUME NEW s \in Structs, Plain(s)
    PROVE  /\ \A cl, f : f \in OnLine(s, cl) <=> \E i \in DOMAIN s : f = Leaf(s[i]) /\ FirstLine(s[i]) = cl
           /\ \A cl : IsFiniteSet(OnLine(s, cl))
           /\ \A i, j \in DOMAIN s : Leaf(s[i]) # Leaf(s[j]) /\ FirstLine(s[i]) = FirstLine(s[j]) =>
                 FirstLine(s[i]) \in Shared(s)
<1>1. Layout(s) = {Leaf(s[i]) : i \in DOMAIN s}
  BY PlainLayout
<1>2. \A i \in DOMAIN s : Cachelines(Leaf(s[i])) = {FirstLine(s[i])}
  BY PlainLine
<1>3. ASSUME NEW cl, NEW f
      PROVE  f \in OnLine(s, cl) <=> \E i \in DOMAIN s : f = Leaf(s[i]) /\ FirstLine(s[i]) = cl
  BY <1>1, <1>2 DEF OnLine
<1>4. ASSUME NEW cl PROVE IsFiniteSet(OnLine(s, cl))
  <2> DEFINE g == [i \in DOMAIN s |-> Leaf(s[i])]
  <2>1. g \in Surjection(DOMAIN s, Layout(s))
    BY <1>1 DEF Surjection
  <2>2. IsFiniteSet(Layout(s))
    <3> HIDE DEF g
    <3> QED
      BY <2>1, LintAssumption, FS_Surjection
  <2>3. OnLine(s, cl) \in SUBSET Layout(s)
    BY DEF OnLine
  <2> QED
    BY <2>2, <2>3, FS_Subset
<1>5. ASSUME NEW i \in DOMAIN s, NEW j \in DOMAIN s, Leaf(s[i]) # Leaf(s[j]), FirstLine(s[i]) = FirstLine(s[j])
      PROVE  FirstLine(s[i]) \in Shared(s)
  <2> DEFINE cl == FirstLine(s[i])
  <2>1. Leaf(s[i]) \in OnLine(s, cl) /\ Leaf(s[j]) \in OnLine(s, cl)
    BY <1>3, <1>5
  <2>2. Cardinality(OnLine(s, cl)) > 1
    BY <1>4, <1>5, <2>1, Several
  <2>3. Cardinality(OnLine(s, cl)) \in Nat
    BY <1>4, FS_CardinalityType
  <2>4. cl \in UNION {Cachelines(f) : f \in Layout(s)}
    BY <1>1, <1>2
  <2> QED
    BY <2>2, <2>3, <2>4 DEF Shared
<1> QED
  BY <1>3, <1>4, <1>5

(* What the reports were computed from.                                    *)
LintInv ==
    /\ struct \in Structs /\ stored \subseteq Writers \X Offsets
    /\ heat = {<<w[1], FieldAt(w[2])[1], FieldAt(w[2])[2]>> : w \in stored}
    /\ lint.mode = "analyze" =>
          /\ lint.warned = WarnedLines(struct, lint.ann)
          /\ lint.warned # {} => lint.exit = 1
    /\ lint.mode = "heatmap" =>
          /\ lint.class = [cl \in Shared(struct) |-> Class(OnLine(struct, cl))]
          /\ lint.orphans = Orphans
    /\ lint.mode = "diff" =>
          /\ lint.added = Names(lint.new) \ Names(struct)
          /\ \A n \in Names(struct) \cap Names(lint.new) :
                FirstLine(Named(struct, n)) # FirstLine(Named(lint.new, n)) => n \in lint.moved
          /\ lint.moved # {} => lint.exit = 1

LEMMA LintInitInv == LintInit => LintInv
<1> SUFFICES ASSUME LintInit PROVE LintInv
  OBVIOUS
<1>1. struct \in Structs /\ stored = {} /\ heat = {} /\ lint.mode = "none"
  BY DEF LintInit
<1> QED
  BY <1>1 DEF LintInv

(* A write that the engine saw.                                            *)
LEMMA HeatWriteInv ==
    ASSUME LintInv, NEW t \in Writers, NEW off \in Offsets, HeatWrite(t, off)
    PROVE  LintInv'
<1> DEFINE Entry(w) == <<w[1], FieldAt(w[2])[1], FieldAt(w[2])[2]>>
<1>1. /\ lint.mode = "none" /\ stored' = stored \cup {<<t, off>>} /\ struct' = struct /\ lint' = lint
      /\ heat' = heat \cup {<<t, FieldAt(off)[1], FieldAt(off)[2]>>}
  BY DEF HeatWrite
<1>2. heat = {Entry(w) : w \in stored} /\ struct \in Structs /\ stored \subseteq Writers \X Offsets
  BY DEF LintInv
<1>3. \A o : FieldAt(o)' = FieldAt(o)
  BY <1>1 DEF FieldAt
<1>4. Entry(<<t, off>>) = <<t, FieldAt(off)[1], FieldAt(off)[2]>>
  OBVIOUS
<1>5. heat' = {Entry(w) : w \in stored'}
  <2> HIDE DEF Entry
  <2> QED
    BY <1>1, <1>2, <1>4
<1>6. heat' = {<<w[1], (FieldAt(w[2]))'[1], (FieldAt(w[2]))'[2]>> : w \in stored'}
  BY <1>3, <1>5
<1>7. stored' \subseteq Writers \X Offsets /\ struct' \in Structs /\ lint'.mode = "none"
  BY <1>1, <1>2
<1> QED
  BY <1>6, <1>7 DEF LintInv

(* A step that changes neither struct nor heatmap changes none of these.   *)
LEMMA SameReport ==
    ASSUME struct' = struct, heat' = heat
    PROVE  /\ \A o : FieldAt(o)' = FieldAt(o)
           /\ \A cl : Class(OnLine(struct, cl))' = Class(OnLine(struct, cl))
           /\ Orphans' = Orphans
<1>1. \A o : FieldAt(o)' = FieldAt(o)
  BY DEF FieldAt
<1>2. \A n, o : Observed(n, o)' = Observed(n, o)
  BY DEF Observed
<1>3. Orphans' = Orphans
  BY <1>2 DEF Orphans
<1>4. ASSUME NEW cl PROVE Class(OnLine(struct, cl))' = Class(OnLine(struct, cl))
  BY Zenon DEF Class, Contended, ObservedField, Observed
<1> QED
  BY <1>1, <1>3, <1>4

LEMMA AnalyzeInv ==
    ASSUME LintInv, NEW ann \in Annotations, Analyze(ann)
    PROVE  LintInv'
<1>1. /\ struct' = struct /\ stored' = stored /\ heat' = heat
      /\ lint'.mode = "analyze" /\ lint'.ann = ann /\ lint'.warned = WarnedLines(struct, ann)
      /\ lint'.exit = IF WarnedLines(struct, ann) \cup UnionOverlaps(struct) # {} THEN 1 ELSE 0
  BY DEF Analyze
<1>2. lint'.warned # {} => lint'.exit = 1
  BY <1>1
<1>3. /\ struct \in Structs /\ stored \subseteq Writers \X Offsets
      /\ heat = {<<w[1], FieldAt(w[2])[1], FieldAt(w[2])[2]>> : w \in stored}
  BY DEF LintInv
<1>4. \A o : FieldAt(o)' = FieldAt(o)
  BY <1>1 DEF FieldAt
<1>5. lint'.warned = WarnedLines(struct', lint'.ann)
  BY <1>1
<1> QED
  BY <1>1, <1>2, <1>3, <1>4, <1>5 DEF LintInv

LEMMA DivergenceInv ==
    ASSUME LintInv, DivergenceReport
    PROVE  LintInv'
<1>1. /\ struct' = struct /\ stored' = stored /\ heat' = heat
      /\ lint'.mode = "heatmap" /\ lint'.orphans = Orphans
      /\ lint'.class = [cl \in Shared(struct) |-> Class(OnLine(struct, cl))]
  BY DEF DivergenceReport
<1>2. /\ struct \in Structs /\ stored \subseteq Writers \X Offsets
      /\ heat = {<<w[1], FieldAt(w[2])[1], FieldAt(w[2])[2]>> : w \in stored}
  BY DEF LintInv
<1>3. /\ \A o : FieldAt(o)' = FieldAt(o)
      /\ \A cl : Class(OnLine(struct, cl))' = Class(OnLine(struct, cl))
      /\ Orphans' = Orphans
  BY <1>1, SameReport
<1>4. lint'.class = [cl \in Shared(struct') |-> Class(OnLine(struct, cl))']
  BY <1>1, <1>3
<1> QED
  BY <1>1, <1>2, <1>3, <1>4 DEF LintInv

LEMMA DiffStructsInv ==
    ASSUME LintInv, NEW new \in Structs, DiffStructs(new)
    PROVE  LintInv'
<1> DEFINE moved == {n \in Names(struct) \cap Names(new) :
                        FirstLine(Named(struct, n)) # FirstLine(Named(new, n))}
<1>1. /\ struct' = struct /\ stored' = stored /\ heat' = heat
      /\ lint'.mode = "diff" /\ lint'.new = new /\ lint'.moved = moved
      /\ lint'.added = Names(new) \ Names(struct)
      /\ lint'.exit = IF moved # {} \/ LinesOf(new) > LinesOf(struct) THEN 1 ELSE 0
  BY DEF DiffStructs
<1>2. /\ struct \in Structs /\ stored \subseteq Writers \X Offsets
      /\ heat = {<<w[1], FieldAt(w[2])[1], FieldAt(w[2])[2]>> : w \in stored}
  BY DEF LintInv
<1>3. \A o : FieldAt(o)' = FieldAt(o)
  BY <1>1 DEF FieldAt
<1>4. lint'.moved # {} => lint'.exit = 1
  BY <1>1
<1>5. \A n \in Names(struct') \cap Names(lint'.new) :
         FirstLine(Named(struct', n)) # FirstLine(Named(lint'.new, n)) => n \in lint'.moved
  BY <1>1
<1>6. lint'.added = Names(lint'.new) \ Names(struct')
  BY <1>1
<1> HIDE DEF moved
<1> QED
  BY <1>1, <1>2, <1>3, <1>4, <1>5, <1>6 DEF LintInv

(* The heatmap holds the field of every word that was written, and a       *)
(* report is what its mode computes from the struct and the heatmap        *)
(* (FieldHeatmap, analyze_struct, divergence_report, diff_structs).        *)
THEOREM LintInvariant == LintSpec => []LintInv
<1>1. LintInv /\ UNCHANGED lintVars => LintInv'
  <2> SUFFICES ASSUME LintInv, UNCHANGED lintVars PROVE LintInv'
    OBVIOUS
  <2>1. struct' = struct /\ stored' = stored /\ heat' = heat /\ lint' = lint
    BY DEF lintVars
  <2>2. /\ \A o : FieldAt(o)' = FieldAt(o)
        /\ \A cl : Class(OnLine(struct, cl))' = Class(OnLine(struct, cl))
        /\ Orphans' = Orphans
    BY <2>1, SameReport
  <2>3. lint.mode = "heatmap" => lint'.class = [cl \in Shared(struct') |-> Class(OnLine(struct, cl))']
    BY <2>1, <2>2 DEF LintInv
  <2> QED
    BY <2>1, <2>2, <2>3 DEF LintInv
<1>2. LintInv /\ [LintNext]_lintVars => LintInv'
  BY <1>1, HeatWriteInv, AnalyzeInv, DivergenceInv, DiffStructsInv DEF LintNext
<1> QED
  BY LintInitInv, <1>2, PTL DEF LintSpec

(* The field a word is filed under.                                        *)
LEMMA WordField ==
    ASSUME struct \in Structs, NEW off \in Nat
    PROVE  \/ /\ FieldAt(off) = <<NoField, off>>
              /\ \A i \in DOMAIN struct : ~Holds(struct[i], off)
           \/ \E i \in DOMAIN struct :
                 FieldAt(off) = <<struct[i].name, struct[i].offset>> /\ Holds(struct[i], off)
<1> DEFINE in == {i \in DOMAIN struct : off \in struct[i].offset .. struct[i].offset + struct[i].size - 1}
           m == CHOOSE i \in in : \A j \in in : i <= j
<1>1. DOMAIN struct \subseteq Nat /\ \A i \in DOMAIN struct : struct[i].offset \in Nat /\ struct[i].size \in Nat
  BY LintAssumption
<1>2. \A i : i \in in <=> i \in DOMAIN struct /\ Holds(struct[i], off)
  BY <1>1 DEF Holds
<1>3. FieldAt(off) = IF in = {} THEN <<NoField, off>> ELSE <<struct[m].name, struct[m].offset>>
  BY DEF FieldAt
<1> HIDE DEF in
<1>4. CASE in = {}
  BY <1>2, <1>3, <1>4
<1>5. CASE in # {}
  <2>1. m \in in
    <3>1. \E i \in in : \A j \in in : i <= j
      BY <1>1, <1>2, <1>5, LeastElement
    <3> QED
      BY <3>1
  <2> HIDE DEF m
  <2> QED
    BY <1>2, <1>3, <1>5, <2>1
<1> QED
  BY <1>4, <1>5

(* Who is seen to write a line are those that wrote its fields.            *)
LEMMA WritersSeen ==
    ASSUME LintInv, Plain(struct), NEW cl
    PROVE  UNION {ObservedField(f) : f \in OnLine(struct, cl)} = WrittenBy(cl)
<1> DEFINE U == UNION {ObservedField(f) : f \in OnLine(struct, cl)}
<1>1. /\ struct \in Structs /\ stored \subseteq Writers \X Offsets
      /\ heat = {<<w[1], FieldAt(w[2])[1], FieldAt(w[2])[2]>> : w \in stored}
  BY DEF LintInv
<1>2. \A w \in stored : w[1] \in Writers /\ w[2] \in Nat
  BY <1>1, LintAssumption
<1>3. \A f : f \in OnLine(struct, cl) <=> \E i \in DOMAIN struct : f = Leaf(struct[i]) /\ FirstLine(struct[i]) = cl
  BY <1>1, LineFields
<1>4. \A i \in DOMAIN struct : ObservedField(Leaf(struct[i])) = Observed(struct[i].name, struct[i].offset)
  BY DEF ObservedField, Leaf
<1>5. \A i \in DOMAIN struct :
         /\ \A off \in Nat : Holds(struct[i], off) => off \div LineSize = FirstLine(struct[i])
         /\ Holds(struct[i], struct[i].offset) /\ struct[i].offset \in Nat
  BY <1>1, PlainLine, LintAssumption
<1>6. \A t : t \in WrittenBy(cl) <=>
         \E w \in stored : w[1] = t /\ w[2] \div LineSize = cl /\ \E i \in DOMAIN struct : Holds(struct[i], w[2])
  BY DEF WrittenBy, Holds
<1>7. \A t : t \in U <=> \E i \in DOMAIN struct :
         FirstLine(struct[i]) = cl /\ t \in Observed(struct[i].name, struct[i].offset)
  BY <1>3, <1>4
<1>8. \A t, n, o : t \in Observed(n, o) <=> \E w \in stored : w[1] = t /\ FieldAt(w[2])[1] = n /\ FieldAt(w[2])[2] = o
  BY <1>1, <1>2 DEF Observed
<1> HIDE DEF U
<1>9. ASSUME NEW t \in U PROVE t \in WrittenBy(cl)
  <2>1. PICK i \in DOMAIN struct : FirstLine(struct[i]) = cl /\ t \in Observed(struct[i].name, struct[i].offset)
    BY <1>7
  <2>2. PICK w \in stored : w[1] = t /\ FieldAt(w[2])[1] = struct[i].name /\ FieldAt(w[2])[2] = struct[i].offset
    BY <1>8, <2>1
  <2>3. PICK j \in DOMAIN struct : FieldAt(w[2]) = <<struct[j].name, struct[j].offset>> /\ Holds(struct[j], w[2])
    <3>1. ~(FieldAt(w[2]) = <<NoField, w[2]>> /\ \A k \in DOMAIN struct : ~Holds(struct[k], w[2]))
      BY <1>5, <2>2
    <3> QED
      BY <1>1, <1>2, <3>1, WordField
  <2>4. struct[j].offset = struct[i].offset
    BY <2>2, <2>3
  <2>5. w[2] \div LineSize = FirstLine(struct[j])
    BY <1>2, <1>5, <2>3
  <2>6. FirstLine(struct[j]) = FirstLine(struct[i])
    BY <2>4 DEF FirstLine
  <2> QED
    BY <1>6, <2>1, <2>2, <2>3, <2>5, <2>6
<1>10. ASSUME NEW t \in WrittenBy(cl) PROVE t \in U
  <2>1. PICK w \in stored : w[1] = t /\ w[2] \div LineSize = cl /\ \E i \in DOMAIN struct : Holds(struct[i], w[2])
    BY <1>6
  <2>2. PICK j \in DOMAIN struct : FieldAt(w[2]) = <<struct[j].name, struct[j].offset>> /\ Holds(struct[j], w[2])
    BY <1>1, <1>2, <2>1, WordField
  <2>3. FirstLine(struct[j]) = cl
    BY <1>2, <1>5, <2>1, <2>2
  <2>4. t \in Observed(struct[j].name, struct[j].offset)
    BY <1>8, <2>1, <2>2
  <2> QED
    BY <1>7, <2>3, <2>4
<1>11. U = WrittenBy(cl)
  BY <1>9, <1>10
<1> QED
  BY <1>11 DEF U

(* The writers of a line are finitely many.                                *)
LEMMA WritersFinite ==
    ASSUME LintInv
    PROVE  /\ \A cl : IsFiniteSet(WrittenBy(cl)) /\ WrittenBy(cl) \subseteq Writers
           /\ \A n, o : IsFiniteSet(Observed(n, o))
<1>1. \A cl : WrittenBy(cl) \subseteq Writers
  BY DEF LintInv, WrittenBy
<1>2. \A n, o : Observed(n, o) \subseteq Writers
  BY DEF Observed
<1> QED
  BY <1>1, <1>2, LintAssumption, FS_Subset

LEMMA ContentionIsShown ==
    ASSUME LintInv, Plain(struct)
    PROVE  ContentionShown
<1> SUFFICES ASSUME lint.mode = "heatmap" PROVE ContentionShown
  BY DEF ContentionShown
<1>1. /\ lint.class = [cl \in Shared(struct) |-> Class(OnLine(struct, cl))] /\ lint.orphans = Orphans
      /\ struct \in Structs /\ stored \subseteq Writers \X Offsets
      /\ heat = {<<w[1], FieldAt(w[2])[1], FieldAt(w[2])[2]>> : w \in stored}
  BY DEF LintInv
<1>2. \A cl, f : f \in OnLine(struct, cl) <=> \E i \in DOMAIN struct : f = Leaf(struct[i]) /\ FirstLine(struct[i]) = cl
  BY <1>1, LineFields
<1>3. ASSUME NEW cl \in Shared(struct)
      PROVE  /\ lint.class[cl] \in {"confirmed", "silent killer"} <=> Cardinality(WrittenBy(cl)) > 1
             /\ cl \in WarnedLines(struct, << >>) \cup UnionOverlaps(struct) => lint.class[cl] # "silent killer"
  <2> DEFINE fs == OnLine(struct, cl)
  <2>1. lint.class[cl] = Class(fs)
    BY <1>1
  <2>2. Contended(fs) <=> Cardinality(WrittenBy(cl)) > 1
    BY WritersSeen DEF Contended
  <2>3. cl \in WarnedLines(struct, << >>) => Flagged(fs)
    <3>1. DOMAIN << >> = {}
      OBVIOUS
    <3>2. cl \in WarnedLines(struct, << >>) => Warns(fs)
      BY <3>1 DEF WarnedLines
    <3> QED
      BY <3>2 DEF Warns, Mixed, HotOf, AlignedOf, LocksOf, Flagged
  <2>4. cl \in UnionOverlaps(struct) => Flagged(fs)
    <3> SUFFICES ASSUME cl \in UnionOverlaps(struct) PROVE Flagged(fs)
      OBVIOUS
    <3>1. PICK g \in Layout(struct) :
             g.offset \div LineSize = cl /\ HotOf({h \in Layout(struct) : h.offset = g.offset}) # {}
      BY DEF UnionOverlaps, Mixed
    <3>2. PICK h \in Layout(struct) : h.offset = g.offset /\ h.hot
      BY <3>1 DEF HotOf
    <3>3. PICK i \in DOMAIN struct : h = Leaf(struct[i])
      BY <1>1, <3>2, PlainLayout
    <3>4. FirstLine(struct[i]) = cl
      BY <3>1, <3>2, <3>3 DEF FirstLine, Leaf
    <3> QED
      BY <1>2, <3>2, <3>3, <3>4 DEF Flagged
  <2> HIDE DEF fs
  <2>5. Class(fs) \in {"confirmed", "silent killer"} <=> Contended(fs)
    BY DEF Class
  <2>6. Flagged(fs) => Class(fs) # "silent killer"
    BY DEF Class
  <2> QED
    BY <2>1, <2>2, <2>3, <2>4, <2>5, <2>6
<1>4. ASSUME NEW i \in DOMAIN struct, NEW t \in Writers, NEW u \in Writers, t # u,
             <<t, struct[i].offset>> \in stored, <<u, struct[i].offset>> \in stored,
             FirstLine(struct[i]) \notin Shared(struct)
      PROVE  \E o \in lint.orphans : o[2] = struct[i].offset
  <2> DEFINE off == struct[i].offset
  <2>1. off \in Nat /\ Holds(struct[i], off)
    BY <1>1, PlainLine, LintAssumption
  <2>2. PICK j \in DOMAIN struct : FieldAt(off) = <<struct[j].name, struct[j].offset>> /\ Holds(struct[j], off)
    BY <1>1, <2>1, WordField
  <2>3. FirstLine(struct[j]) = FirstLine(struct[i])
    BY <1>1, <2>1, <2>2, PlainLine
  <2>4. Leaf(struct[j]) = Leaf(struct[i])
    BY <1>1, <1>4, <2>3, LineFields
  <2>5. struct[j].offset = off
    BY <2>4 DEF Leaf
  <2> HIDE DEF off
  <2> DEFINE n == struct[j].name
  <2>6. <<t, n, off>> \in heat /\ <<u, n, off>> \in heat
    <3>1. <<t, off>> \in stored /\ <<u, off>> \in stored
      BY <1>4 DEF off
    <3>2. FieldAt(off)[1] = n /\ FieldAt(off)[2] = off
      BY <2>2, <2>5
    <3> QED
      BY <1>1, <3>1, <3>2
  <2>7. t \in Observed(n, off) /\ u \in Observed(n, off)
    BY <2>6 DEF Observed
  <2>8. Cardinality(Observed(n, off)) > 1
    BY <1>4, <2>7, Several, WritersFinite
  <2>9. off \div LineSize \notin Shared(struct)
    BY <1>4 DEF FirstLine, off
  <2>10. <<n, off>> \in Orphans
    <3> HIDE DEF n
    <3> QED
      BY <2>6, <2>8, <2>9 DEF Orphans
  <2> QED
    BY <1>1, <2>10 DEF off
<1>5. DOMAIN lint.class = Shared(struct)
  BY <1>1
<1> QED
  BY <1>3, <1>4, <1>5 DEF ContentionShown

LEMMA AnnotationsDoWarn ==
    ASSUME LintInv, Plain(struct)
    PROVE  AnnotationsWarn
<1> SUFFICES ASSUME lint.mode = "analyze", DOMAIN lint.ann # {},
                    \A e \in heat : e[2] # NoField =>
                        <<e[2]>> \in DOMAIN lint.ann /\ lint.ann[<<e[2]>>] = e[1],
                    NEW cl, Cardinality(WrittenBy(cl)) > 1
             PROVE  cl \in lint.warned /\ lint.exit = 1
  BY DEF AnnotationsWarn
<1> DEFINE ann == lint.ann
           fs == OnLine(struct, cl)
<1>1. /\ lint.warned = WarnedLines(struct, ann) /\ (lint.warned # {} => lint.exit = 1)
      /\ struct \in Structs /\ stored \subseteq Writers \X Offsets
      /\ heat = {<<w[1], FieldAt(w[2])[1], FieldAt(w[2])[2]>> : w \in stored}
  BY DEF LintInv
<1>2. PICK t \in WrittenBy(cl), u \in WrittenBy(cl) : t # u
  BY Several, WritersFinite
(* Each of the two wrote a field of the line that is annotated with it.    *)
<1>3. ASSUME NEW x \in WrittenBy(cl)
      PROVE  \E i \in DOMAIN struct :
                /\ FirstLine(struct[i]) = cl
                /\ <<struct[i].name>> \in DOMAIN ann /\ ann[<<struct[i].name>>] = x
  <2>1. x \in UNION {ObservedField(f) : f \in fs}
    BY WritersSeen
  <2>2. PICK f \in fs : x \in ObservedField(f)
    BY <2>1
  <2>3. PICK i \in DOMAIN struct : f = Leaf(struct[i]) /\ FirstLine(struct[i]) = cl
    BY <1>1, <2>2, LineFields
  <2>4. x \in Observed(struct[i].name, struct[i].offset)
    BY <2>2, <2>3 DEF ObservedField, Leaf
  <2>5. <<x, struct[i].name, struct[i].offset>> \in heat /\ struct[i].name # NoField
    BY <1>1, <2>4, LintAssumption DEF Observed
  <2> QED
    BY <2>3, <2>5
<1>4. PICK i \in DOMAIN struct : FirstLine(struct[i]) = cl /\ <<struct[i].name>> \in DOMAIN ann /\ ann[<<struct[i].name>>] = t
  BY <1>2, <1>3
<1>5. PICK j \in DOMAIN struct : FirstLine(struct[j]) = cl /\ <<struct[j].name>> \in DOMAIN ann /\ ann[<<struct[j].name>>] = u
  BY <1>2, <1>3
<1>6. Leaf(struct[i]) # Leaf(struct[j]) /\ Leaf(struct[i]) \in fs /\ Leaf(struct[j]) \in fs
  <2>1. <<struct[i].name>> # <<struct[j].name>>
    BY <1>2, <1>4, <1>5
  <2>2. Leaf(struct[i]) # Leaf(struct[j])
    BY <2>1 DEF Leaf
  <2> QED
    BY <1>1, <1>4, <1>5, <2>2, LineFields
<1>7. cl \in Shared(struct)
  BY <1>1, <1>4, <1>5, <1>6, LineFields
<1> HIDE DEF fs, ann
<1>8. t \in Groups(ann, fs) /\ u \in Groups(ann, fs)
  <2>1. Leaf(struct[i]).path = <<struct[i].name>> /\ Leaf(struct[j]).path = <<struct[j].name>>
    BY DEF Leaf
  <2> QED
    BY <1>4, <1>5, <1>6, <2>1 DEF Groups
<1>9. IsFiniteSet(Groups(ann, fs))
  <2> DEFINE own == {f \in fs : f.path \in DOMAIN ann}
             last == {f \in fs : f.path \notin DOMAIN ann /\ <<Last(f.path)>> \in DOMAIN ann}
             g == [f \in own |-> ann[f.path]]
             h == [f \in last |-> ann[<<Last(f.path)>>]]
             G == {ann[f.path] : f \in own}
             H == {ann[<<Last(f.path)>>] : f \in last}
  <2>1. IsFiniteSet(fs)
    BY <1>1, LineFields DEF fs
  <2>2. IsFiniteSet(own) /\ IsFiniteSet(last)
    <3>1. own \in SUBSET fs /\ last \in SUBSET fs
      OBVIOUS
    <3> HIDE DEF own, last
    <3> QED
      BY <2>1, <3>1, FS_Subset
  <2>3. Groups(ann, fs) = G \cup H
    BY Zenon DEF Groups
  <2> HIDE DEF own, last
  <2>4. g \in Surjection(own, G) /\ h \in Surjection(last, H)
    BY DEF Surjection
  <2> HIDE DEF g, h, G, H
  <2>5. IsFiniteSet(G) /\ IsFiniteSet(H)
    BY <2>2, <2>4, FS_Surjection
  <2> QED
    BY <2>3, <2>5, FS_Union
<1>10. Cardinality(Groups(ann, fs)) > 1
  BY <1>2, <1>8, <1>9, Several
<1>11. cl \in WarnedLines(struct, ann)
  BY <1>7, <1>10 DEF WarnedLines, ann, fs
<1> QED
  BY <1>1, <1>11

LEMMA SharingIsShown ==
    ASSUME LintInv
    PROVE  SharingShown
<1> SUFFICES ASSUME lint.mode = "diff", NEW m \in Names(lint.new), NEW n \in Names(lint.new),
                    FirstLine(Named(lint.new, m)) = FirstLine(Named(lint.new, n)),
                    ~(/\ {m, n} \subseteq Names(struct)
                      /\ FirstLine(Named(struct, m)) = FirstLine(Named(struct, n)))
             PROVE  \/ {m, n} \cap lint.added # {}
                    \/ {m, n} \cap lint.moved # {} /\ lint.exit = 1
  BY DEF SharingShown
<1>1. /\ lint.added = Names(lint.new) \ Names(struct)
      /\ \A x \in Names(struct) \cap Names(lint.new) :
            FirstLine(Named(struct, x)) # FirstLine(Named(lint.new, x)) => x \in lint.moved
      /\ lint.moved # {} => lint.exit = 1
  BY DEF LintInv
<1>2. CASE {m, n} \subseteq Names(struct)
  <2>1. \/ FirstLine(Named(struct, m)) # FirstLine(Named(lint.new, m))
        \/ FirstLine(Named(struct, n)) # FirstLine(Named(lint.new, n))
    BY <1>2
  <2>2. m \in lint.moved \/ n \in lint.moved
    BY <1>1, <1>2, <2>1
  <2> QED
    BY <1>1, <2>2
<1>3. CASE ~({m, n} \subseteq Names(struct))
  BY <1>1, <1>3
<1> QED
  BY <1>2, <1>3

(* What rtmap-lint says of a plain struct is so, in each of its modes      *)
(* (analyze_struct, divergence_report, diff_structs).                      *)
THEOREM LintAlwaysAgrees == LintSpec => []LintAgrees
<1>1. LintInv => LintAgrees
  BY ContentionIsShown, AnnotationsDoWarn, SharingIsShown DEF LintAgrees
<1> QED
  BY <1>1, LintInvariant, PTL
=============================================================================
