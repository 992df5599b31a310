------------------------- MODULE TypesSafety_proofs -------------------------
(* What RtmapTypes keeps for any heap, any types, any number of threads    *)
(* and any capacities.                                                     *)
EXTENDS RtmapTypes, FiniteSetTheorems, TLAPS

-----------------------------------------------------------------------------
(* A set of numbers that is not empty has a least element.                 *)
LEMMA LeastNumber ==
    ASSUME NEW S \in SUBSET Nat, S # {}
    PROVE  \E x \in S : \A y \in S : x <= y
<1>1. PICK x \in S : \A y \in S : ~(<<y, x>> \in OpToRel(<, Nat))
  BY NatLessThanWellFounded, WFMin, Zenon
<1>2. \A y \in S : ~(y < x)
  BY <1>1 DEF OpToRel
<1> QED
  BY <1>2


-----------------------------------------------------------------------------
(* The inductive invariant.  Its parts take the counters as an argument:   *)
(* they hold of the old maps with the new counters too.                    *)

(* A stamp time lies in the past of the counter that gave it, and a cold   *)
(* stamp has the number 0.                                                 *)
Past(t, s) ==
    t \in Times /\ IF t.of = NoSeq THEN t.seq = 0 ELSE t.seq <= s[t.of]

StmGood(m, s) ==
    /\ DOMAIN m \subseteq Addr
    /\ \A a \in DOMAIN m : m[a] \in [ti : TypeInfos, at : Times] /\ Past(m[a].at, s)

WritesGood(w, s, n) ==
    /\ DOMAIN w \subseteq 1 .. n
    /\ \A e \in DOMAIN w : w[e] \in Writes /\ Past(w[e].at, s)

IndirectGood ==
    /\ DOMAIN indirect \subseteq Addr
    /\ \A a \in DOMAIN indirect : indirect[a] \in TypeInfos

CountsGood == addrSchisms \in [Addr -> Nat] /\ schismCount \in Nat /\ poolReuse \in Nat

DeferredGood ==
    /\ WritesGood(deferred, seq, total)
    /\ Cardinality(DOMAIN deferred) <= DeferredCap

ClockGood == seq \in [Counters -> Nat] /\ total \in Nat

(* The handler's locals.                                                   *)
LocalsGood ==
    /\ pc \in {"event", "upgrade", "site", "replay", "propagate", "scan", "warm"}
    /\ Past(now, seq) /\ val \in Addr \cup {0}
    /\ pass \in 0 .. MaxPasses /\ replayed \in Nat
    /\ WritesGood(hits, seq, total)
    /\ queue \in Seq(Addr) /\ fld \in Nat \ {0} /\ found \in Nat

(* As long as a pass of replay_deferred has stamped nothing, no deferred   *)
(* write is covered.                                                       *)
Settled ==
    /\ pc = "propagate" => pass < MaxPasses
    /\ pc = "propagate" /\ replayed = 0 => \A e \in DOMAIN deferred : ~Covered(deferred[e])

(* Work with a cold stamp was begun by the warm scanner.                   *)
ColdWork == now = Cold /\ pc # "event" => val \in DOMAIN warmed

Control == LocalsGood /\ WorkTyped /\ Settled /\ ColdWork

Tables == TablesOK /\ InvertedOnlyAcrossCounters

TInv ==
    /\ StmGood(stm, seq) /\ CountsGood /\ IndirectGood /\ DeferredGood
    /\ Tables /\ ClockGood /\ Control

-----------------------------------------------------------------------------
(* Types and times                                                         *)

LEMMA InfosGood ==
    ASSUME NEW t \in Types
    PROVE  TypeInfo(t) \in TypeInfos /\ Deep(t) \in TypeInfos
BY DEF TypeInfo, Deep, TypeInfos

LEMMA ColdPast ==
    ASSUME NEW s
    PROVE  Past(Cold, s)
BY DEF Past, Cold, Times

(* An event's own number is new for its counter.                           *)
LEMMA EventTimes ==
    ASSUME ClockGood, NEW c \in Counters, NextEvent(c)
    PROVE  /\ \A t : Past(t, seq) => Past(t, seq')
           /\ Past(StampTime(c), seq') /\ StampTime(c) # Cold
           /\ StampTime(c) \in Times /\ StampTime(c).of = c
           /\ \A t : Past(t, seq) /\ t.of = c => t.seq < StampTime(c).seq
           /\ ClockGood' /\ total' = total + 1
<1>1. c # NoSeq /\ NoSeq \notin Counters
  BY TypesAssumption DEF Counters
<1>2. /\ seq \in [Counters -> Nat] /\ total \in Nat
      /\ seq' = [seq EXCEPT ![c] = @ + 1] /\ total' = total + 1
  BY DEF NextEvent, ClockGood
<1>3. ASSUME NEW t, Past(t, seq)
      PROVE  Past(t, seq') /\ (t.of = c => t.seq < StampTime(c).seq)
  <2>1. t \in Times /\ t.seq \in Nat /\ t.of \in Counters \cup {NoSeq}
    BY <1>3 DEF Past, Times
  <2> QED
    BY <1>1, <1>2, <1>3, <2>1 DEF Past, StampTime
<1>4. Past(StampTime(c), seq') /\ StampTime(c) # Cold
      /\ StampTime(c) \in Times /\ StampTime(c).of = c
  BY <1>1, <1>2 DEF Past, StampTime, Cold, Times
<1>5. ClockGood'
  BY <1>2 DEF ClockGood
<1> QED
  BY <1>2, <1>3, <1>4, <1>5

(* What was good stays good with the new counters.                         *)
LEMMA StillGood ==
    ASSUME TInv, \A t : Past(t, seq) => Past(t, seq'), total' \in Nat, total <= total'
    PROVE  /\ StmGood(stm, seq')
           /\ WritesGood(deferred, seq', total') /\ WritesGood(hits, seq', total')
BY DEF TInv, StmGood, WritesGood, DeferredGood, Control, LocalsGood, ClockGood

(* stamp_type: the map stays good, it loses nothing, no number falls.      *)
LEMMA StampGood ==
    ASSUME NEW s, StmGood(stm, s), CountsGood, NEW a \in Addr, NEW ti \in TypeInfos,
           NEW at, Past(at, s), StampType(stm, a, ti, at)
    PROVE  /\ StmGood(stm', s) /\ CountsGood'
           /\ DOMAIN stm \subseteq DOMAIN stm' /\ a \in DOMAIN stm'
           /\ \A b \in DOMAIN stm : stm'[b].at.seq >= stm[b].at.seq
           /\ ~Applied(stm, a, ti, at) => stm' = stm
<1> DEFINE p == [ti |-> ti, at |-> at]
<1>1. at \in Times /\ at.seq \in Nat /\ p \in [ti : TypeInfos, at : Times] /\ p.at = at
  BY DEF Past, Times
<1>2. \A b \in DOMAIN stm : stm[b].at.seq \in Nat /\ b \in Addr
  BY DEF StmGood, Times
<1> HIDE DEF p
<1>5. CountsGood'
  BY DEF CountsGood, StampType
<1>3. CASE Applied(stm, a, ti, at)
  <2>1. stm' = Insert(stm, a, p)
    BY <1>3 DEF StampType, p
  <2>2. /\ DOMAIN stm' = DOMAIN stm \cup {a} /\ stm'[a] = p
        /\ \A y \in DOMAIN stm : y # a => stm'[y] = stm[y]
    <3>1. /\ DOMAIN Insert(stm, a, p) = DOMAIN stm \cup {a} /\ Insert(stm, a, p)[a] = p
          /\ \A y \in DOMAIN stm : y # a => Insert(stm, a, p)[y] = stm[y]
      BY DEF Insert
    <3> QED
      BY <2>1, <3>1
  <2>3. a \in DOMAIN stm => ~(stm[a].at.seq > at.seq)
    BY <1>3 DEF Applied, StampResult
  <2>4. StmGood(stm', s)
    BY <1>1, <2>2 DEF StmGood
  <2>5. \A b \in DOMAIN stm : stm'[b].at.seq >= stm[b].at.seq
    BY <1>1, <1>2, <2>2, <2>3
  <2> QED
    BY <1>3, <1>5, <2>2, <2>4, <2>5
<1>4. CASE ~Applied(stm, a, ti, at)
  <2>1. stm' = stm /\ a \in DOMAIN stm
    BY <1>4 DEF StampType, Applied, StampResult
  <2>2. \A b \in DOMAIN stm : stm'[b].at.seq >= stm[b].at.seq
    BY <1>2, <2>1
  <2> QED
    BY <1>5, <2>1, <2>2
<1> QED
  BY <1>3, <1>4

-----------------------------------------------------------------------------
(* propagate_field_write                                                   *)

FieldRecords == [off : Nat, to : Types, ind : BOOLEAN, sel : BOOLEAN]

(* A field of a type in the registry.                                      *)
LEMMA FieldTypes ==
    ASSUME NEW ti \in TypeInfos
    PROVE  /\ FieldsOf(ti) \in Seq(FieldRecords)
           /\ \A i \in 1 .. Len(FieldsOf(ti)) : FieldsOf(ti)[i].to \in Types
           /\ \A f \in Range(FieldsOf(ti)) : f.to \in Types
           /\ \A f, g \in Range(FieldsOf(ti)) : f.sel /\ g.sel /\ f.off = g.off => f = g
<1>1. ti.name \in Types
  BY DEF TypeInfos
<1>2. FieldsOf(ti) \in Seq(FieldRecords)
  <2>1. Fields[ti.name] \in Seq(FieldRecords)
    BY <1>1, TypesAssumption DEF FieldRecords
  <2>2. <<>> \in Seq(FieldRecords)
    OBVIOUS
  <2> QED
    BY <2>1, <2>2 DEF FieldsOf
<1>7. \A f \in FieldRecords : f.to \in Types
  BY DEF FieldRecords
<1>3. \A i, j \in DOMAIN FieldsOf(ti) :
         /\ FieldsOf(ti)[i].sel /\ FieldsOf(ti)[j].sel
         /\ FieldsOf(ti)[i].off = FieldsOf(ti)[j].off
         => i = j
  BY <1>1, TypesAssumption DEF FieldsOf
<1>4. \A i \in 1 .. Len(FieldsOf(ti)) : FieldsOf(ti)[i].to \in Types
  BY <1>2, <1>7
<1>5. \A f \in Range(FieldsOf(ti)) : f.to \in Types
  BY <1>2, <1>7 DEF Range
<1>6. \A f, g \in Range(FieldsOf(ti)) : f.sel /\ g.sel /\ f.off = g.off => f = g
  BY <1>3 DEF Range
<1> QED
  BY <1>2, <1>4, <1>5, <1>6

(* At most one field is at an address.                                     *)
LEMMA OneFieldAt ==
    ASSUME NEW s, StmGood(stm, s), NEW a \in Addr
    PROVE  /\ \A f \in FieldsAt(a) : f.to \in Types
           /\ \A f, g \in FieldsAt(a) : f = g
<1>1. Addr \subseteq Nat
  BY TypesAssumption
<1>2. \A b, c : Covers(b, a) /\ Covers(c, a) => b = c
  <2> SUFFICES ASSUME NEW b, NEW c, Covers(b, a), Covers(c, a)
               PROVE  b = c
    OBVIOUS
  <2>1. /\ b \in DOMAIN stm /\ c \in DOMAIN stm /\ b <= a /\ c <= a
        /\ c <= a => c <= b
        /\ b <= a => b <= c
    BY DEF Covers
  <2>2. b \in Nat /\ c \in Nat
    BY <1>1, <2>1 DEF StmGood
  <2> QED
    BY <2>1, <2>2
<1>3. \A b \in DOMAIN stm : stm[b].ti \in TypeInfos
  BY DEF StmGood
<1>4. ASSUME NEW f \in FieldsAt(a), NEW g \in FieldsAt(a)
      PROVE  f.to \in Types /\ f = g
  <2>1. PICK b \in DOMAIN stm : Covers(b, a) /\ f \in Range(FieldsOf(stm[b].ti))
                               /\ f.sel /\ f.off = a - b
    BY DEF FieldsAt
  <2>2. PICK c \in DOMAIN stm : Covers(c, a) /\ g \in Range(FieldsOf(stm[c].ti))
                               /\ g.sel /\ g.off = a - c
    BY DEF FieldsAt
  <2>3. b = c
    BY <1>2, <2>1, <2>2
  <2> QED
    BY <1>3, <2>1, <2>2, <2>3, FieldTypes
<1> QED
  BY <1>4

(* An array of pointers becomes known.                                     *)
LEMMA IndirectInsert ==
    ASSUME IndirectGood, NEW v \in Addr, NEW ti \in TypeInfos, indirect' = Insert(indirect, v, ti)
    PROVE  IndirectGood'
<1>1. /\ DOMAIN Insert(indirect, v, ti) = DOMAIN indirect \cup {v}
      /\ Insert(indirect, v, ti)[v] = ti
      /\ \A y \in DOMAIN indirect : y # v => Insert(indirect, v, ti)[y] = indirect[y]
  BY DEF Insert
<1> QED
  BY <1>1 DEF IndirectGood

(* A propagated write keeps the maps good; v gets a projection if and only *)
(* if the result says so.                                                  *)
LEMMA PropagateGood ==
    ASSUME NEW s, StmGood(stm, s), CountsGood, IndirectGood, NEW a \in Addr,
           NEW v \in Addr \cup {0}, NEW at, Past(at, s), PropagateFieldWrite(a, v, at)
    PROVE  /\ StmGood(stm', s) /\ CountsGood' /\ IndirectGood'
           /\ DOMAIN stm \subseteq DOMAIN stm'
           /\ \A b \in DOMAIN stm : stm'[b].at.seq >= stm[b].at.seq
           /\ Propagates(a, v, at) => v \in DOMAIN stm' /\ v \in Addr
           /\ ~Propagates(a, v, at) => stm' = stm
<1>1. v # 0 => v \in Addr
  OBVIOUS
<1>2. /\ \A f \in FieldsAt(a) : f.to \in Types /\ TypeInfo(f.to) \in TypeInfos
      /\ \A f, g \in FieldsAt(a) : f = g
  BY OneFieldAt, InfosGood
<1>3. ElementTypes(a) \subseteq TypeInfos
  BY DEF ElementTypes, IndirectGood
<1>4. ASSUME UNCHANGED marks
      PROVE  /\ StmGood(stm', s) /\ CountsGood' /\ stm' = stm
             /\ \A b \in DOMAIN stm : stm'[b].at.seq >= stm[b].at.seq
  <2>1. stm' = stm /\ CountsGood'
    BY <1>4 DEF marks, CountsGood
  <2>2. \A b \in DOMAIN stm : stm'[b].at.seq >= stm[b].at.seq
    BY <2>1 DEF StmGood, Times
  <2> QED
    BY <2>1, <2>2
<1>5. CASE v # 0 /\ UNCHANGED indirect /\ \E ti \in ElementTypes(a) : StampType(stm, v, ti, at)
  <2>1. PICK ti \in ElementTypes(a) : StampType(stm, v, ti, at)
    BY <1>5
  <2>2. v \in Addr /\ ti \in TypeInfos
    BY <1>1, <1>3, <1>5
  <2>3. /\ StmGood(stm', s) /\ CountsGood'
        /\ DOMAIN stm \subseteq DOMAIN stm' /\ v \in DOMAIN stm'
        /\ \A b \in DOMAIN stm : stm'[b].at.seq >= stm[b].at.seq
        /\ ~Applied(stm, v, ti, at) => stm' = stm
    BY <2>1, <2>2, StampGood
  <2>4. IndirectGood'
    BY <1>5 DEF IndirectGood
  <2>5. ~Propagates(a, v, at) => ~Applied(stm, v, ti, at)
    BY <1>5 DEF Propagates
  <2> QED
    BY <2>2, <2>3, <2>4, <2>5
<1>6. ASSUME v # 0, ElementTypes(a) = {}, NEW f \in FieldsAt(a),
             IF ~f.ind /\ SamePointee(v, f.to) THEN StampType(stm, v, TypeInfo(f.to), at)
             ELSE UNCHANGED marks,
             indirect' = IF f.ind THEN Insert(indirect, v, TypeInfo(f.to)) ELSE indirect
      PROVE  /\ StmGood(stm', s) /\ CountsGood' /\ IndirectGood'
             /\ DOMAIN stm \subseteq DOMAIN stm'
             /\ \A b \in DOMAIN stm : stm'[b].at.seq >= stm[b].at.seq
             /\ Propagates(a, v, at) => v \in DOMAIN stm' /\ v \in Addr
             /\ ~Propagates(a, v, at) => stm' = stm
  <2>1. TypeInfo(f.to) \in TypeInfos /\ v \in Addr
    BY <1>1, <1>2, <1>6
  <2>2. IndirectGood'
    <3>1. CASE f.ind
      <4>1. indirect' = Insert(indirect, v, TypeInfo(f.to))
        BY <1>6, <3>1
      <4> QED
        BY <2>1, <4>1, IndirectInsert
    <3>2. CASE ~f.ind
      BY <1>6, <3>2 DEF IndirectGood
    <3> QED
      BY <3>1, <3>2
  <2>3. Propagates(a, v, at) <=>
           ~f.ind /\ SamePointee(v, f.to) /\ Applied(stm, v, TypeInfo(f.to), at)
    BY <1>2, <1>6 DEF Propagates
  <2>4. CASE ~f.ind /\ SamePointee(v, f.to)
    <3>1. /\ StmGood(stm', s) /\ CountsGood'
          /\ DOMAIN stm \subseteq DOMAIN stm' /\ v \in DOMAIN stm'
          /\ \A b \in DOMAIN stm : stm'[b].at.seq >= stm[b].at.seq
          /\ ~Applied(stm, v, TypeInfo(f.to), at) => stm' = stm
      BY <1>6, <2>1, <2>4, StampGood
    <3> QED
      BY <2>1, <2>2, <2>3, <2>4, <3>1
  <2>5. CASE ~(~f.ind /\ SamePointee(v, f.to))
    BY <1>4, <1>6, <2>2, <2>3, <2>5
  <2> QED
    BY <2>4, <2>5
<1>7. CASE (v = 0 \/ (ElementTypes(a) = {} /\ FieldsAt(a) = {})) /\ UNCHANGED <<marks, indirect>>
  <2>1. IndirectGood'
    BY <1>7 DEF IndirectGood
  <2>2. ~Propagates(a, v, at)
    BY <1>7 DEF Propagates
  <2> QED
    BY <1>4, <1>7, <2>1, <2>2
<1> QED
  BY <1>5, <1>6, <1>7 DEF PropagateFieldWrite

-----------------------------------------------------------------------------
(* Maps that lose entries, and the buffer of deferred writes               *)

LEMMA StmDrop ==
    ASSUME NEW m, NEW s, StmGood(m, s), NEW xs
    PROVE  StmGood(Drop(m, xs), s) /\ \A a \in DOMAIN Drop(m, xs) : Drop(m, xs)[a] = m[a]
BY DEF StmGood, Drop, Restrict

LEMMA WritesDrop ==
    ASSUME NEW w, NEW s, NEW n, WritesGood(w, s, n), NEW xs
    PROVE  /\ WritesGood(Drop(w, xs), s, n)
           /\ DOMAIN Drop(w, xs) = DOMAIN w \ xs
           /\ \A e \in DOMAIN w \ xs : Drop(w, xs)[e] = w[e]
BY DEF WritesGood, Drop, Restrict

LEMMA WritesFinite ==
    ASSUME NEW w, NEW s, NEW n \in Nat, WritesGood(w, s, n)
    PROVE  IsFiniteSet(DOMAIN w) /\ Cardinality(DOMAIN w) \in Nat
<1>1. DOMAIN w \in SUBSET (1 .. n)
  BY DEF WritesGood
<1>2. IsFiniteSet(1 .. n)
  BY FS_Interval
<1>3. IsFiniteSet(DOMAIN w)
  BY <1>1, <1>2, FS_Subset
<1> QED
  BY <1>3, FS_CardinalityType

LEMMA BufferDrop ==
    ASSUME NEW w, NEW s, NEW n \in Nat, WritesGood(w, s, n), NEW xs,
           Cardinality(DOMAIN w) <= DeferredCap
    PROVE  Cardinality(DOMAIN Drop(w, xs)) <= DeferredCap
<1>1. IsFiniteSet(DOMAIN w)
  BY WritesFinite
<1>2. DOMAIN Drop(w, xs) \in SUBSET DOMAIN w
  BY DEF Drop, Restrict
<1>3. IsFiniteSet(DOMAIN Drop(w, xs)) /\ Cardinality(DOMAIN Drop(w, xs)) <= Cardinality(DOMAIN w)
  BY <1>1, <1>2, FS_Subset
<1>4. Cardinality(DOMAIN w) \in Nat /\ Cardinality(DOMAIN Drop(w, xs)) \in Nat
  BY <1>1, <1>3, FS_CardinalityType
<1> QED
  BY <1>3, <1>4, TypesAssumption

(* defer_write: the buffer stays within its capacity.                      *)
LEMMA DeferGood ==
    ASSUME NEW s, WritesGood(deferred, s, total), total \in Nat,
           Cardinality(DOMAIN deferred) <= DeferredCap,
           NEW d \in Writes, Past(d.at, s)
    PROVE  /\ WritesGood(Defer(d), s, total + 1)
           /\ Cardinality(DOMAIN Defer(d)) <= DeferredCap
<1> DEFINE old == DOMAIN deferred
           oldest == {e \in old : \A f \in old : e <= f}
           kept == IF Cardinality(old) >= DeferredCap THEN Drop(deferred, oldest) ELSE deferred
<1>1. Defer(d) = Insert(kept, total + 1, d)
  BY DEF Defer
<1>2. IsFiniteSet(old) /\ Cardinality(old) \in Nat /\ old \subseteq 1 .. total
  BY WritesFinite DEF WritesGood
<1>3. DeferredCap \in Nat \ {0}
  BY TypesAssumption
<1>4. /\ WritesGood(kept, s, total) /\ IsFiniteSet(DOMAIN kept)
      /\ Cardinality(DOMAIN kept) \in Nat
      /\ Cardinality(DOMAIN kept) + 1 <= DeferredCap
  <2>1. CASE Cardinality(old) >= DeferredCap
    <3>1. old # {} /\ old \in SUBSET Nat
      BY <1>2, <1>3, <2>1, FS_EmptySet
    <3>2. PICK x \in old : \A y \in old : x <= y
      BY <3>1, LeastNumber
    <3>3. oldest = {x}
      BY <3>1, <3>2
    <3>4. kept = Drop(deferred, {x})
      BY <2>1, <3>3
    <3>5. DOMAIN kept = old \ {x} /\ WritesGood(kept, s, total)
      BY <3>4, WritesDrop
    <3>6. IsFiniteSet(old \ {x}) /\ Cardinality(old \ {x}) = Cardinality(old) - 1
      BY <1>2, <3>2, FS_RemoveElement
    <3>7. Cardinality(old \ {x}) \in Nat
      BY <3>6, FS_CardinalityType
    <3> HIDE DEF kept
    <3> QED
      BY <1>2, <1>3, <3>5, <3>6, <3>7
  <2>2. CASE ~(Cardinality(old) >= DeferredCap)
    <3>1. kept = deferred
      BY <2>2
    <3> HIDE DEF kept
    <3> QED
      BY <1>2, <1>3, <2>2, <3>1
  <2> QED
    BY <2>1, <2>2
<1> HIDE DEF kept
<1>5. /\ DOMAIN Defer(d) = DOMAIN kept \cup {total + 1} /\ Defer(d)[total + 1] = d
      /\ \A e \in DOMAIN kept : e # total + 1 => Defer(d)[e] = kept[e]
  BY <1>1 DEF Insert
<1>6. WritesGood(Defer(d), s, total + 1)
  BY <1>4, <1>5 DEF WritesGood
<1>7. total + 1 \notin DOMAIN kept
  BY <1>4 DEF WritesGood
<1>8. Cardinality(DOMAIN kept \cup {total + 1}) = Cardinality(DOMAIN kept) + 1
  BY <1>4, <1>7, FS_AddElement
<1> QED
  BY <1>4, <1>5, <1>6, <1>8

-----------------------------------------------------------------------------
(* Where a handler goes on                                                 *)

LEMMA NoWrites ==
    ASSUME NEW s, NEW n
    PROVE  WritesGood(EmptyMap, s, n)
BY DEF WritesGood, EmptyMap

LEMMA IdleGood ==
    ASSUME Idle
    PROVE  Control'
<1>1. LocalsGood'
  <2>1. Past(Cold, seq') /\ WritesGood(EmptyMap, seq', total')
    BY ColdPast, NoWrites
  <2>2. 0 \in 0 .. MaxPasses /\ <<>> \in Seq(Addr)
    BY TypesAssumption
  <2> QED
    BY <2>1, <2>2 DEF LocalsGood, Idle, EndReplay
<1> QED
  BY <1>1 DEF Idle, Control, WorkTyped, Settled, ColdWork

LEMMA StartScanGood ==
    ASSUME NEW a \in Addr, NEW at, Past(at, seq'), StartScan(a, at), a \in DOMAIN stm',
           at = Cold => a \in DOMAIN warmed'
    PROVE  Control'
<1>1. LocalsGood'
  <2>1. WritesGood(EmptyMap, seq', total')
    BY NoWrites
  <2>2. 0 \in 0 .. MaxPasses /\ <<a>> \in Seq(Addr)
    BY TypesAssumption
  <2> QED
    BY <2>1, <2>2 DEF LocalsGood, StartScan, EndReplay
<1>2. Range(<<a>>) = {a} /\ <<a>> # <<>>
  BY DEF Range
<1> QED
  BY <1>1, <1>2 DEF StartScan, Control, WorkTyped, Settled, ColdWork

(* The handler goes on with an address; the locals of a replay and a scan  *)
(* are as they were.                                                       *)
LEMMA StartWorkGood ==
    ASSUME TInv, \A t : Past(t, seq) => Past(t, seq'), total' \in Nat, total <= total',
           NEW a \in Addr, NEW at, Past(at, seq'),
           pc' \in {"upgrade", "replay", "site"}, now' = at, val' = a,
           UNCHANGED <<replay, scan>>,
           pc' # "site" => a \in DOMAIN stm',
           pc' = "site" => a \in DOMAIN allocs',
           at = Cold => a \in DOMAIN warmed'
    PROVE  Control'
<1>1. WritesGood(hits, seq', total')
  BY StillGood
<1>2. LocalsGood'
  BY <1>1 DEF LocalsGood, TInv, Control, replay, scan
<1> QED
  BY <1>2 DEF Control, WorkTyped, Settled, ColdWork

-----------------------------------------------------------------------------
(* Epochs and tables                                                       *)

LEMMA CloseEpochGood ==
    ASSUME TInv, NEW a \in DOMAIN stm, NEW at \in Times,
           stm[a].at.seq > at.seq => stm[a].at.of # at.of
    PROVE  /\ CloseEpoch(a, at) \subseteq [addr : Addr, type : Types, open : Times, close : Times]
           /\ \A e \in CloseEpoch(a, at) : e.open.seq > e.close.seq => e.open.of # e.close.of
<1>1. /\ a \in Addr /\ stm[a].ti.name \in Types /\ stm[a].at \in Times
      /\ epochs \subseteq [addr : Addr, type : Types, open : Times, close : Times]
      /\ \A e \in epochs : e.open.seq > e.close.seq => e.open.of # e.close.of
  BY DEF TInv, StmGood, TypeInfos, Tables, TablesOK, InvertedOnlyAcrossCounters
<1> QED
  BY <1>1 DEF CloseEpoch

(* An event closes the epoch of a projection.                              *)
LEMMA EventClosesEpoch ==
    ASSUME TInv, NEW c \in Counters, NextEvent(c), NEW a \in DOMAIN stm
    PROVE  /\ CloseEpoch(a, StampTime(c)) \subseteq
                 [addr : Addr, type : Types, open : Times, close : Times]
           /\ \A e \in CloseEpoch(a, StampTime(c)) :
                 e.open.seq > e.close.seq => e.open.of # e.close.of
<1>1. ClockGood
  BY DEF TInv
<1>2. /\ StampTime(c) \in Times /\ StampTime(c).of = c
      /\ \A t : Past(t, seq) /\ t.of = c => t.seq < StampTime(c).seq
  BY <1>1, EventTimes
<1>3. Past(stm[a].at, seq) /\ stm[a].at.seq \in Nat /\ StampTime(c).seq \in Nat
  BY <1>2 DEF TInv, StmGood, Times
<1>4. stm[a].at.seq > StampTime(c).seq => stm[a].at.of # StampTime(c).of
  BY <1>2, <1>3
<1> QED
  BY <1>2, <1>4, CloseEpochGood

LEMMA TablesKeep ==
    ASSUME Tables, UNCHANGED <<allocs, totalAllocs, warmed, epochs>>, shallow' \subseteq shallow
    PROVE  Tables'
BY DEF Tables, TablesOK, InvertedOnlyAcrossCounters

LEMMA SameMarks ==
    ASSUME NEW s, StmGood(stm, s), CountsGood, UNCHANGED marks
    PROVE  StmGood(stm', s) /\ CountsGood' /\ stm' = stm
BY DEF marks, CountsGood

LEMMA SameClock ==
    ASSUME TInv, UNCHANGED clock
    PROVE  /\ seq' = seq /\ total' = total /\ total \in Nat /\ ClockGood'
           /\ \A t : Past(t, seq) => Past(t, seq')
           /\ total' \in Nat /\ total <= total'
<1>1. seq' = seq /\ total' = total /\ total \in Nat /\ seq \in [Counters -> Nat]
  BY DEF clock, TInv, ClockGood
<1> QED
  BY <1>1 DEF ClockGood

-----------------------------------------------------------------------------
(* The events                                                              *)

LEMMA TypesInit == Init => TInv
<1> SUFFICES ASSUME Init PROVE TInv
  OBVIOUS
<1>1. StmGood(stm, seq) /\ IndirectGood
  BY DEF Init, StmGood, IndirectGood, EmptyMap
<1>2. CountsGood
  BY DEF Init, CountsGood
<1>3. DeferredGood
  <2>1. DOMAIN EmptyMap = {}
    BY DEF EmptyMap
  <2> QED
    BY <2>1, NoWrites, FS_EmptySet, TypesAssumption DEF Init, DeferredGood
<1>4. Tables
  BY TypesAssumption DEF Init, Tables, TablesOK, InvertedOnlyAcrossCounters, EmptyMap
<1>5. ClockGood
  BY DEF Init, ClockGood
<1>6. LocalsGood
  <2>1. Past(Cold, seq) /\ WritesGood(EmptyMap, seq, total)
    BY ColdPast, NoWrites
  <2>2. 0 \in 0 .. MaxPasses /\ <<>> \in Seq(Addr)
    BY TypesAssumption
  <2> QED
    BY <2>1, <2>2 DEF LocalsGood, Init
<1>7. Control
  BY <1>6 DEF Init, Control, WorkTyped, Settled, ColdWork
<1> QED
  BY <1>1, <1>2, <1>3, <1>4, <1>5, <1>7 DEF TInv

(* What every event brings.                                                *)
LEMMA EventBasics ==
    ASSUME TInv, NEW c \in Counters, NextEvent(c)
    PROVE  /\ \A t : Past(t, seq) => Past(t, seq')
           /\ Past(StampTime(c), seq') /\ StampTime(c) # Cold
           /\ total' = total + 1 /\ total \in Nat /\ total' \in Nat /\ total <= total'
           /\ ClockGood'
           /\ StmGood(stm, seq') /\ WritesGood(deferred, seq', total')
           /\ WritesGood(deferred, seq', total)
           /\ Cardinality(DOMAIN deferred) <= DeferredCap
           /\ CountsGood /\ IndirectGood /\ Tables
<1>1. ClockGood /\ CountsGood /\ IndirectGood /\ Tables
      /\ Cardinality(DOMAIN deferred) <= DeferredCap
  BY DEF TInv, DeferredGood
<1>2. /\ \A t : Past(t, seq) => Past(t, seq')
      /\ Past(StampTime(c), seq') /\ StampTime(c) # Cold
      /\ ClockGood' /\ total' = total + 1
  BY <1>1, EventTimes
<1>3. total \in Nat /\ total' \in Nat /\ total <= total'
  BY <1>1, <1>2 DEF ClockGood
<1>4. StmGood(stm, seq') /\ WritesGood(deferred, seq', total')
  BY <1>2, <1>3, StillGood
<1>5. WritesGood(deferred, seq', total)
  BY <1>2 DEF WritesGood, TInv, DeferredGood
<1> QED
  BY <1>1, <1>2, <1>3, <1>4, <1>5

LEMMA WriteHeapGood ==
    ASSUME TInv, NEW c \in Counters, NEW a \in Addr, NEW v \in Addr \cup {0}, WriteHeap(c, a, v)
    PROVE  TInv'
<1> DEFINE at == StampTime(c)
<1>1. NextEvent(c) /\ PropagateFieldWrite(a, v, at)
      /\ UNCHANGED <<allocs, totalAllocs, epochs, shallow, warmed>>
  BY DEF WriteHeap
<1>2. /\ \A t : Past(t, seq) => Past(t, seq')
      /\ Past(at, seq') /\ at # Cold
      /\ total' = total + 1 /\ total \in Nat /\ total' \in Nat /\ total <= total'
      /\ ClockGood'
      /\ StmGood(stm, seq') /\ WritesGood(deferred, seq', total')
      /\ WritesGood(deferred, seq', total)
      /\ Cardinality(DOMAIN deferred) <= DeferredCap
      /\ CountsGood /\ IndirectGood /\ Tables
  BY <1>1, EventBasics
<1> HIDE DEF at
<1>3. /\ StmGood(stm', seq') /\ CountsGood' /\ IndirectGood'
      /\ Propagates(a, v, at) => v \in DOMAIN stm' /\ v \in Addr
  BY <1>1, <1>2, PropagateGood
<1>4. Tables'
  BY <1>1, <1>2, TablesKeep
<1>5. DeferredGood' /\ Control'
  <2>1. CASE Propagates(a, v, at)
    <3>1. /\ pc' = "upgrade" /\ now' = at /\ val' = v
          /\ UNCHANGED <<deferred, replay, scan>>
      BY <2>1 DEF WriteHeap, at
    <3>2. Control'
      BY <1>2, <1>3, <2>1, <3>1, StartWorkGood
    <3> QED
      BY <1>2, <3>1, <3>2 DEF DeferredGood
  <2>2. CASE ~Propagates(a, v, at)
    <3>1. /\ deferred' = IF v = 0 THEN deferred
                         ELSE Defer([addr |-> a, value |-> v, at |-> at])
          /\ Idle
      BY <2>2 DEF WriteHeap, at
    <3>2. CASE v = 0
      BY <1>2, <3>1, <3>2, IdleGood DEF DeferredGood
    <3>3. CASE v # 0
      <4>1. [addr |-> a, value |-> v, at |-> at] \in Writes
        BY <1>2, <3>3 DEF Writes, Past
      <4>2. /\ WritesGood(Defer([addr |-> a, value |-> v, at |-> at]), seq', total + 1)
            /\ Cardinality(DOMAIN Defer([addr |-> a, value |-> v, at |-> at])) <= DeferredCap
        BY <1>2, <4>1, DeferGood
      <4> QED
        BY <1>2, <3>1, <3>3, <4>2, IdleGood DEF DeferredGood
    <3> QED
      BY <3>2, <3>3
  <2> QED
    BY <2>1, <2>2
<1> QED
  BY <1>2, <1>3, <1>4, <1>5 DEF TInv

LEMMA WriteGlobalGood ==
    ASSUME TInv, NEW c \in Counters, NEW g \in Globals, NEW v \in Addr, WriteGlobal(c, g, v)
    PROVE  TInv'
<1> DEFINE at == StampTime(c)
           ti == Deep(Pointee[g])
<1>1. /\ NextEvent(c) /\ StampType(stm, v, ti, at)
      /\ shallow' = shallow \ {Pointee[g]}
      /\ epochs' = IF StampResult(stm, v, ti, at) = "schism" /\ v \in DOMAIN allocs
                   THEN CloseEpoch(v, at) ELSE epochs
      /\ IF Applied(stm, v, ti, at) THEN StartReplay(v, at) ELSE Idle
      /\ UNCHANGED <<indirect, deferred, allocs, totalAllocs, warmed>>
  BY DEF WriteGlobal
<1>2. /\ \A t : Past(t, seq) => Past(t, seq')
      /\ Past(at, seq') /\ at # Cold
      /\ total' \in Nat /\ total <= total'
      /\ ClockGood'
      /\ StmGood(stm, seq') /\ WritesGood(deferred, seq', total')
      /\ Cardinality(DOMAIN deferred) <= DeferredCap
      /\ CountsGood /\ IndirectGood /\ Tables
  BY <1>1, EventBasics
<1>3. ti \in TypeInfos
  BY InfosGood, TypesAssumption
<1>4. StampResult(stm, v, ti, at) = "schism" => v \in DOMAIN stm
  BY DEF StampResult
<1>5. v \in DOMAIN stm =>
         /\ CloseEpoch(v, at) \subseteq [addr : Addr, type : Types, open : Times, close : Times]
         /\ \A e \in CloseEpoch(v, at) : e.open.seq > e.close.seq => e.open.of # e.close.of
  BY <1>1, EventClosesEpoch
<1> HIDE DEF at, ti
<1>6. StmGood(stm', seq') /\ CountsGood' /\ v \in DOMAIN stm'
  BY <1>1, <1>2, <1>3, StampGood
<1>7. Tables'
  BY <1>1, <1>2, <1>4, <1>5 DEF Tables, TablesOK, InvertedOnlyAcrossCounters
<1>8. Control'
  <2>1. CASE Applied(stm, v, ti, at)
    BY <1>1, <1>2, <1>6, <2>1, StartWorkGood DEF StartReplay
  <2>2. CASE ~Applied(stm, v, ti, at)
    BY <1>1, <2>2, IdleGood
  <2> QED
    BY <2>1, <2>2
<1>9. IndirectGood' /\ DeferredGood'
  BY <1>1, <1>2 DEF IndirectGood, DeferredGood
<1> QED
  BY <1>2, <1>6, <1>7, <1>8, <1>9 DEF TInv

LEMMA AllocGood ==
    ASSUME TInv, NEW c \in Counters, NEW p \in Addr, NEW n \in Sizes, Alloc(c, p, n)
    PROVE  TInv'
<1> DEFINE at == StampTime(c)
           resized == p \in DOMAIN allocs /\ allocs[p].size # n
<1>1. /\ NextEvent(c)
      /\ allocs' = Insert(allocs, p, [size |-> n, seq |-> totalAllocs])
      /\ totalAllocs' = totalAllocs + 1
      /\ epochs' = IF resized /\ p \in DOMAIN stm THEN CloseEpoch(p, at) ELSE epochs
      /\ stm' = IF resized THEN Drop(stm, InRange(p, allocs[p].size)) ELSE stm
      /\ pc' = "site" /\ now' = at /\ val' = p
      /\ UNCHANGED <<addrSchisms, schismCount, poolReuse, indirect, deferred,
                     shallow, warmed, replay, scan>>
  BY DEF Alloc
<1>2. /\ \A t : Past(t, seq) => Past(t, seq')
      /\ Past(at, seq') /\ at # Cold
      /\ total' \in Nat /\ total <= total'
      /\ ClockGood'
      /\ StmGood(stm, seq') /\ WritesGood(deferred, seq', total')
      /\ Cardinality(DOMAIN deferred) <= DeferredCap
      /\ CountsGood /\ IndirectGood /\ Tables
  BY <1>1, EventBasics
<1>3. p \in DOMAIN stm =>
         /\ CloseEpoch(p, at) \subseteq [addr : Addr, type : Types, open : Times, close : Times]
         /\ \A e \in CloseEpoch(p, at) : e.open.seq > e.close.seq => e.open.of # e.close.of
  BY <1>1, EventClosesEpoch
<1> HIDE DEF at, resized
<1>4. StmGood(stm', seq')
  BY <1>1, <1>2, StmDrop
<1>5. /\ DOMAIN allocs' = DOMAIN allocs \cup {p} /\ allocs'[p] = [size |-> n, seq |-> totalAllocs]
      /\ \A y \in DOMAIN allocs : y # p => allocs'[y] = allocs[y]
  BY <1>1 DEF Insert
<1>6. Tables'
  BY <1>1, <1>2, <1>3, <1>5 DEF Tables, TablesOK, InvertedOnlyAcrossCounters
<1>7. Control'
  BY <1>1, <1>2, <1>5, StartWorkGood
<1>8. CountsGood' /\ IndirectGood' /\ DeferredGood'
  BY <1>1, <1>2 DEF CountsGood, IndirectGood, DeferredGood
<1> QED
  BY <1>2, <1>4, <1>6, <1>7, <1>8 DEF TInv

LEMMA FreeGood ==
    ASSUME TInv, NEW c \in Counters, NEW p \in Addr, Free(c, p)
    PROVE  TInv'
<1> DEFINE at == StampTime(c)
<1>1. /\ NextEvent(c)
      /\ allocs' = Drop(allocs, {p})
      /\ epochs' = IF p \in DOMAIN stm THEN CloseEpoch(p, at) ELSE epochs
      /\ \/ \E range : Purge(range)
         \/ UNCHANGED <<stm, indirect, deferred>>
      /\ Idle
      /\ UNCHANGED <<addrSchisms, schismCount, poolReuse, totalAllocs, shallow, warmed>>
  BY DEF Free
<1>2. /\ ClockGood' /\ total' \in Nat
      /\ StmGood(stm, seq') /\ WritesGood(deferred, seq', total')
      /\ Cardinality(DOMAIN deferred) <= DeferredCap
      /\ CountsGood /\ IndirectGood /\ Tables
  BY <1>1, EventBasics
<1>3. p \in DOMAIN stm =>
         /\ CloseEpoch(p, at) \subseteq [addr : Addr, type : Types, open : Times, close : Times]
         /\ \A e \in CloseEpoch(p, at) : e.open.seq > e.close.seq => e.open.of # e.close.of
  BY <1>1, EventClosesEpoch
<1> HIDE DEF at
<1>4. StmGood(stm', seq') /\ IndirectGood' /\ DeferredGood'
  <2>1. CASE UNCHANGED <<stm, indirect, deferred>>
    BY <1>2, <2>1 DEF IndirectGood, DeferredGood
  <2>2. ASSUME NEW range, Purge(range)
        PROVE  StmGood(stm', seq') /\ IndirectGood' /\ DeferredGood'
    <3>1. PICK es : /\ stm' = Drop(stm, range) /\ indirect' = Drop(indirect, range)
                    /\ deferred' = Drop(deferred, es)
      BY <2>2 DEF Purge
    <3>2. IndirectGood'
      BY <1>2, <3>1 DEF IndirectGood, Drop, Restrict
    <3>3. StmGood(stm', seq')
      BY <1>2, <3>1, StmDrop
    <3>4. DeferredGood'
      BY <1>2, <3>1, WritesDrop, BufferDrop DEF DeferredGood
    <3> QED
      BY <3>2, <3>3, <3>4
  <2> QED
    BY <1>1, <2>1, <2>2
<1>5. DOMAIN allocs' \subseteq DOMAIN allocs /\ \A y \in DOMAIN allocs' : allocs'[y] = allocs[y]
  BY <1>1 DEF Drop, Restrict
<1>6. Tables'
  BY <1>1, <1>2, <1>3, <1>5 DEF Tables, TablesOK, InvertedOnlyAcrossCounters
<1>7. Control' /\ CountsGood'
  BY <1>1, <1>2, IdleGood DEF CountsGood
<1> QED
  BY <1>2, <1>4, <1>6, <1>7 DEF TInv

LEMMA OtherEventGood ==
    ASSUME TInv, NEW c \in Counters, OtherEvent(c)
    PROVE  TInv'
<1>1. /\ NextEvent(c) /\ Idle
      /\ UNCHANGED <<marks, indirect, deferred, allocs, totalAllocs, epochs, shallow, warmed>>
  BY DEF OtherEvent
<1>2. /\ ClockGood' /\ StmGood(stm, seq') /\ WritesGood(deferred, seq', total')
      /\ Cardinality(DOMAIN deferred) <= DeferredCap
      /\ CountsGood /\ IndirectGood /\ Tables
  BY <1>1, EventBasics
<1>3. StmGood(stm', seq') /\ CountsGood' /\ Tables' /\ Control'
  BY <1>1, <1>2, SameMarks, TablesKeep, IdleGood
<1>4. IndirectGood' /\ DeferredGood'
  BY <1>1, <1>2 DEF IndirectGood, DeferredGood
<1> QED
  BY <1>2, <1>3, <1>4 DEF TInv

(* A cold stamp over another type is only made over another cold stamp.    *)
LEMMA WarmStampGood ==
    ASSUME TInv, NEW a \in Addr, NEW t \in Types, WarmStamp(a, t)
    PROVE  TInv'
<1>1. /\ warmed' = Insert(warmed, a, t) /\ shallow' = shallow \ {t}
      /\ StampType(stm, a, Deep(t), Cold)
      /\ epochs' = IF /\ StampResult(stm, a, Deep(t), Cold) = "schism"
                      /\ ~IsReuse(a) /\ a \in DOMAIN allocs
                   THEN CloseEpoch(a, Cold) ELSE epochs
      /\ StartReplay(a, Cold) \/ StartScan(a, Cold) \/ Idle
      /\ UNCHANGED <<indirect, deferred, allocs, totalAllocs, clock>>
  BY DEF WarmStamp
<1>2. /\ \A u : Past(u, seq) => Past(u, seq')
      /\ seq' = seq /\ total' = total /\ total' \in Nat /\ total <= total' /\ ClockGood'
  BY <1>1, SameClock
<1>3. /\ StmGood(stm, seq) /\ CountsGood /\ IndirectGood /\ DeferredGood /\ Tables
      /\ Deep(t) \in TypeInfos /\ Past(Cold, seq) /\ Cold \in Times
  BY InfosGood, ColdPast DEF TInv, Past
<1>4. StmGood(stm', seq') /\ CountsGood' /\ a \in DOMAIN stm'
  BY <1>1, <1>2, <1>3, StampGood
<1>5. StampResult(stm, a, Deep(t), Cold) = "schism" =>
         /\ CloseEpoch(a, Cold) \subseteq [addr : Addr, type : Types, open : Times, close : Times]
         /\ \A e \in CloseEpoch(a, Cold) : e.open.seq > e.close.seq => e.open.of # e.close.of
  <2> SUFFICES ASSUME StampResult(stm, a, Deep(t), Cold) = "schism"
               PROVE  a \in DOMAIN stm /\ ~(stm[a].at.seq > Cold.seq)
    BY <1>3, CloseEpochGood
  <2> QED
    BY DEF StampResult
<1>6. DOMAIN warmed' = DOMAIN warmed \cup {a} /\ warmed'[a] = t
      /\ \A y \in DOMAIN warmed : y # a => warmed'[y] = warmed[y]
  BY <1>1 DEF Insert
<1>7. Tables'
  BY <1>1, <1>3, <1>5, <1>6 DEF Tables, TablesOK, InvertedOnlyAcrossCounters
<1>8. Control'
  <2>1. CASE StartReplay(a, Cold)
    BY <1>2, <1>3, <1>4, <1>6, <2>1, StartWorkGood DEF StartReplay
  <2>2. CASE StartScan(a, Cold)
    BY <1>2, <1>3, <1>4, <1>6, <2>2, StartScanGood
  <2> QED
    BY <1>1, <2>1, <2>2, IdleGood
<1>9. IndirectGood' /\ DeferredGood'
  BY <1>1, <1>2, <1>3 DEF IndirectGood, DeferredGood
<1> QED
  BY <1>2, <1>4, <1>7, <1>8, <1>9 DEF TInv

-----------------------------------------------------------------------------
(* The work a stamp sets off                                               *)

(* What every step without an event keeps.                                 *)
LEMMA WorkBasics ==
    ASSUME TInv, UNCHANGED clock
    PROVE  /\ \A u : Past(u, seq) => Past(u, seq')
           /\ seq' = seq /\ total' = total /\ total \in Nat
           /\ total' \in Nat /\ total <= total' /\ ClockGood'
           /\ StmGood(stm, seq) /\ CountsGood /\ IndirectGood /\ DeferredGood /\ Tables
           /\ Past(now, seq) /\ Past(now, seq') /\ WritesGood(hits, seq, total)
           /\ WritesGood(deferred, seq, total)
           /\ pc \in {"upgrade", "replay", "propagate"} => val \in DOMAIN stm
           /\ now = Cold /\ pc # "event" => val \in DOMAIN warmed
<1>1. /\ \A u : Past(u, seq) => Past(u, seq')
      /\ seq' = seq /\ total' = total /\ total \in Nat
      /\ total' \in Nat /\ total <= total' /\ ClockGood'
  BY SameClock
<1> QED
  BY <1>1 DEF TInv, Control, LocalsGood, DeferredGood, WorkTyped, ColdWork

LEMMA UpgradeGood ==
    ASSUME TInv, Upgrade
    PROVE  TInv'
<1> DEFINE ti == stm[val].ti
<1>1. /\ pc = "upgrade" /\ shallow' = shallow \ {ti.name}
      /\ IF ti.shallow THEN StampType(stm, val, Deep(ti.name), now) ELSE UNCHANGED marks
      /\ StartScan(val, now)
      /\ UNCHANGED <<indirect, deferred, allocs, totalAllocs, epochs, warmed, clock>>
  BY DEF Upgrade
<1>2. /\ seq' = seq /\ total' = total /\ ClockGood'
      /\ StmGood(stm, seq) /\ CountsGood /\ IndirectGood /\ DeferredGood /\ Tables
      /\ Past(now, seq') /\ val \in DOMAIN stm /\ (now = Cold => val \in DOMAIN warmed)
      /\ Past(now, seq)
  BY <1>1, WorkBasics
<1>3. val \in Addr /\ Deep(ti.name) \in TypeInfos
  BY <1>2, InfosGood DEF StmGood, TypeInfos
<1> HIDE DEF ti
<1>4. StmGood(stm', seq') /\ CountsGood' /\ val \in DOMAIN stm'
  <2>1. CASE ti.shallow
    BY <1>1, <1>2, <1>3, <2>1, StampGood
  <2>2. CASE ~ti.shallow
    BY <1>1, <1>2, <2>2, SameMarks
  <2> QED
    BY <2>1, <2>2
<1>5. Tables'
  BY <1>1, <1>2, TablesKeep
<1>6. Control'
  BY <1>1, <1>2, <1>3, <1>4, StartScanGood
<1>7. IndirectGood' /\ DeferredGood'
  BY <1>1, <1>2 DEF IndirectGood, DeferredGood
<1> QED
  BY <1>2, <1>4, <1>5, <1>6, <1>7 DEF TInv

LEMMA AllocSiteGood ==
    ASSUME TInv, AllocSite
    PROVE  TInv'
<1>1. PICK t \in Oracle[allocs[val].size] :
         \/ /\ t = NoType
            /\ Idle
            /\ UNCHANGED <<marks, shallow>>
         \/ /\ t # NoType
            /\ shallow' = shallow \ {t}
            /\ StampType(stm, val, Deep(t), now)
            /\ IF Applied(stm, val, Deep(t), now) THEN StartReplay(val, now) ELSE Idle
  BY DEF AllocSite
<1>2. pc = "site" /\ UNCHANGED <<indirect, deferred, allocs, totalAllocs, epochs, warmed, clock>>
  BY DEF AllocSite
<1>3. /\ \A u : Past(u, seq) => Past(u, seq')
      /\ seq' = seq /\ total' = total /\ total' \in Nat /\ total <= total' /\ ClockGood'
      /\ StmGood(stm, seq) /\ CountsGood /\ IndirectGood /\ DeferredGood /\ Tables
      /\ Past(now, seq') /\ (now = Cold => val \in DOMAIN warmed) /\ Past(now, seq)
  BY <1>2, WorkBasics
<1>4. val \in Addr /\ allocs[val].size \in Sizes
  BY <1>2 DEF TInv, Control, WorkTyped, Tables, TablesOK
<1>5. t # NoType => t \in Types /\ Deep(t) \in TypeInfos
  BY <1>4, InfosGood, TypesAssumption
<1>6. IndirectGood' /\ DeferredGood'
  BY <1>2, <1>3 DEF IndirectGood, DeferredGood
<1>7. CASE t = NoType /\ Idle /\ UNCHANGED <<marks, shallow>>
  <2>1. StmGood(stm', seq') /\ CountsGood' /\ Tables' /\ Control'
    BY <1>2, <1>3, <1>7, SameMarks, TablesKeep, IdleGood
  <2> QED
    BY <1>3, <1>6, <2>1 DEF TInv
<1>8. CASE /\ t # NoType
           /\ shallow' = shallow \ {t}
           /\ StampType(stm, val, Deep(t), now)
           /\ IF Applied(stm, val, Deep(t), now) THEN StartReplay(val, now) ELSE Idle
  <2>1. StmGood(stm', seq') /\ CountsGood' /\ val \in DOMAIN stm'
    BY <1>3, <1>4, <1>5, <1>8, StampGood
  <2>2. Tables'
    BY <1>2, <1>3, <1>8, TablesKeep
  <2>3. Control'
    <3>1. CASE StartReplay(val, now)
      BY <1>2, <1>3, <1>4, <2>1, <3>1, StartWorkGood DEF StartReplay
    <3> QED
      BY <1>8, <3>1, IdleGood
  <2> QED
    BY <1>3, <1>6, <2>1, <2>2, <2>3 DEF TInv
<1> QED
  BY <1>1, <1>7, <1>8

(* The writes that are covered go, so no deferred write is covered.        *)
LEMMA ReplayPassGood ==
    ASSUME TInv, ReplayPass
    PROVE  TInv'
<1> DEFINE covered == {e \in DOMAIN deferred : Covered(deferred[e])}
<1>1. /\ pc = "replay"
      /\ UNCHANGED <<marks, indirect, allocs, totalAllocs, epochs, shallow, warmed, clock>>
  BY DEF ReplayPass
<1>2. /\ \A u : Past(u, seq) => Past(u, seq')
      /\ seq' = seq /\ total' = total /\ total \in Nat /\ ClockGood'
      /\ StmGood(stm, seq) /\ CountsGood /\ IndirectGood /\ DeferredGood /\ Tables
      /\ Past(now, seq') /\ Past(now, seq) /\ WritesGood(deferred, seq, total)
      /\ val \in DOMAIN stm /\ (now = Cold => val \in DOMAIN warmed)
  BY <1>1, WorkBasics
<1>3. StmGood(stm', seq') /\ CountsGood' /\ stm' = stm
  BY <1>1, <1>2, SameMarks
<1>4. Tables'
  BY <1>1, <1>2, TablesKeep
<1>5. IndirectGood'
  BY <1>1, <1>2 DEF IndirectGood
<1>6. CASE StartScan(val, now) /\ UNCHANGED deferred
  <2>1. Control'
    BY <1>1, <1>2, <1>3, <1>6, StartScanGood DEF StmGood
  <2>2. DeferredGood'
    BY <1>2, <1>6 DEF DeferredGood
  <2> QED
    BY <1>2, <1>3, <1>4, <1>5, <2>1, <2>2 DEF TInv
<1>7. CASE /\ pass < MaxPasses /\ covered # {}
           /\ hits' = Restrict(deferred, covered)
           /\ deferred' = Drop(deferred, covered)
           /\ replayed' = 0
           /\ pc' = "propagate"
           /\ UNCHANGED <<pass, scan, now, val>>
  <2>1. /\ WritesGood(deferred', seq', total')
        /\ DOMAIN deferred' = DOMAIN deferred \ covered
        /\ \A e \in DOMAIN deferred \ covered : deferred'[e] = deferred[e]
    <3>1. deferred' = Drop(deferred, covered)
      BY <1>7
    <3> HIDE DEF covered
    <3> QED
      BY <1>2, <3>1, WritesDrop
  <2>2. Cardinality(DOMAIN deferred') <= DeferredCap
    BY <1>2, <1>7, BufferDrop DEF DeferredGood
  <2>3. WritesGood(hits', seq', total')
    BY <1>2, <1>7 DEF WritesGood, Restrict
  <2>4. \A e \in DOMAIN deferred' : ~Covered(deferred[e])'
    BY <1>3, <2>1 DEF Covered, Covers
  <2> HIDE DEF covered
  <2>5. LocalsGood'
    BY <1>2, <1>7, <2>3 DEF TInv, Control, LocalsGood, scan
  <2>6. Control'
    BY <1>1, <1>2, <1>3, <1>7, <2>4, <2>5 DEF Control, WorkTyped, Settled, ColdWork
  <2>7. DeferredGood'
    BY <2>1, <2>2 DEF DeferredGood
  <2> QED
    BY <1>2, <1>3, <1>4, <1>5, <2>6, <2>7 DEF TInv
<1> QED
  BY <1>6, <1>7 DEF ReplayPass

(* A replayed write that stamps nothing leaves the map, and with it what   *)
(* is covered, alone.                                                      *)
LEMMA ReplayWriteGood ==
    ASSUME TInv, ReplayWrite
    PROVE  TInv'
<1>1. PICK e \in DOMAIN hits :
         LET d == hits[e]
             n == IF Propagates(d.addr, d.value, d.at) THEN replayed + 1 ELSE replayed
         IN  /\ PropagateFieldWrite(d.addr, d.value, d.at)
             /\ \/ /\ DOMAIN hits # {e}
                   /\ hits' = Drop(hits, {e}) /\ replayed' = n
                   /\ UNCHANGED <<pc, pass, scan, now, val>>
                \/ /\ DOMAIN hits = {e} /\ AnotherPass(n)
                   /\ pc' = "replay"
                   /\ pass' = pass + 1 /\ hits' = EmptyMap /\ replayed' = 0
                   /\ UNCHANGED <<scan, now, val>>
                \/ /\ DOMAIN hits = {e} /\ ~AnotherPass(n)
                   /\ StartScan(val, now)
  BY DEF ReplayWrite
<1> DEFINE d == hits[e]
           n == IF Propagates(d.addr, d.value, d.at) THEN replayed + 1 ELSE replayed
<1>2. /\ pc = "propagate"
      /\ UNCHANGED <<deferred, allocs, totalAllocs, epochs, shallow, warmed, clock>>
  BY DEF ReplayWrite
<1>3. /\ seq' = seq /\ total' = total /\ total \in Nat /\ ClockGood'
      /\ StmGood(stm, seq) /\ CountsGood /\ IndirectGood /\ DeferredGood /\ Tables
      /\ Past(now, seq') /\ Past(now, seq) /\ WritesGood(hits, seq, total)
      /\ val \in DOMAIN stm /\ (now = Cold => val \in DOMAIN warmed)
  BY <1>2, WorkBasics
<1>4. d \in Writes /\ Past(d.at, seq) /\ d.addr \in Addr /\ d.value \in Addr \cup {0}
  BY <1>3 DEF WritesGood, Writes
<1>5. PropagateFieldWrite(d.addr, d.value, d.at)
  BY <1>1
<1>6. n = (IF Propagates(d.addr, d.value, d.at) THEN replayed + 1 ELSE replayed)
      /\ replayed \in Nat /\ pass \in 0 .. MaxPasses /\ pass < MaxPasses
  BY <1>2 DEF TInv, Control, LocalsGood, Settled
<1>7. \/ /\ hits' = Drop(hits, {e}) /\ replayed' = n
         /\ UNCHANGED <<pc, pass, scan, now, val>>
      \/ /\ pc' = "replay"
         /\ pass' = pass + 1 /\ hits' = EmptyMap /\ replayed' = 0
         /\ UNCHANGED <<scan, now, val>>
      \/ StartScan(val, now)
  BY <1>1
<1> HIDE DEF d, n
<1>8. /\ StmGood(stm', seq') /\ CountsGood' /\ IndirectGood'
      /\ DOMAIN stm \subseteq DOMAIN stm'
      /\ ~Propagates(d.addr, d.value, d.at) => stm' = stm
  BY <1>3, <1>4, <1>5, PropagateGood
<1>9. Tables' /\ DeferredGood'
  BY <1>2, <1>3, TablesKeep DEF DeferredGood
<1>10. val \in DOMAIN stm' /\ val \in Addr
  BY <1>3, <1>8 DEF StmGood
<1>11. CASE hits' = Drop(hits, {e}) /\ replayed' = n /\ UNCHANGED <<pc, pass, scan, now, val>>
  <2>1. WritesGood(hits', seq', total')
    BY <1>3, <1>11, WritesDrop
  <2>2. replayed' \in Nat
    BY <1>6, <1>11
  <2>3. LocalsGood'
    BY <1>3, <1>11, <2>1, <2>2 DEF TInv, Control, LocalsGood, scan
  <2>4. ASSUME replayed' = 0, NEW f \in DOMAIN deferred'
        PROVE  ~Covered(deferred[f])'
    <3>1. replayed = 0 /\ ~Propagates(d.addr, d.value, d.at)
      BY <1>6, <1>11, <2>4
    <3>2. stm' = stm /\ deferred' = deferred /\ f \in DOMAIN deferred
      BY <1>2, <1>8, <3>1
    <3>3. ~Covered(deferred[f])
      BY <1>2, <3>1, <3>2 DEF TInv, Control, Settled
    <3> QED
      BY <3>2, <3>3 DEF Covered, Covers
  <2>5. WorkTyped' /\ Settled' /\ ColdWork'
    BY <1>2, <1>3, <1>6, <1>10, <1>11, <2>4 DEF WorkTyped, Settled, ColdWork
  <2> QED
    BY <1>3, <1>8, <1>9, <2>3, <2>5 DEF TInv, Control
<1>12. CASE /\ pc' = "replay"
            /\ pass' = pass + 1 /\ hits' = EmptyMap /\ replayed' = 0
            /\ UNCHANGED <<scan, now, val>>
  <2>1. pass' \in 0 .. MaxPasses /\ WritesGood(hits', seq', total')
    BY <1>6, <1>12, NoWrites, TypesAssumption
  <2>2. LocalsGood'
    BY <1>3, <1>12, <2>1 DEF TInv, Control, LocalsGood, scan
  <2>3. WorkTyped' /\ Settled' /\ ColdWork'
    BY <1>2, <1>3, <1>10, <1>12 DEF WorkTyped, Settled, ColdWork
  <2> QED
    BY <1>3, <1>8, <1>9, <2>2, <2>3 DEF TInv, Control
<1>13. CASE StartScan(val, now)
  <2>1. Control'
    BY <1>2, <1>3, <1>10, <1>13, StartScanGood
  <2> QED
    BY <1>3, <1>8, <1>9, <2>1 DEF TInv
<1> QED
  BY <1>7, <1>11, <1>12, <1>13

LEMMA ScanFieldGood ==
    ASSUME TInv, ScanField
    PROVE  TInv'
<1> DEFINE fields == FieldsOf(stm[Head(queue)].ti)
           f == fields[fld]
           targets == IF ProcMem \/ now = Cold THEN Addr ELSE DOMAIN allocs
<1>1. /\ pc = "scan" /\ fld <= Len(fields) /\ fld' = fld + 1
      /\ \/ \E v \in targets :
               \/ /\ ~f.ind /\ v \notin DOMAIN stm
                  /\ StampType(stm, v, TypeInfo(f.to), now)
                  /\ queue' = Append(queue, v) /\ found' = found + 1
                  /\ UNCHANGED indirect
               \/ /\ f.ind /\ v \notin DOMAIN indirect
                  /\ indirect' = Insert(indirect, v, TypeInfo(f.to))
                  /\ UNCHANGED <<marks, queue, found>>
         \/ UNCHANGED <<marks, indirect, queue, found>>
      /\ UNCHANGED <<deferred, allocs, totalAllocs, epochs, shallow, warmed, clock, pc, now,
                     val, replay>>
  BY DEF ScanField
<1>2. /\ seq' = seq /\ total' = total /\ total \in Nat /\ ClockGood'
      /\ StmGood(stm, seq) /\ CountsGood /\ IndirectGood /\ DeferredGood /\ Tables
      /\ Past(now, seq') /\ Past(now, seq) /\ WritesGood(hits, seq, total)
      /\ (now = Cold => val \in DOMAIN warmed)
  BY <1>1, WorkBasics
<1>3. /\ queue \in Seq(Addr) /\ queue # <<>> /\ Range(queue) \subseteq DOMAIN stm
      /\ fld \in Nat \ {0} /\ found \in Nat
  BY <1>1 DEF TInv, Control, LocalsGood, WorkTyped
<1>4. stm[Head(queue)].ti \in TypeInfos
  BY <1>2, <1>3 DEF StmGood, Range
<1>5. f.to \in Types
  BY <1>1, <1>3, <1>4, FieldTypes
<1>6. TypeInfo(f.to) \in TypeInfos /\ targets \subseteq Addr
  BY <1>2, <1>5, InfosGood DEF Tables, TablesOK
<1> HIDE DEF fields, f, targets
<1>7. Tables' /\ DeferredGood'
  BY <1>1, <1>2, TablesKeep DEF DeferredGood
<1>8. /\ StmGood(stm', seq') /\ CountsGood' /\ IndirectGood'
      /\ queue' \in Seq(Addr) /\ queue' # <<>> /\ Range(queue') \subseteq DOMAIN stm'
      /\ found' \in Nat
  <2>1. ASSUME NEW v \in targets, StampType(stm, v, TypeInfo(f.to), now),
               queue' = Append(queue, v), found' = found + 1, UNCHANGED indirect
        PROVE  <1>8!:
    <3>1. /\ StmGood(stm', seq') /\ CountsGood'
          /\ DOMAIN stm \subseteq DOMAIN stm' /\ v \in DOMAIN stm'
      BY <1>2, <1>6, <2>1, StampGood
    <3>2. /\ queue' \in Seq(Addr) /\ Len(queue') = Len(queue) + 1 /\ Len(queue) \in Nat
          /\ \A i \in 1 .. Len(queue) : queue'[i] = queue[i]
          /\ queue'[Len(queue) + 1] = v
      BY <1>3, <1>6, <2>1
    <3>3. Range(queue') \subseteq DOMAIN stm'
      <4>1. \A i \in 1 .. Len(queue) : queue[i] \in DOMAIN stm
        BY <1>3 DEF Range
      <4>2. \A i \in 1 .. Len(queue) : queue'[i] \in DOMAIN stm'
        BY <3>1, <3>2, <4>1
      <4>3. queue'[Len(queue) + 1] \in DOMAIN stm'
        BY <3>1, <3>2
      <4>4. \A i \in DOMAIN queue' : i \in 1 .. Len(queue) \/ i = Len(queue) + 1
        BY <3>2
      <4> QED
        BY <4>2, <4>3, <4>4 DEF Range
    <3>4. IndirectGood' /\ found' \in Nat /\ queue' # <<>>
      BY <1>2, <1>3, <2>1, <3>2 DEF IndirectGood
    <3> QED
      BY <3>1, <3>2, <3>3, <3>4
  <2>2. ASSUME NEW v \in targets, indirect' = Insert(indirect, v, TypeInfo(f.to)),
               UNCHANGED <<marks, queue, found>>
        PROVE  <1>8!:
    <3>1. IndirectGood'
      BY <1>2, <1>6, <2>2, IndirectInsert
    <3>2. StmGood(stm', seq') /\ CountsGood' /\ stm' = stm
      BY <1>2, <2>2, SameMarks
    <3> QED
      BY <1>3, <2>2, <3>1, <3>2
  <2>3. CASE UNCHANGED <<marks, indirect, queue, found>>
    <3>1. IndirectGood'
      BY <1>2, <2>3 DEF IndirectGood
    <3>2. StmGood(stm', seq') /\ CountsGood' /\ stm' = stm
      BY <1>2, <2>3, SameMarks
    <3> QED
      BY <1>3, <2>3, <3>1, <3>2
  <2> QED
    BY <1>1, <2>1, <2>2, <2>3
<1>9. LocalsGood'
  <2>1. fld' \in Nat \ {0}
    BY <1>1, <1>3
  <2> QED
    BY <1>1, <1>2, <1>8, <2>1 DEF TInv, Control, LocalsGood, replay
<1>10. WorkTyped' /\ Settled' /\ ColdWork'
  BY <1>1, <1>2, <1>8 DEF WorkTyped, Settled, ColdWork
<1> QED
  BY <1>2, <1>7, <1>8, <1>9, <1>10 DEF TInv, Control

LEMMA ScanDoneGood ==
    ASSUME TInv, ScanDone
    PROVE  TInv'
<1>1. /\ pc = "scan"
      /\ UNCHANGED <<marks, indirect, deferred, allocs, totalAllocs, epochs, shallow, warmed,
                     clock>>
  BY DEF ScanDone
<1>2. /\ seq' = seq /\ total' = total /\ total \in Nat /\ ClockGood'
      /\ StmGood(stm, seq) /\ CountsGood /\ IndirectGood /\ DeferredGood /\ Tables
      /\ Past(now, seq') /\ Past(now, seq) /\ WritesGood(hits, seq, total)
      /\ (now = Cold => val \in DOMAIN warmed)
  BY <1>1, WorkBasics
<1>3. StmGood(stm', seq') /\ CountsGood' /\ stm' = stm
  BY <1>1, <1>2, SameMarks
<1>4. Tables' /\ DeferredGood' /\ IndirectGood'
  BY <1>1, <1>2, TablesKeep DEF DeferredGood, IndirectGood
<1>5. queue \in Seq(Addr) /\ queue # <<>> /\ Range(queue) \subseteq DOMAIN stm
  BY <1>1 DEF TInv, Control, LocalsGood, WorkTyped
<1>6. Control'
  <2>1. CASE /\ Len(queue) > 1
             /\ queue' = Tail(queue) /\ fld' = 1
             /\ UNCHANGED <<pc, now, val, replay, found>>
    <3>1. queue' \in Seq(Addr) /\ Len(queue') = Len(queue) - 1 /\ Len(queue) \in Nat
          /\ \A i \in 1 .. (Len(queue) - 1) : queue'[i] = queue[i + 1]
      BY <1>5, <2>1
    <3>2. Range(queue') \subseteq DOMAIN stm' /\ queue' # <<>>
      <4>1. \A i \in 1 .. (Len(queue) - 1) : queue[i + 1] \in Range(queue)
        BY SMTT(30), <1>5, <3>1 DEF Range
      <4> QED
        BY <1>3, <1>5, <2>1, <3>1, <4>1 DEF Range
    <3>3. LocalsGood'
      BY <1>2, <2>1, <3>1 DEF TInv, Control, LocalsGood, replay
    <3> QED
      BY <1>1, <1>2, <2>1, <3>2, <3>3 DEF Control, WorkTyped, Settled, ColdWork
  <2>2. CASE /\ now = Cold /\ pc' = "warm"
             /\ queue' = <<>> /\ fld' = 1 /\ found' = 0
             /\ UNCHANGED <<now, val, replay>>
    <3>1. <<>> \in Seq(Addr)
      OBVIOUS
    <3>2. LocalsGood'
      BY <1>2, <2>2, <3>1 DEF TInv, Control, LocalsGood, replay
    <3> QED
      BY <1>1, <1>2, <2>2, <3>2 DEF Control, WorkTyped, Settled, ColdWork
  <2> QED
    BY <2>1, <2>2, IdleGood DEF ScanDone
<1> QED
  BY <1>2, <1>3, <1>4, <1>6 DEF TInv

LEMMA WarmFieldGood ==
    ASSUME TInv, WarmField
    PROVE  TInv'
<1> DEFINE fields == Fields[warmed[val]]
<1>1. /\ pc = "warm"
      /\ \/ /\ fld <= Len(fields)
            /\ \/ UNCHANGED indirect
               \/ \E p \in Addr : indirect' = Insert(indirect, p, TypeInfo(fields[fld].to))
            /\ fld' = fld + 1
            /\ UNCHANGED <<pc, now, val, replay, queue, found>>
         \/ Idle /\ UNCHANGED indirect
      /\ UNCHANGED <<marks, deferred, allocs, totalAllocs, epochs, shallow, warmed, clock>>
  BY DEF WarmField
<1>2. /\ seq' = seq /\ total' = total /\ total \in Nat /\ ClockGood'
      /\ StmGood(stm, seq) /\ CountsGood /\ IndirectGood /\ DeferredGood /\ Tables
      /\ Past(now, seq') /\ Past(now, seq) /\ WritesGood(hits, seq, total)
      /\ (now = Cold => val \in DOMAIN warmed)
  BY <1>1, WorkBasics
<1>3. /\ val \in DOMAIN warmed /\ warmed[val] \in Types /\ fld \in Nat \ {0}
  BY <1>1 DEF TInv, Control, LocalsGood, WorkTyped, Tables, TablesOK
<1>4. fields \in Seq(FieldRecords) /\ \A f \in FieldRecords : f.to \in Types
  BY <1>3, TypesAssumption DEF FieldRecords
<1>5. fld <= Len(fields) => TypeInfo(fields[fld].to) \in TypeInfos
  BY <1>3, <1>4, InfosGood
<1> HIDE DEF fields
<1>6. StmGood(stm', seq') /\ CountsGood' /\ stm' = stm
  BY <1>1, <1>2, SameMarks
<1>7. Tables' /\ DeferredGood'
  BY <1>1, <1>2, TablesKeep DEF DeferredGood
<1>8. IndirectGood'
  <2>1. CASE UNCHANGED indirect
    BY <1>2, <2>1 DEF IndirectGood
  <2>2. CASE fld <= Len(fields) /\
             \E p \in Addr : indirect' = Insert(indirect, p, TypeInfo(fields[fld].to))
    BY <1>2, <1>5, <2>2, IndirectInsert
  <2> QED
    BY <1>1, <2>1, <2>2
<1>9. Control'
  <2>1. CASE fld' = fld + 1 /\ UNCHANGED <<pc, now, val, replay, queue, found>>
    <3>1. LocalsGood'
      BY <1>2, <1>3, <2>1 DEF TInv, Control, LocalsGood, replay
    <3> QED
      BY <1>1, <1>2, <1>3, <2>1, <3>1 DEF Control, WorkTyped, Settled, ColdWork
  <2> QED
    BY <1>1, <2>1, IdleGood
<1> QED
  BY <1>2, <1>6, <1>7, <1>8, <1>9 DEF TInv

-----------------------------------------------------------------------------
(* The theorems                                                            *)

LEMMA StepKeepsTInv ==
    ASSUME TInv, [Next]_vars
    PROVE  TInv'
<1>0. JitSeqs \subseteq Counters /\ CallSeqs \subseteq Counters
  BY DEF Counters
<1>1. ASSUME NEW c \in JitSeqs, WriteEvent(c) PROVE TInv'
  BY <1>0, <1>1, WriteHeapGood, WriteGlobalGood DEF WriteEvent
<1>2. ASSUME NEW c \in CallSeqs, CallEvent(c) PROVE TInv'
  BY <1>0, <1>2, AllocGood, FreeGood DEF CallEvent
<1>3. ASSUME NEW w \in Reachable, WarmStamp(w[1], w[2]) PROVE TInv'
  <2>1. w[1] \in Addr /\ w[2] \in Types
    BY TypesAssumption
  <2> QED
    BY <1>3, <2>1, WarmStampGood
<1>4. CASE UNCHANGED vars
  <2>1. UNCHANGED <<marks, indirect, deferred, allocs, totalAllocs, epochs, shallow, warmed,
                    clock, pc, now, val, replay, scan>>
    BY <1>4 DEF vars
  <2>2. UNCHANGED <<stm, addrSchisms, schismCount, poolReuse, indirect, deferred, allocs,
                    totalAllocs, epochs, shallow, warmed, seq, total, pc, now, val, pass, hits,
                    replayed, queue, fld, found>>
    BY <2>1 DEF marks, clock, replay, scan
  <2>3. StmGood(stm', seq') /\ CountsGood' /\ IndirectGood' /\ ClockGood' /\ DeferredGood'
    BY <2>2 DEF TInv, CountsGood, IndirectGood, ClockGood, DeferredGood
  <2>4. Tables'
    BY <2>2, TablesKeep DEF TInv
  <2>5. LocalsGood'
    BY <2>2 DEF TInv, Control, LocalsGood
  <2>6. WorkTyped' /\ ColdWork'
    BY <2>2 DEF TInv, Control, WorkTyped, ColdWork
  <2>7. Settled'
    BY <2>2 DEF TInv, Control, Settled, Covered, Covers
  <2> QED
    BY <2>3, <2>4, <2>5, <2>6, <2>7 DEF TInv, Control
<1> QED
  BY <1>1, <1>2, <1>3, <1>4, OtherEventGood, UpgradeGood, AllocSiteGood, ReplayPassGood,
     ReplayWriteGood, ScanFieldGood, ScanDoneGood, WarmFieldGood DEF Next

(* TInv holds in every reachable state.                                    *)
THEOREM TypesInductive == Spec => []TInv
BY TypesInit, StepKeepsTInv, PTL DEF Spec

(* Every region the engine works on has a projection, and the buffer of    *)
(* deferred writes stays within DEFERRED_CAP (defer_write).                *)
THEOREM TypesTypeCorrect == Spec => []TypeOK
<1>1. TInv => TypeOK
  <2> SUFFICES ASSUME TInv PROVE TypeOK
    OBVIOUS
  <2>1. StmOK
    BY DEF TInv, StmOK, StmGood, CountsGood, IndirectGood, DeferredGood, WritesGood
  <2>2. LoopOK
    BY DEF TInv, LoopOK, ClockGood, Control, LocalsGood, WritesGood, Past
  <2> QED
    BY <2>1, <2>2 DEF TInv, TypeOK, Tables, Control
<1> QED
  BY <1>1, TypesInductive, PTL

(* An epoch that ends before it begins has its ends numbered by different  *)
(* counters: along one counter no stamp carries a number that lies ahead,  *)
(* replayed and cold stamps included (close_epoch).                        *)
THEOREM EpochsInvertOnlyAcrossCounters == Spec => []InvertedOnlyAcrossCounters
<1>1. TInv => InvertedOnlyAcrossCounters
  BY DEF TInv, Tables
<1> QED
  BY <1>1, TypesInductive, PTL

-----------------------------------------------------------------------------
(* Action properties                                                       *)

Advances == \A a \in DOMAIN stm \cap DOMAIN stm' : stm'[a].at.seq >= stm[a].at.seq

(* Stamps stay, or are dropped.                                            *)
LEMMA KeptAdvance ==
    ASSUME NEW s, StmGood(stm, s), \A a \in DOMAIN stm \cap DOMAIN stm' : stm'[a] = stm[a]
    PROVE  Advances
BY DEF StmGood, Times, Advances

LEMMA EventAdvances ==
    ASSUME TInv, \/ \E c \in JitSeqs : WriteEvent(c)
                 \/ \E c \in CallSeqs : CallEvent(c)
                 \/ \E c \in Counters : OtherEvent(c)
    PROVE  Advances
<1>0. JitSeqs \subseteq Counters /\ CallSeqs \subseteq Counters /\ StmGood(stm, seq)
  BY DEF Counters, TInv
<1>1. ASSUME NEW c \in Counters, NEW a \in Addr, NEW v \in Addr \cup {0}, WriteHeap(c, a, v)
      PROVE  Advances
  <2>1. NextEvent(c) /\ PropagateFieldWrite(a, v, StampTime(c))
    BY <1>1 DEF WriteHeap
  <2>2. StmGood(stm, seq') /\ Past(StampTime(c), seq') /\ CountsGood /\ IndirectGood
    BY <2>1, EventBasics
  <2>3. \A b \in DOMAIN stm : stm'[b].at.seq >= stm[b].at.seq
    BY <2>1, <2>2, PropagateGood
  <2> QED
    BY <2>3 DEF Advances
<1>2. ASSUME NEW c \in Counters, NEW g \in Globals, NEW v \in Addr, WriteGlobal(c, g, v)
      PROVE  Advances
  <2>1. NextEvent(c) /\ StampType(stm, v, Deep(Pointee[g]), StampTime(c))
    BY <1>2 DEF WriteGlobal
  <2>2. StmGood(stm, seq') /\ Past(StampTime(c), seq') /\ CountsGood
    BY <2>1, EventBasics
  <2>3. Deep(Pointee[g]) \in TypeInfos
    BY InfosGood, TypesAssumption
  <2>4. \A b \in DOMAIN stm : stm'[b].at.seq >= stm[b].at.seq
    BY <2>1, <2>2, <2>3, StampGood
  <2> QED
    BY <2>4 DEF Advances
<1>3. ASSUME NEW c, NEW p, NEW n, Alloc(c, p, n)
      PROVE  Advances
  <2>1. stm' = stm \/ \E xs : stm' = Drop(stm, xs)
    BY <1>3 DEF Alloc
  <2> QED
    BY <1>0, <2>1, KeptAdvance, StmDrop
<1>4. ASSUME NEW c, NEW p, Free(c, p)
      PROVE  Advances
  <2>1. stm' = stm \/ \E xs : stm' = Drop(stm, xs)
    BY <1>4 DEF Free, Purge
  <2> QED
    BY <1>0, <2>1, KeptAdvance, StmDrop
<1>5. ASSUME NEW c, OtherEvent(c)
      PROVE  Advances
  BY <1>0, <1>5, KeptAdvance DEF OtherEvent, marks
<1> QED
  BY <1>0, <1>1, <1>2, <1>3, <1>4, <1>5 DEF WriteEvent, CallEvent

LEMMA WorkAdvances ==
    ASSUME TInv, \/ \E w \in Reachable : WarmStamp(w[1], w[2])
                 \/ Upgrade \/ AllocSite \/ ReplayPass \/ ReplayWrite
                 \/ ScanField \/ ScanDone \/ WarmField
    PROVE  Advances
<1>0. UNCHANGED clock
  BY DEF WarmStamp, Upgrade, AllocSite, ReplayPass, ReplayWrite, ScanField, ScanDone, WarmField
<1>1. /\ StmGood(stm, seq) /\ CountsGood /\ IndirectGood /\ Past(now, seq)
      /\ WritesGood(hits, seq, total)
      /\ pc \in {"upgrade", "replay", "propagate"} => val \in DOMAIN stm
  BY <1>0, WorkBasics
<1>2. ASSUME NEW a \in Addr, NEW ti \in TypeInfos, NEW at, Past(at, seq),
             StampType(stm, a, ti, at)
      PROVE  Advances
  <2>1. \A b \in DOMAIN stm : stm'[b].at.seq >= stm[b].at.seq
    BY <1>1, <1>2, StampGood
  <2> QED
    BY <2>1 DEF Advances
<1>3. ASSUME NEW w \in Reachable, WarmStamp(w[1], w[2]) PROVE Advances
  <2>1. w[1] \in Addr /\ w[2] \in Types
    BY TypesAssumption
  <2>2. StampType(stm, w[1], Deep(w[2]), Cold)
    BY <1>3 DEF WarmStamp
  <2>3. Deep(w[2]) \in TypeInfos /\ Past(Cold, seq)
    BY <2>1, InfosGood, ColdPast
  <2> QED
    BY <1>2, <2>1, <2>2, <2>3
<1>4. CASE UNCHANGED marks
  BY <1>1, <1>4, KeptAdvance DEF marks
<1>5. CASE Upgrade
  <2>1. val \in DOMAIN stm
    BY <1>1, <1>5 DEF Upgrade
  <2>2. val \in Addr /\ Deep(stm[val].ti.name) \in TypeInfos
    BY <1>1, <2>1, InfosGood DEF StmGood, TypeInfos
  <2>3. \/ StampType(stm, val, Deep(stm[val].ti.name), now)
        \/ UNCHANGED marks
    BY <1>5 DEF Upgrade
  <2> QED
    BY <1>1, <1>2, <1>4, <2>2, <2>3
<1>6. CASE AllocSite
  <2>1. PICK t \in Oracle[allocs[val].size] :
           UNCHANGED marks \/ (t # NoType /\ StampType(stm, val, Deep(t), now))
    BY <1>6 DEF AllocSite
  <2>2. val \in Addr /\ allocs[val].size \in Sizes
    BY <1>6 DEF AllocSite, TInv, Control, WorkTyped, Tables, TablesOK
  <2>3. t # NoType => Deep(t) \in TypeInfos
    BY <2>2, InfosGood, TypesAssumption
  <2> QED
    BY <1>1, <1>2, <1>4, <2>1, <2>2, <2>3
<1>7. CASE ReplayPass \/ ScanDone \/ WarmField
  BY <1>4, <1>7 DEF ReplayPass, ScanDone, WarmField
<1>8. CASE ReplayWrite
  <2>1. PICK e \in DOMAIN hits : PropagateFieldWrite(hits[e].addr, hits[e].value, hits[e].at)
    BY <1>8 DEF ReplayWrite
  <2>2. Past(hits[e].at, seq) /\ hits[e].addr \in Addr /\ hits[e].value \in Addr \cup {0}
    BY <1>1 DEF WritesGood, Writes
  <2>3. \A b \in DOMAIN stm : stm'[b].at.seq >= stm[b].at.seq
    BY <1>1, <2>1, <2>2, PropagateGood
  <2> QED
    BY <2>3 DEF Advances
<1>9. CASE ScanField
  <2>1. \/ UNCHANGED marks
        \/ \E v \in Addr \cup DOMAIN allocs : \E ti : v \notin DOMAIN stm /\ StampType(stm, v, ti, now)
    BY <1>9 DEF ScanField
  <2>2. ASSUME NEW v, NEW ti, v \notin DOMAIN stm, StampType(stm, v, ti, now)
        PROVE  Advances
    <3>1. Applied(stm, v, ti, now)
      BY <2>2 DEF Applied, StampResult
    <3>2. stm' = Insert(stm, v, [ti |-> ti, at |-> now])
      BY <2>2, <3>1 DEF StampType
    <3>3. \A b \in DOMAIN stm : stm'[b] = stm[b]
      BY <2>2, <3>2 DEF Insert
    <3> QED
      BY <1>1, <3>3, KeptAdvance
  <2> QED
    BY <1>4, <2>1, <2>2
<1> QED
  BY <1>3, <1>5, <1>6, <1>7, <1>8, <1>9

(* "never overwrite a stamp with a higher seq" (stamp_type): the sequence  *)
(* number of a projection does not fall, through replays, scans, cold      *)
(* stamps and upgrades.                                                    *)
THEOREM StampsAlwaysAdvance == Spec => StampsAdvance
<1>1. ASSUME TInv, [Next]_vars
      PROVE  [Advances]_vars
  BY <1>1, EventAdvances, WorkAdvances DEF Next
<1> QED
  BY <1>1, TypesInductive, PTL DEF Spec, StampsAdvance, Advances

(* A stamp of the type that is there, or where none is, changes no type.   *)
LEMMA SameTypeStamp ==
    ASSUME NEW a, NEW ti, NEW at, StampType(stm, a, ti, at),
           a \in DOMAIN stm => stm[a].ti.name = ti.name
    PROVE  \A b \in DOMAIN stm : b \in DOMAIN stm' /\ stm'[b].ti = stm[b].ti
<1>1. CASE a \in DOMAIN stm
  BY <1>1 DEF StampType, Applied, StampResult
<1>2. CASE a \notin DOMAIN stm
  <2>1. stm' = Insert(stm, a, [ti |-> ti, at |-> at])
    BY <1>2 DEF StampType, Applied, StampResult
  <2> QED
    BY <1>2, <2>1 DEF Insert
<1> QED
  BY <1>1, <1>2

(* "don't create schisms from propagation" (propagate_field_write): the    *)
(* upgrade, the replay and the scan change no type as long as no array of  *)
(* pointers is known.                                                      *)
THEOREM PropagationAlwaysKeepsTypes == Spec => PropagationKeepsTypes
<1> DEFINE Kept == \A a \in DOMAIN stm : a \in DOMAIN stm' /\ stm'[a].ti = stm[a].ti
           K == (pc \in {"upgrade", "propagate", "scan"} /\ indirect = EmptyMap) => Kept
<1>1. ASSUME Next PROVE K
  <2>1. CASE \/ \E c \in JitSeqs : WriteEvent(c)
             \/ \E c \in CallSeqs : CallEvent(c)
             \/ \E c \in Counters : OtherEvent(c)
             \/ \E w \in Reachable : WarmStamp(w[1], w[2])
    <3>1. pc = "event"
      BY <2>1 DEF WriteEvent, CallEvent, WriteHeap, WriteGlobal, Alloc, Free, OtherEvent,
                  WarmStamp, NextEvent
    <3> QED
      BY <3>1
  <2>2. CASE AllocSite \/ ReplayPass \/ WarmField
    <3>1. pc \in {"site", "replay", "warm"}
      BY <2>2 DEF AllocSite, ReplayPass, WarmField
    <3> QED
      BY <3>1
  <2>3. CASE Upgrade
    <3>1. StampType(stm, val, Deep(stm[val].ti.name), now) \/ stm' = stm
      BY <2>3 DEF Upgrade, marks
    <3>2. Deep(stm[val].ti.name).name = stm[val].ti.name
      BY DEF Deep
    <3> QED
      BY <3>1, <3>2, SameTypeStamp
  <2>4. CASE ReplayWrite
    <3> SUFFICES ASSUME indirect = EmptyMap PROVE Kept
      OBVIOUS
    <3>1. PICK d : PropagateFieldWrite(d.addr, d.value, d.at)
      BY <2>4 DEF ReplayWrite
    <3>2. ElementTypes(d.addr) = {}
      BY DEF ElementTypes, EmptyMap
    <3>3. \/ stm' = stm
          \/ \E f : SamePointee(d.value, f.to) /\ StampType(stm, d.value, TypeInfo(f.to), d.at)
      BY <3>1, <3>2 DEF PropagateFieldWrite, marks
    <3>4. \A t : TypeInfo(t).name = t
      BY DEF TypeInfo
    <3> QED
      BY <3>3, <3>4, SameTypeStamp DEF SamePointee
  <2>5. CASE ScanField
    <3>1. \/ stm' = stm
          \/ \E v, ti : v \notin DOMAIN stm /\ StampType(stm, v, ti, now)
      BY <2>5 DEF ScanField, marks
    <3> QED
      BY <3>1, SameTypeStamp
  <2>6. CASE ScanDone
    BY <2>6 DEF ScanDone, marks
  <2> QED
    BY <1>1, <2>1, <2>2, <2>3, <2>4, <2>5, <2>6 DEF Next
<1>2. ASSUME [Next]_vars PROVE [K]_vars
  BY <1>1, <1>2
<1> QED
  BY <1>2, PTL DEF Spec, PropagationKeepsTypes

(* replay_deferred follows chains of pointers to their end: when it gives  *)
(* way to the scan, no deferred write is covered, unless all passes were   *)
(* used up.                                                                *)
THEOREM ReplayAlwaysConverges == Spec => ReplayConverges
<1> DEFINE R == (pc \in {"replay", "propagate"} /\ pc' = "scan" /\ pass < MaxPasses) =>
                   \A e \in DOMAIN deferred' : ~Covered(deferred[e])'
<1>1. ASSUME TInv, Next PROVE R
  <2> SUFFICES ASSUME pc \in {"replay", "propagate"}, pc' = "scan", pass < MaxPasses,
                      NEW e \in DOMAIN deferred'
               PROVE  ~Covered(deferred[e])'
    OBVIOUS
  <2>1. ReplayPass \/ ReplayWrite
    BY <1>1 DEF Next, WriteEvent, CallEvent, WriteHeap, WriteGlobal, Alloc, Free, OtherEvent,
                WarmStamp, NextEvent, Upgrade, AllocSite, ScanField, ScanDone, WarmField
  <2>2. stm' = stm /\ deferred' = deferred /\ ~Covered(deferred[e])
    <3>1. CASE ReplayPass
      <4>1. pass \in Nat /\ MaxPasses \in Nat
        BY <1>1, TypesAssumption DEF TInv, Control, LocalsGood
      <4> QED
        BY <3>1, <4>1 DEF ReplayPass, marks
    <3>2. CASE ReplayWrite
      <4>1. PICK h \in DOMAIN hits :
               LET d == hits[h]
                   n == IF Propagates(d.addr, d.value, d.at) THEN replayed + 1 ELSE replayed
               IN  /\ PropagateFieldWrite(d.addr, d.value, d.at)
                   /\ ~AnotherPass(n)
        BY <3>2 DEF ReplayWrite
      <4> DEFINE d == hits[h]
      <4>2. /\ pc = "propagate" /\ replayed \in Nat /\ deferred' = deferred
            /\ StmGood(stm, seq) /\ CountsGood /\ IndirectGood /\ WritesGood(hits, seq, total)
        BY <1>1, <3>2 DEF ReplayWrite, TInv, Control, LocalsGood
      <4>3. d.addr \in Addr /\ d.value \in Addr \cup {0} /\ Past(d.at, seq)
        BY <4>2 DEF WritesGood, Writes
      <4>4. replayed = 0 /\ ~Propagates(d.addr, d.value, d.at)
        BY <4>1, <4>2 DEF AnotherPass
      <4>5. PropagateFieldWrite(d.addr, d.value, d.at)
        BY <4>1
      <4> HIDE DEF d
      <4>6. stm' = stm
        BY <4>2, <4>3, <4>4, <4>5, PropagateGood
      <4> QED
        BY <1>1, <4>2, <4>4, <4>6 DEF TInv, Control, Settled
    <3> QED
      BY <2>1, <3>1, <3>2
  <2> QED
    BY <2>2 DEF Covered, Covers
<1>2. ASSUME TInv, [Next]_vars PROVE [R]_vars
  BY <1>1, <1>2
<1> QED
  BY <1>2, TypesInductive, PTL DEF Spec, ReplayConverges
=============================================================================
