------------------------- MODULE EngineSafety_proofs -------------------------
(***************************************************************************)
(* Theorems about RtmapEngine: the end of a session, what the final sweep  *)
(* has processed, and what a recording replays.                            *)
(***************************************************************************)
EXTENDS RtmapEngine, Lists_proofs, FiniteSetTheorems

-----------------------------------------------------------------------------
USE SizeAssumption

(* The invariant.                                                          *)

Item == Kinds \X (1..Threads) \X Nat
Pcs == {"wait", "retry", "loop", "drain", "after", "sweep", "finish", "ended", "failed"}

TInv ==
    /\ mode \in {"normal", "server", "live"}
    /\ tproc \in {"spawned", "up", "dead"} /\ ctl \in BOOLEAN
    /\ registered \in 0..Threads /\ made \in 0..Len(Script) /\ tripwire \in BOOLEAN
    /\ ring \in [1..Threads -> Seq(Item)]
    /\ kid \in {"none", "forked", "attached", "dead", "gone"} /\ kq \in 0..1
    /\ exited \in BOOLEAN /\ sig \in BOOLEAN
    /\ pc \in Pcs /\ attached \in BOOLEAN /\ open \in 0..Threads /\ rr \in Nat
    /\ tries \in Nat /\ total \in 0..TotalCap /\ idle \in 0..IdleLimit
    /\ drained \in BOOLEAN /\ tick \in Nat /\ paused \in BOOLEAN /\ warm \in BOOLEAN
    /\ mpc \in {"join", "cleanup", "done", "gone"} /\ cause \in {"none", "signal", "quit", "gone", "idle"}
    /\ trace \in Seq(Item)

(* The recording has the slots of what was processed, and its header is     *)
(* written when the loop has ended.                                        *)
RecordInv ==
    /\ log = Recorded(trace)
    /\ pc \in {"wait", "retry"} => trace = <<>>
    /\ count = IF pc = "ended" THEN Len(log) ELSE 0

(* Which threads of the engine can be where together, and what the flags   *)
(* say of the tracer.                                                      *)
LifeInv ==
    /\ mpc = "gone" <=> pc = "failed"
    /\ mpc \in {"cleanup", "done"} => pc = "ended" /\ tproc = "dead"
    /\ mpc = "done" => ~ctl /\ registered = 0
    /\ exited => tproc = "dead"

(* The rings that are open.                                                *)
OpenInv ==
    /\ mpc # "done" => open <= registered
    /\ pc \in {"loop", "drain", "after", "sweep"} => open > 0
    /\ rr = 0 \/ rr < open

(* What the target made: every number up to made is one item, in the ring  *)
(* of its thread or processed.                                             *)
ItemsOf(tr, rg) == Range(tr) \cup UNION {Range(rg[t]) : t \in 1..Threads}
AllItems == ItemsOf(trace, ring)

ItemsInv ==
    /\ \A t \in 1..Threads : \A i \in 1..Len(ring[t]) : ring[t][i][2] = t
    /\ \A x \in AllItems : x[3] \in 1..made
    /\ \A x, y \in AllItems : x[3] = y[3] => x[2] = y[2]
    /\ \A k \in 1..made : \E x \in AllItems : x[3] = k
    /\ mpc # "done" => \A t \in (registered + 1)..Threads : ring[t] = <<>>

(* The order of each thread's items.                                       *)
OrderInv ==
    /\ \A t \in 1..Threads : \A i, j \in 1..Len(ring[t]) : i < j => ring[t][i][3] < ring[t][j][3]
    /\ \A i, j \in 1..Len(trace) : (i < j /\ trace[i][2] = trace[j][2]) => trace[i][3] < trace[j][3]
    /\ \A i \in 1..Len(trace) : \A t \in 1..Threads : \A j \in 1..Len(ring[t]) :
           trace[i][2] = t => trace[i][3] < ring[t][j][3]

(* The sweep after the tracer's death.                                     *)
SweepInv ==
    /\ cause = "gone" => tproc = "dead" /\ pc \in {"sweep", "finish", "ended"}
    /\ cause = "gone" => \A t \in (open + 1)..Threads : ring[t] = <<>>
    /\ cause = "gone" /\ pc # "sweep" => \A t \in 1..Threads : ring[t] = <<>>

IInv == TInv /\ RecordInv /\ LifeInv /\ OpenInv /\ ItemsInv /\ OrderInv /\ SweepInv

LEMMA ConstantTypes ==
    /\ Threads \in Nat /\ Budget \in Nat /\ IdleLimit \in Nat /\ TotalCap \in Nat
    /\ PerRing \in Nat /\ SnapSlots \in Nat /\ SnapSlots >= 2 /\ ReplayBatch \in Nat
    /\ ReplayBatch >= SnapSlots /\ Script \in Seq(Kinds) /\ Len(Script) \in Nat
BY LenProperties DEF TotalCap

-----------------------------------------------------------------------------
(* What a turn takes from the rings.                                       *)

(* A function defined by its value at the next point, up to a last one.    *)
FromEnd(f, n, c) == f = [i \in 0..n |-> IF i = n THEN <<>> ELSE c[i] \o f[i + 1]]

LEMMA SuffixRecursion ==
    ASSUME NEW n \in Nat, NEW c
    PROVE  \E f : FromEnd(f, n, c)
<1> DEFINE Def(f, k) == f = [i \in (n - k)..n |-> IF i = n THEN <<>> ELSE c[i] \o f[i + 1]]
           T == {k \in Nat : k <= n => \E f : Def(f, k)}
<1> HIDE DEF Def
<1>1. 0 \in T
  <2> DEFINE f0 == [i \in n..n |-> <<>>]
  <2>1. f0 = [i \in (n - 0)..n |-> IF i = n THEN <<>> ELSE c[i] \o f0[i + 1]]
    OBVIOUS
  <2>2. Def(f0, 0)
    BY <2>1 DEF Def
  <2> QED
    BY <2>2
<1>2. ASSUME NEW k \in Nat, k \in T PROVE k + 1 \in T
  <2> SUFFICES ASSUME k + 1 <= n PROVE \E g : Def(g, k + 1)
    OBVIOUS
  <2>1. PICK f : Def(f, k)
    BY <1>2
  <2> DEFINE m == n - (k + 1)
             g == [i \in m..n |-> IF i = m THEN c[i] \o f[i + 1] ELSE f[i]]
  <2>2. m \in 0..(n - 1) /\ n - k = m + 1
    OBVIOUS
  <2>3. \A i \in (m + 1)..n : f[i] = IF i = n THEN <<>> ELSE c[i] \o f[i + 1]
    BY <2>1, <2>2 DEF Def
  <2>4. ASSUME NEW i \in m..n PROVE g[i] = IF i = n THEN <<>> ELSE c[i] \o g[i + 1]
    <3>1. CASE i = m
      <4>1. m + 1 \in m..n /\ m + 1 # m /\ i # n
        BY <3>1, <2>2
      <4> QED
        BY <4>1, <3>1
    <3>2. CASE i = n
      BY <3>2, <2>2, <2>3
    <3>3. CASE i # m /\ i # n
      <4>1. i \in (m + 1)..n /\ i + 1 \in m..n /\ i + 1 # m
        BY <3>3, <2>2
      <4> QED
        BY <4>1, <2>3, <3>3
    <3> QED
      BY <3>1, <3>2, <3>3
  <2>5. g = [i \in m..n |-> IF i = n THEN <<>> ELSE c[i] \o g[i + 1]]
    <3> DEFINE h == [i \in m..n |-> IF i = n THEN <<>> ELSE c[i] \o g[i + 1]]
    <3>1. \A i \in m..n : g[i] = h[i]
      BY <2>4
    <3>2. DOMAIN g = m..n /\ DOMAIN h = m..n /\ g = [i \in DOMAIN g |-> g[i]] /\ h = [i \in DOMAIN h |-> h[i]]
      OBVIOUS
    <3>3. g = h
      <4> HIDE DEF g, h, m
      <4> QED
        BY <3>1, <3>2
    <3> QED
      BY <3>3
  <2>6. Def(g, k + 1)
    BY <2>5 DEF Def
  <2> QED
    BY <2>6
<1>3. n \in T
  <2> HIDE DEF T
  <2> QED
    BY <1>1, <1>2, NatByInduction
<1>4. PICK f : Def(f, n)
  BY <1>3
<1>5. n - n = 0
  OBVIOUS
<1> QED
  BY <1>4, <1>5 DEF Def, FromEnd

(* The slots of a sequence of items.                                       *)
LEMMA SlotCountType ==
    ASSUME NEW s \in Seq(Item)
    PROVE  /\ SlotCount(s) \in Nat
           /\ s = <<>> => SlotCount(s) = 0
           /\ Len(s) = 1 => SlotCount(s) <= SnapSlots
<1> DEFINE snaps == {i \in DOMAIN s : s[i][1] = "snap"}
<1>1. DOMAIN s = 1..Len(s) /\ Len(s) \in Nat
  BY LenProperties
<1>2. IsFiniteSet(DOMAIN s) /\ Cardinality(DOMAIN s) = Len(s)
  <2> DEFINE n == Len(s)
  <2>1. n \in Nat /\ 1 \in Int /\ n \in Int
    BY <1>1
  <2> HIDE DEF n
  <2>2. IsFiniteSet(1..n) /\ Cardinality(1..n) = IF 1 > n THEN 0 ELSE n - 1 + 1
    BY <2>1, FS_Interval
  <2>3. Cardinality(1..n) = n
    BY <2>1, <2>2
  <2> QED
    BY <1>1, <2>2, <2>3 DEF n
<1>3. Cardinality(snaps) \in Nat /\ Cardinality(snaps) <= Len(s)
  BY <1>2, FS_Subset, FS_CardinalityType
<1>4. \A a, b \in Nat : a * b \in Nat
  OBVIOUS
<1>5. SnapSlots - 1 \in Nat /\ SnapSlots \in Nat
  OBVIOUS
<1> HIDE DEF snaps
<1>6. SlotCount(s) = Len(s) + (SnapSlots - 1) * Cardinality(snaps)
  BY DEF SlotCount, snaps
<1>7. (SnapSlots - 1) * Cardinality(snaps) \in Nat
  BY <1>3, <1>4, <1>5
<1>8. SlotCount(s) \in Nat
  BY <1>1, <1>6, <1>7
<1>9. ASSUME s = <<>> PROVE SlotCount(s) = 0
  <2>1. Len(s) = 0 /\ Cardinality(snaps) = 0
    BY <1>9, <1>3
  <2> QED
    BY <2>1, <1>5, <1>6
<1>10. ASSUME Len(s) = 1 PROVE SlotCount(s) <= SnapSlots
  <2>1. Cardinality(snaps) = 0 \/ Cardinality(snaps) = 1
    BY <1>3, <1>10
  <2> QED
    BY <2>1, <1>5, <1>6, <1>10
<1> QED
  BY <1>8, <1>9, <1>10

(* A ring is taken as far as its items fit, and at least its first does.   *)
LEMMA FitsSpec ==
    ASSUME TInv, NEW t \in 1..Threads
    PROVE  /\ Fits(t) \in 0..Len(ring[t])
           /\ ring[t] # <<>> => Fits(t) >= 1
<1> DEFINE s == ring[t]
           slots(n) == SlotCount(SubSeq(s, 1, n))
           T == {k \in Nat : k <= Len(s) /\ slots(Len(s) - k) <= PerRing}
           fits(n) == slots(n) <= PerRing /\ \A m \in (n + 1)..Len(s) : slots(m) > PerRing
<1>1. s \in Seq(Item) /\ Len(s) \in Nat
  BY LenProperties DEF TInv
<1> HIDE DEF s
<1>2. \A n \in 0..Len(s) : slots(n) \in Nat /\ SubSeq(s, 1, n) \in Seq(Item) /\ Len(SubSeq(s, 1, n)) = n
  <2> TAKE n \in 0..Len(s)
  <2>1. SubSeq(s, 1, n) \in Seq(Item) /\ Len(SubSeq(s, 1, n)) = n
    BY <1>1, ElementOfSeq, SubSeqProperties
  <2> QED
    BY <2>1, SlotCountType
<1>3. slots(0) <= PerRing
  <2>1. SubSeq(s, 1, 0) = <<>>
    BY SubSeqEmpty
  <2>2. <<>> \in Seq(Item)
    OBVIOUS
  <2>3. slots(0) = 0
    BY <2>1, <2>2, SlotCountType
  <2> QED
    BY <2>3
<1> HIDE DEF slots
<1>4. T # {} /\ T \subseteq Nat
  <2>1. Len(s) \in T
    BY <1>1, <1>3
  <2> QED
    BY <2>1
<1>5. PICK k \in T : \A j \in T : k <= j
  <2> HIDE DEF T
  <2> QED
    BY <1>4, LeastElement
<1>6. ASSUME NEW m \in (Len(s) - k + 1)..Len(s) PROVE slots(m) > PerRing
  <2>1. m \in 0..Len(s) /\ Len(s) - m \in Nat /\ Len(s) - m < k /\ Len(s) - (Len(s) - m) = m
    <3> DEFINE l == Len(s)
    <3>1. k \in Nat /\ k <= l /\ l \in Nat /\ m \in (l - k + 1)..l
      BY <1>1, <1>5
    <3> HIDE DEF l
    <3>2. m \in 0..l /\ l - m \in Nat /\ l - m < k /\ l - (l - m) = m
      BY <3>1
    <3> QED
      BY <3>2 DEF l
  <2>2. Len(s) - m \notin T
    BY <1>5, <2>1
  <2>3. ~(slots(m) <= PerRing)
    BY <2>1, <2>2
  <2>4. slots(m) \in Nat /\ PerRing \in Nat
    BY <1>2, <2>1
  <2> HIDE DEF T
  <2> QED
    BY <2>3, <2>4
<1>7. \E n \in 0..Len(s) : fits(n)
  <2>1. Len(s) - k \in 0..Len(s)
    BY <1>1, <1>5
  <2> QED
    BY <1>5, <1>6, <2>1
<1>8. Fits(t) = CHOOSE n \in 0..Len(s) : fits(n)
  BY DEF Fits, s, slots
<1> HIDE DEF fits
<1>9. Fits(t) \in 0..Len(s) /\ fits(Fits(t))
  BY <1>7, <1>8
<1>10. ASSUME s # <<>> PROVE Fits(t) # 0
  <2>1. 1 \in 0..Len(s) /\ 1 \in (0 + 1)..Len(s)
    BY <1>1, <1>10, EmptySeq
  <2>2. slots(1) <= SnapSlots
    BY <1>2, <2>1, SlotCountType DEF slots
  <2>3. ~fits(0)
    BY <1>2, <2>1, <2>2, SMTT(20) DEF fits
  <2> QED
    BY <1>9, <2>3
<1> QED
  BY <1>1, <1>9, <1>10 DEF s

(* Of ring t, what is taken from it.                                       *)
Taken(t) == SubSeq(ring[t], 1, Fits(t))
Left(t) == SubSeq(ring[t], Fits(t) + 1, Len(ring[t]))

LEMMA TakenSpec ==
    ASSUME TInv, NEW t \in 1..Threads
    PROVE  /\ Taken(t) \in Seq(Item) /\ Len(Taken(t)) = Fits(t)
           /\ \A i \in 1..Fits(t) : Taken(t)[i] = ring[t][i]
           /\ Left(t) \in Seq(Item) /\ Len(Left(t)) = Len(ring[t]) - Fits(t)
           /\ \A i \in 1..(Len(ring[t]) - Fits(t)) : Left(t)[i] = ring[t][Fits(t) + i]
<1>1. ring[t] \in Seq(Item) /\ Len(ring[t]) \in Nat /\ Fits(t) \in 0..Len(ring[t])
  BY FitsSpec, LenProperties DEF TInv
<1>2. \A i \in 1..Len(ring[t]) : ring[t][i] \in Item
  BY <1>1, ElementOfSeq
<1>3. /\ Taken(t) \in Seq(Item) /\ Len(Taken(t)) = Fits(t)
      /\ \A i \in 1..Fits(t) : Taken(t)[i] = ring[t][i]
  <2> DEFINE n == Fits(t)
  <2>1. n \in Int /\ \A i \in 1..n : ring[t][i] \in Item
    BY <1>1, <1>2
  <2>2. /\ SubSeq(ring[t], 1, n) \in Seq(Item)
        /\ Len(SubSeq(ring[t], 1, n)) = IF 1 <= n THEN n - 1 + 1 ELSE 0
        /\ \A i \in 1..(n - 1 + 1) : SubSeq(ring[t], 1, n)[i] = ring[t][1 + i - 1]
    <3> HIDE DEF n
    <3> QED
      BY <2>1, SubSeqProperties
  <2> QED
    BY <1>1, <2>2 DEF Taken
<1>4. /\ Left(t) \in Seq(Item) /\ Len(Left(t)) = Len(ring[t]) - Fits(t)
      /\ \A i \in 1..(Len(ring[t]) - Fits(t)) : Left(t)[i] = ring[t][Fits(t) + i]
  <2> DEFINE m == Fits(t) + 1
             n == Len(ring[t])
  <2>1. m \in Int /\ n \in Int /\ \A i \in m..n : ring[t][i] \in Item
    BY <1>1, <1>2
  <2>2. /\ SubSeq(ring[t], m, n) \in Seq(Item)
        /\ Len(SubSeq(ring[t], m, n)) = IF m <= n THEN n - m + 1 ELSE 0
        /\ \A i \in 1..(n - m + 1) : SubSeq(ring[t], m, n)[i] = ring[t][m + i - 1]
    <3> HIDE DEF m, n
    <3> QED
      BY <2>1, SubSeqProperties
  <2>3. n - m + 1 = Len(ring[t]) - Fits(t) /\ (m <= n <=> Fits(t) < Len(ring[t]))
    BY <1>1, SMTT(20)
  <2>4. Left(t) = SubSeq(ring[t], m, n)
    BY DEF Left
  <2>5. Len(Left(t)) = Len(ring[t]) - Fits(t)
    <3> HIDE DEF m, n
    <3> QED
      BY <1>1, <2>2, <2>3, <2>4, SMTT(20)
  <2>6. \A i \in 1..(Len(ring[t]) - Fits(t)) : Left(t)[i] = ring[t][m + i - 1]
    <3> HIDE DEF m, n
    <3> QED
      BY <2>2, <2>3, <2>4
  <2>7. \A i \in Int : m + i - 1 = Fits(t) + i
    BY <1>1
  <2>8. ASSUME NEW i \in 1..(Len(ring[t]) - Fits(t)) PROVE Left(t)[i] = ring[t][Fits(t) + i]
    <3>1. m + i - 1 = Fits(t) + i
      BY <2>7
    <3>2. Left(t)[i] = ring[t][m + i - 1]
      BY <2>6
    <3> HIDE DEF m, n
    <3> QED
      BY <3>1, <3>2
  <2>9. Left(t) \in Seq(Item)
    BY <2>2, <2>4
  <2> QED
    BY <2>5, <2>8, <2>9
<1> QED
  BY <1>3, <1>4

(* The rings of a turn are the open ones, each once.                       *)
LEMMA TurnSpec ==
    ASSUME TInv, OpenInv, open > 0
    PROVE  /\ \A i \in 0..(open - 1) : Turn(i) \in 1..open
           /\ \A i, j \in 0..(open - 1) : Turn(i) = Turn(j) => i = j
           /\ \A t \in 1..open : \E i \in 0..(open - 1) : Turn(i) = t
<1>1. open \in Nat /\ rr \in 0..(open - 1)
  BY DEF TInv, OpenInv
<1>2. \A x \in 0..(open - 1) : x % open = x
  BY <1>1
<1>3. \A x \in open..(2 * open - 1) : x % open = x - open
  BY <1>1
<1>4. ASSUME NEW i \in 0..(open - 1)
      PROVE  Turn(i) = IF rr + i < open THEN rr + i + 1 ELSE (rr + i) - open + 1
  <2>1. CASE rr + i < open
    <3>1. rr + i \in 0..(open - 1)
      BY <1>1, <2>1
    <3> QED
      BY <1>2, <2>1, <3>1 DEF Turn
  <2>2. CASE ~(rr + i < open)
    <3>1. rr + i \in open..(2 * open - 1)
      BY <1>1, <2>2
    <3>2. (rr + i) % open = (rr + i) - open
      <4> DEFINE x == rr + i
      <4>1. x \in open..(2 * open - 1)
        BY <3>1
      <4>2. x % open = x - open
        <5> HIDE DEF x
        <5> QED
          BY <1>3, <4>1
      <4> QED
        BY <4>2
    <3> QED
      BY <1>1, <2>2, <3>2 DEF Turn
  <2> QED
    BY <2>1, <2>2
<1>5. \A i \in 0..(open - 1) : Turn(i) \in 1..open
  BY <1>1, <1>4, SMTT(20)
<1>6. ASSUME NEW i \in 0..(open - 1), NEW j \in 0..(open - 1), Turn(i) = Turn(j) PROVE i = j
  <2>1. Turn(i) = IF rr + i < open THEN rr + i + 1 ELSE (rr + i) - open + 1
    BY <1>4
  <2>2. Turn(j) = IF rr + j < open THEN rr + j + 1 ELSE (rr + j) - open + 1
    BY <1>4
  <2>3. i \in Int /\ j \in Int /\ open \in Int /\ rr \in Int
    BY <1>1
  <2>4. Turn(i) = Turn(j)
    BY <1>6
  <2> QED
    BY <1>1, <2>1, <2>2, <2>3, <2>4, SMTT(20)
<1>7. ASSUME NEW t \in 1..open PROVE \E i \in 0..(open - 1) : Turn(i) = t
  <2> DEFINE i == IF t > rr THEN t - rr - 1 ELSE t + open - rr - 1
  <2>1. i \in 0..(open - 1)
    BY <1>1
  <2>2. Turn(i) = t
    BY <1>1, <1>4, <2>1
  <2> QED
    BY <2>1, <2>2
<1> QED
  BY <1>5, <1>6, <1>7

(* What is taken from i rings on, as BatchDrain puts it together.          *)
LEMMA DrainRecursion ==
    ASSUME TInv
    PROVE  \E f : /\ f = [i \in 0..open |-> IF i = open THEN <<>>
                                            ELSE SubSeq(ring[Turn(i)], 1, Fits(Turn(i))) \o f[i + 1]]
                  /\ BatchDrain = f[0]
<1> DEFINE c == [i \in 0..open |-> SubSeq(ring[Turn(i)], 1, Fits(Turn(i)))]
           Def(f) == f = [i \in 0..open |-> IF i = open THEN <<>>
                                 ELSE SubSeq(ring[Turn(i)], 1, Fits(Turn(i))) \o f[i + 1]]
<1>1. open \in Nat
  BY DEF TInv
<1>2. \A i \in 0..open : c[i] = SubSeq(ring[Turn(i)], 1, Fits(Turn(i)))
  OBVIOUS
<1>3. PICK f : f = [i \in 0..open |-> IF i = open THEN <<>> ELSE c[i] \o f[i + 1]]
  <2> HIDE DEF c
  <2>1. \E f : FromEnd(f, open, c)
    BY <1>1, SuffixRecursion
  <2> QED
    BY <2>1 DEF FromEnd
<1>4. f = [i \in 0..open |-> IF i = open THEN <<>>
                             ELSE SubSeq(ring[Turn(i)], 1, Fits(Turn(i))) \o f[i + 1]]
  <2> HIDE DEF c
  <2> QED
    BY <1>2, <1>3
<1>5. \E g : Def(g)
  BY <1>4
<1>6. BatchDrain = (CHOOSE g : Def(g))[0]
  BY DEF BatchDrain
<1> HIDE DEF Def
<1>7. Def(CHOOSE g : Def(g))
  BY <1>5
<1> QED
  BY <1>6, <1>7 DEF Def

(* A sequence s has the items taken from rings i, i+1 ... of the turn, and  *)
(* those of one thread in their order.                                      *)
Holds(s, i) ==
    /\ s \in Seq(Item)
    /\ \A p \in 1..Len(s) : \E k \in i..(open - 1) : \E j \in 1..Fits(Turn(k)) : s[p] = ring[Turn(k)][j]
    /\ \A k \in i..(open - 1) : \A j \in 1..Fits(Turn(k)) : \E p \in 1..Len(s) : s[p] = ring[Turn(k)][j]
    /\ \A p, q \in 1..Len(s) : p < q /\ s[p][2] = s[q][2] => s[p][3] < s[q][3]

LEMMA HoldsStep ==
    ASSUME TInv, OpenInv, ItemsInv, OrderInv, open > 0,
           NEW i \in 0..(open - 1), NEW s, Holds(s, i + 1)
    PROVE  Holds(Taken(Turn(i)) \o s, i)
<1> DEFINE t == Turn(i)
           F == Fits(t)
           N == Len(s)
           b == Taken(t) \o s
<1>1. open \in Nat /\ open \in 1..Threads /\ Threads \in Nat
  BY ConstantTypes DEF TInv
<1>2. t \in 1..open
  BY TurnSpec
<1>3. t \in 1..Threads
  BY <1>1, <1>2
<1> HIDE DEF t
<1>4. /\ Taken(t) \in Seq(Item) /\ Len(Taken(t)) = F
      /\ \A j \in 1..F : Taken(t)[j] = ring[t][j]
  BY <1>3, TakenSpec
<1>5. F \in Nat /\ \A j \in 1..F : j \in 1..Len(ring[t])
  <2>1. F \in 0..Len(ring[t]) /\ Len(ring[t]) \in Nat
    BY <1>3, FitsSpec, LenProperties DEF TInv
  <2> HIDE DEF F
  <2> QED
    BY <2>1
<1>6. s \in Seq(Item) /\ N \in Nat
  BY LenProperties DEF Holds
<1> HIDE DEF F, N
<1>7. b \in Seq(Item) /\ Len(b) = F + N
  BY <1>4, <1>6, ConcatProperties DEF N
<1>8. ASSUME NEW p \in 1..(F + N) PROVE b[p] = IF p <= F THEN ring[t][p] ELSE s[p - F]
  <2>1. b[p] = IF p <= F THEN Taken(t)[p] ELSE s[p - F]
    BY <1>4, <1>6, ConcatProperties DEF N
  <2>2. p <= F => p \in 1..F
    BY <1>5
  <2> QED
    BY <1>4, <2>1, <2>2
<1> HIDE DEF b
<1>9. ASSUME NEW j \in 1..F PROVE j \in 1..(F + N) /\ b[j] = ring[t][j]
  <2>1. j \in 1..(F + N) /\ j <= F
    BY <1>5, <1>6
  <2> QED
    BY <1>8, <2>1
<1>10. ASSUME NEW j \in 1..N PROVE F + j \in 1..(F + N) /\ b[F + j] = s[j]
  <2> DEFINE m == F + j
  <2>1. m \in 1..(F + N) /\ ~(m <= F) /\ m - F = j
    BY <1>5, <1>6, SMTT(20)
  <2> HIDE DEF m
  <2>2. b[m] = s[j]
    BY <1>8, <2>1
  <2> QED
    BY <2>1, <2>2 DEF m
<1>11. ASSUME NEW p \in 1..(F + N)
       PROVE  p \in 1..F \/ (p - F \in 1..N /\ b[p] = s[p - F])
  <2>1. CASE p <= F
    BY <1>5, <2>1
  <2>2. CASE ~(p <= F)
    <3>1. p - F \in 1..N
      BY <1>5, <1>6, <2>2
    <3> QED
      BY <1>8, <2>2, <3>1
  <2> QED
    BY <2>1, <2>2
<1>12. \A j \in 1..F : ring[t][j][2] = t
  BY <1>3, <1>5 DEF ItemsInv
<1>13. \A p \in 1..N : \E k \in (i + 1)..(open - 1) : \E j \in 1..Fits(Turn(k)) : s[p] = ring[Turn(k)][j]
  BY DEF Holds, N
<1>14. ASSUME NEW p \in 1..N PROVE s[p][2] # t
  <2>1. PICK k \in (i + 1)..(open - 1) : \E j \in 1..Fits(Turn(k)) : s[p] = ring[Turn(k)][j]
    BY <1>13
  <2>2. PICK j \in 1..Fits(Turn(k)) : s[p] = ring[Turn(k)][j]
    BY <2>1
  <2>3. k \in 0..(open - 1) /\ k # i
    BY <1>1
  <2>4. Turn(k) \in 1..open /\ Turn(k) # t
    BY <2>3, TurnSpec DEF t
  <2> DEFINE u == Turn(k)
  <2>5. u \in 1..Threads
    BY <1>1, <2>4
  <2>6. j \in 1..Fits(u) /\ s[p] = ring[u][j] /\ u # t
    BY <2>2, <2>4
  <2> HIDE DEF u
  <2>7. Fits(u) \in 0..Len(ring[u]) /\ Len(ring[u]) \in Nat
    BY <2>5, FitsSpec, LenProperties DEF TInv
  <2>8. j \in 1..Len(ring[u])
    BY <2>6, <2>7, SMTT(20)
  <2>9. ring[u][j][2] = u
    BY <2>5, <2>8 DEF ItemsInv
  <2> QED
    BY <2>6, <2>9
<1>15. ASSUME NEW p \in 1..(F + N)
       PROVE  \E k \in i..(open - 1) : \E j \in 1..Fits(Turn(k)) : b[p] = ring[Turn(k)][j]
  <2>1. CASE p \in 1..F
    <3>1. i \in i..(open - 1)
      BY <1>1
    <3>2. \E j \in 1..Fits(Turn(i)) : b[p] = ring[Turn(i)][j]
      BY <1>9, <2>1 DEF F, t
    <3> QED
      BY <3>1, <3>2
  <2>2. CASE p - F \in 1..N /\ b[p] = s[p - F]
    <3>1. \A k \in (i + 1)..(open - 1) : k \in i..(open - 1)
      BY <1>1
    <3>2. PICK k \in (i + 1)..(open - 1) : \E j \in 1..Fits(Turn(k)) : s[p - F] = ring[Turn(k)][j]
      BY <1>13, <2>2
    <3> QED
      BY <2>2, <3>1, <3>2
  <2> QED
    BY <1>11, <2>1, <2>2
<1>16. ASSUME NEW k \in i..(open - 1), NEW j \in 1..Fits(Turn(k))
       PROVE  \E p \in 1..(F + N) : b[p] = ring[Turn(k)][j]
  <2>1. CASE k = i
    <3>1. j \in 1..F /\ Turn(k) = t
      BY <2>1 DEF F, t
    <3> QED
      BY <1>9, <3>1
  <2>2. CASE k # i
    <3>1. k \in (i + 1)..(open - 1)
      BY <1>1, <2>2
    <3>2. PICK p \in 1..N : s[p] = ring[Turn(k)][j]
      BY <3>1 DEF Holds, N
    <3>3. F + p \in 1..(F + N) /\ b[F + p] = ring[Turn(k)][j]
      BY <1>10, <3>2
    <3> QED
      BY <3>3
  <2> QED
    BY <2>1, <2>2
<1>17. ASSUME NEW p \in 1..(F + N), NEW q \in 1..(F + N), p < q, b[p][2] = b[q][2]
       PROVE  b[p][3] < b[q][3]
  <2>1. CASE p \in 1..F /\ q \in 1..F
    <3>1. p \in 1..Len(ring[t]) /\ q \in 1..Len(ring[t])
      BY <1>5, <2>1
    <3>2. ring[t][p][3] < ring[t][q][3]
      BY <1>3, <1>17, <3>1 DEF OrderInv
    <3> QED
      BY <1>9, <2>1, <3>2
  <2>2. CASE p \in 1..F /\ q \notin 1..F
    <3>1. b[p][2] = t
      BY <1>9, <1>12, <2>2
    <3>2. q - F \in 1..N /\ b[q] = s[q - F]
      BY <1>11, <2>2
    <3>3. s[q - F][2] # t
      BY <1>14, <3>2
    <3> QED
      BY <1>17, <3>1, <3>2, <3>3
  <2>3. CASE p \notin 1..F
    <3>1. p - F \in 1..N /\ b[p] = s[p - F]
      BY <1>11, <2>3
    <3>2. q - F \in 1..N /\ b[q] = s[q - F]
      <4>1. q \notin 1..F
        BY <1>5, <1>17, <2>3
      <4> QED
        BY <1>11, <4>1
    <3>3. p - F < q - F
      BY <1>5, <1>6, <1>17
    <3>4. \A x, y \in 1..N : x < y /\ s[x][2] = s[y][2] => s[x][3] < s[y][3]
      BY DEF Holds, N
    <3>5. s[p - F][3] < s[q - F][3]
      BY <1>17, <3>1, <3>2, <3>3, <3>4
    <3> QED
      BY <3>1, <3>2, <3>5
  <2> QED
    BY <2>1, <2>2, <2>3
<1>18. Holds(b, i)
  BY <1>7, <1>15, <1>16, <1>17 DEF Holds
<1> QED
  BY <1>18 DEF b, t

(* BatchDrain: whole items of the open rings, and something of each that   *)
(* has any.                                                                *)
LEMMA DrainSpec ==
    ASSUME TInv, OpenInv, ItemsInv, OrderInv, open > 0
    PROVE  /\ Holds(BatchDrain, 0)
           /\ BatchDrain = <<>> => \A t \in 1..open : ring[t] = <<>>
<1>1. PICK f : /\ f = [i \in 0..open |-> IF i = open THEN <<>>
                                         ELSE SubSeq(ring[Turn(i)], 1, Fits(Turn(i))) \o f[i + 1]]
               /\ BatchDrain = f[0]
  BY DrainRecursion
<1>2. open \in Nat /\ open \in 1..Threads /\ Threads \in Nat
  BY ConstantTypes DEF TInv
<1> DEFINE T == {k \in Nat : k <= open => Holds(f[open - k], open - k)}
<1>3. 0 \in T
  <2>1. f[open] = <<>> /\ open - 0 = open /\ open \in 0..open
    BY <1>1, <1>2
  <2>2. Holds(<<>>, open)
    BY <1>2 DEF Holds
  <2> QED
    BY <2>1, <2>2
<1>4. ASSUME NEW k \in Nat, k \in T PROVE k + 1 \in T
  <2> SUFFICES ASSUME k + 1 <= open PROVE Holds(f[open - (k + 1)], open - (k + 1))
    OBVIOUS
  <2> DEFINE i == open - (k + 1)
  <2>1. i \in 0..(open - 1) /\ i + 1 = open - k /\ i \in 0..open /\ i # open
    BY <1>2
  <2>2. Holds(f[i + 1], i + 1)
    BY <1>2, <1>4, <2>1
  <2>3. f[i] = Taken(Turn(i)) \o f[i + 1]
    BY <1>1, <2>1 DEF Taken
  <2> HIDE DEF i
  <2>4. Holds(f[i], i)
    BY <2>1, <2>2, <2>3, HoldsStep
  <2> QED
    BY <2>4 DEF i
<1>5. open \in T
  <2> HIDE DEF T
  <2> QED
    BY <1>2, <1>3, <1>4, NatByInduction
<1>6. Holds(BatchDrain, 0)
  <2>1. open - open = 0
    BY <1>2
  <2> QED
    BY <1>1, <1>2, <1>5, <2>1
<1>7. ASSUME BatchDrain = <<>>, NEW t \in 1..open, ring[t] # <<>> PROVE FALSE
  <2>1. PICK i \in 0..(open - 1) : Turn(i) = t
    BY TurnSpec
  <2>2. t \in 1..Threads
    BY <1>2
  <2>3. 1 \in 1..Fits(t)
    BY <1>7, <2>2, FitsSpec
  <2>4. \E p \in 1..Len(BatchDrain) : BatchDrain[p] = ring[t][1]
    BY <1>6, <2>1, <2>3 DEF Holds
  <2>5. Len(BatchDrain) = 0
    BY <1>7
  <2> QED
    BY <2>4, <2>5
<1> QED
  BY <1>6, <1>7

-----------------------------------------------------------------------------
(* What a step may do to the items: nothing, make one, or process some.    *)

Unmoved == UNCHANGED <<ring, made, trace>>

(* What a turn or the sweep does to the items.                             *)
Processed ==
    /\ trace' = trace \o BatchDrain /\ open > 0
    /\ ring' = [t \in 1..Threads |-> IF t <= open THEN Left(t) ELSE ring[t]]
    /\ UNCHANGED made

(* The number of items that are left of ring t.                            *)
LEMMA RingAfter ==
    ASSUME TInv, Processed, NEW t \in 1..Threads
    PROVE  \E n \in 0..Len(ring[t]) :
              /\ t <= open => n = Fits(t)
              /\ ~(t <= open) => n = 0
              /\ ring'[t] \in Seq(Item) /\ Len(ring'[t]) = Len(ring[t]) - n
              /\ \A i \in 1..(Len(ring[t]) - n) : ring'[t][i] = ring[t][n + i]
<1>1. ring[t] \in Seq(Item) /\ Len(ring[t]) \in Nat /\ Fits(t) \in 0..Len(ring[t])
  BY FitsSpec, LenProperties DEF TInv
<1>2. CASE t <= open
  <2>1. ring'[t] = Left(t)
    BY <1>2 DEF Processed
  <2> QED
    BY <1>1, <1>2, <2>1, TakenSpec
<1>3. CASE ~(t <= open)
  <2>1. ring'[t] = ring[t]
    BY <1>3 DEF Processed
  <2>2. 0 \in 0..Len(ring[t]) /\ Len(ring[t]) = Len(ring[t]) - 0
    BY <1>1
  <2>3. \A i \in 1..Len(ring[t]) : 0 + i = i
    OBVIOUS
  <2> QED
    BY <1>1, <1>3, <2>1, <2>2, <2>3
<1> QED
  BY <1>2, <1>3

(* An item that is processed was one of the first of its ring, and the     *)
(* items are the same as before.                                           *)
LEMMA TraceAfter ==
    ASSUME TInv, OpenInv, ItemsInv, OrderInv, Processed
    PROVE  /\ trace' \in Seq(Item) /\ BatchDrain \in Seq(Item)
           /\ Len(trace') = Len(trace) + Len(BatchDrain)
           /\ \A i \in 1..Len(trace') :
                 \/ i \in 1..Len(trace) /\ trace'[i] = trace[i]
                 \/ i - Len(trace) \in 1..Len(BatchDrain) /\ trace'[i] = BatchDrain[i - Len(trace)]
           /\ \A i \in 1..Len(trace) : i \in 1..Len(trace') /\ trace'[i] = trace[i]
           /\ \A i \in 1..Len(BatchDrain) : \E k \in 1..Len(trace') : trace'[k] = BatchDrain[i]
<1> DEFINE N == Len(trace)
           M == Len(BatchDrain)
<1>1. trace \in Seq(Item) /\ BatchDrain \in Seq(Item)
  BY DrainSpec DEF TInv, Processed, Holds
<1>2. N \in Nat /\ M \in Nat
  BY <1>1, LenProperties
<1>3. /\ trace' \in Seq(Item) /\ Len(trace') = N + M
      /\ \A i \in 1..(N + M) : trace'[i] = IF i <= N THEN trace[i] ELSE BatchDrain[i - N]
  BY <1>1, ConcatProperties DEF Processed
<1> HIDE DEF N, M
<1>4. ASSUME NEW i \in 1..(N + M)
      PROVE  \/ i \in 1..N /\ trace'[i] = trace[i]
             \/ i - N \in 1..M /\ trace'[i] = BatchDrain[i - N]
  <2>1. CASE i <= N
    BY <1>2, <1>3, <2>1
  <2>2. CASE ~(i <= N)
    <3>1. i - N \in 1..M
      BY <1>2, <2>2
    <3> QED
      BY <1>3, <2>2, <3>1
  <2> QED
    BY <2>1, <2>2
<1>5. ASSUME NEW i \in 1..N PROVE i \in 1..(N + M) /\ trace'[i] = trace[i]
  <2>1. i \in 1..(N + M) /\ i <= N
    BY <1>2
  <2> QED
    BY <1>3, <2>1
<1>6. ASSUME NEW i \in 1..M PROVE \E k \in 1..(N + M) : trace'[k] = BatchDrain[i]
  <2> DEFINE k == N + i
  <2>1. k \in 1..(N + M) /\ ~(k <= N) /\ k - N = i
    BY <1>2
  <2> HIDE DEF k
  <2> QED
    BY <1>3, <2>1
<1> QED
  BY <1>1, <1>3, <1>4, <1>5, <1>6 DEF N, M

(* An item and the place it has, processed or in a ring.                   *)
At(tr, rg, x) ==
    \/ \E i \in 1..Len(tr) : x = tr[i]
    \/ \E t \in 1..Threads : \E j \in 1..Len(rg[t]) : x = rg[t][j]

LEMMA InItems ==
    ASSUME NEW tr \in Seq(Item), NEW rg \in [1..Threads -> Seq(Item)], NEW x
    PROVE  x \in ItemsOf(tr, rg) <=> At(tr, rg, x)
<1>1. DOMAIN tr = 1..Len(tr) /\ \A t \in 1..Threads : DOMAIN rg[t] = 1..Len(rg[t])
  <2>1. \A t \in 1..Threads : rg[t] \in Seq(Item)
    OBVIOUS
  <2> QED
    BY <2>1, LenProperties
<1>2. x \in Range(tr) <=> \E i \in 1..Len(tr) : x = tr[i]
  BY <1>1 DEF Range
<1>3. \A t \in 1..Threads : x \in Range(rg[t]) <=> \E j \in 1..Len(rg[t]) : x = rg[t][j]
  BY <1>1 DEF Range
<1> QED
  BY <1>2, <1>3 DEF ItemsOf, At

(* Where the items of a turn come from.                                    *)
LEMMA DrainOrigin ==
    ASSUME TInv, OpenInv, ItemsInv, OrderInv, open > 0
    PROVE  /\ \A p \in 1..Len(BatchDrain) :
                 LET t == BatchDrain[p][2]
                 IN t \in 1..open /\ \E j \in 1..Fits(t) : j \in 1..Len(ring[t]) /\ BatchDrain[p] = ring[t][j]
           /\ \A t \in 1..open : \A j \in 1..Fits(t) : \E p \in 1..Len(BatchDrain) : BatchDrain[p] = ring[t][j]
<1> DEFINE D == BatchDrain
<1>1. Holds(D, 0)
  BY DrainSpec
<1> HIDE DEF D
<1>2. open \in Nat /\ open \in 1..Threads /\ Threads \in Nat
  BY ConstantTypes DEF TInv
<1>3. ASSUME NEW p \in 1..Len(D)
      PROVE  /\ D[p][2] \in 1..open
             /\ \E j \in 1..Fits(D[p][2]) : j \in 1..Len(ring[D[p][2]]) /\ D[p] = ring[D[p][2]][j]
  <2>1. PICK k \in 0..(open - 1) : \E j \in 1..Fits(Turn(k)) : D[p] = ring[Turn(k)][j]
    BY <1>1 DEF Holds
  <2>2. PICK j \in 1..Fits(Turn(k)) : D[p] = ring[Turn(k)][j]
    BY <2>1
  <2> DEFINE t == Turn(k)
  <2>3. t \in 1..open
    BY TurnSpec
  <2>4. j \in 1..Fits(t) /\ D[p] = ring[t][j]
    BY <2>2
  <2> HIDE DEF t
  <2>5. t \in 1..Threads
    BY <1>2, <2>3
  <2>6. Fits(t) \in 0..Len(ring[t]) /\ Len(ring[t]) \in Nat
    BY <2>5, FitsSpec, LenProperties DEF TInv
  <2>7. j \in 1..Len(ring[t])
    BY <2>4, <2>6
  <2>8. D[p][2] = t
    BY <2>4, <2>5, <2>7, SMTT(20) DEF ItemsInv
  <2> QED
    BY <2>3, <2>4, <2>7, <2>8
<1>4. ASSUME NEW t \in 1..open, NEW j \in 1..Fits(t) PROVE \E p \in 1..Len(D) : D[p] = ring[t][j]
  <2>1. PICK k \in 0..(open - 1) : Turn(k) = t
    BY TurnSpec
  <2> QED
    BY <1>1, <2>1 DEF Holds
<1> QED
  BY <1>3, <1>4 DEF D

LEMMA RingTypeAfter ==
    ASSUME TInv, Processed
    PROVE  ring' \in [1..Threads -> Seq(Item)]
<1>1. \A t \in 1..Threads : ring'[t] \in Seq(Item)
  BY RingAfter
<1>2. ring' = [t \in 1..Threads |-> ring'[t]]
  BY DEF Processed
<1> QED
  BY <1>1, <1>2

LEMMA SameItems ==
    ASSUME TInv, OpenInv, ItemsInv, OrderInv, Processed
    PROVE  AllItems' = AllItems
<1>1. trace \in Seq(Item) /\ ring \in [1..Threads -> Seq(Item)] /\ open > 0 /\ open \in 1..Threads /\ open \in Nat
      /\ Threads \in Nat
  BY ConstantTypes DEF TInv, Processed
<1>2. trace' \in Seq(Item) /\ ring' \in [1..Threads -> Seq(Item)]
  BY TraceAfter, RingTypeAfter
<1>a. ASSUME NEW x PROVE x \in ItemsOf(trace', ring') <=> At(trace', ring', x)
  <2> DEFINE tr == trace'
             rg == ring'
  <2>1. tr \in Seq(Item) /\ rg \in [1..Threads -> Seq(Item)]
    BY <1>2
  <2> HIDE DEF tr, rg
  <2>2. x \in ItemsOf(tr, rg) <=> At(tr, rg, x)
    BY <2>1, InItems
  <2> QED
    BY <2>2 DEF tr, rg
<1>b. ASSUME NEW x PROVE x \in ItemsOf(trace, ring) <=> At(trace, ring, x)
  BY <1>1, InItems
<1>3. ASSUME NEW x, x \in ItemsOf(trace', ring') PROVE x \in ItemsOf(trace, ring)
  <2>1. \/ \E i \in 1..Len(trace') : x = trace'[i]
        \/ \E t \in 1..Threads : \E j \in 1..Len(ring'[t]) : x = ring'[t][j]
    BY <1>a, <1>3 DEF At
  <2>2. ASSUME NEW i \in 1..Len(trace'), x = trace'[i] PROVE x \in ItemsOf(trace, ring)
    <3>1. CASE i \in 1..Len(trace) /\ trace'[i] = trace[i]
      BY <1>b, <2>2, <3>1 DEF At
    <3>2. CASE i - Len(trace) \in 1..Len(BatchDrain) /\ trace'[i] = BatchDrain[i - Len(trace)]
      <4>1. PICK p \in 1..Len(BatchDrain) : x = BatchDrain[p]
        BY <2>2, <3>2
      <4>2. x[2] \in 1..open /\ \E j \in 1..Fits(x[2]) : j \in 1..Len(ring[x[2]]) /\ x = ring[x[2]][j]
        BY <1>1, <4>1, DrainOrigin
      <4> DEFINE t == x[2]
      <4>3. t \in 1..open /\ \E j \in 1..Len(ring[t]) : x = ring[t][j]
        BY <4>2
      <4> HIDE DEF t
      <4>4. t \in 1..Threads
        BY <1>1, <4>3, SMTT(20)
      <4> QED
        BY <1>b, <4>3, <4>4 DEF At
    <3> QED
      BY <3>1, <3>2, TraceAfter
  <2>3. ASSUME NEW t \in 1..Threads, NEW j \in 1..Len(ring'[t]), x = ring'[t][j]
        PROVE  x \in ItemsOf(trace, ring)
    <3>1. PICK n \in 0..Len(ring[t]) :
              /\ Len(ring'[t]) = Len(ring[t]) - n
              /\ \A i \in 1..(Len(ring[t]) - n) : ring'[t][i] = ring[t][n + i]
      BY RingAfter
    <3>2. Len(ring[t]) \in Nat
      BY <1>1, LenProperties
    <3>3. n + j \in 1..Len(ring[t]) /\ x = ring[t][n + j]
      BY <2>3, <3>1, <3>2
    <3> QED
      BY <1>b, <3>3 DEF At
  <2> QED
    BY <2>1, <2>2, <2>3
<1>4. ASSUME NEW x, x \in ItemsOf(trace, ring) PROVE x \in ItemsOf(trace', ring')
  <2>1. \/ \E i \in 1..Len(trace) : x = trace[i]
        \/ \E t \in 1..Threads : \E j \in 1..Len(ring[t]) : x = ring[t][j]
    BY <1>b, <1>4 DEF At
  <2>2. ASSUME NEW i \in 1..Len(trace), x = trace[i] PROVE \E k \in 1..Len(trace') : x = trace'[k]
    BY <2>2, TraceAfter
  <2>3. ASSUME NEW t \in 1..Threads, NEW j \in 1..Len(ring[t]), x = ring[t][j]
        PROVE  \/ \E k \in 1..Len(trace') : x = trace'[k]
               \/ \E k \in 1..Len(ring'[t]) : x = ring'[t][k]
    <3>1. PICK n \in 0..Len(ring[t]) :
              /\ t <= open => n = Fits(t)
              /\ ~(t <= open) => n = 0
              /\ Len(ring'[t]) = Len(ring[t]) - n
              /\ \A i \in 1..(Len(ring[t]) - n) : ring'[t][i] = ring[t][n + i]
      BY RingAfter
    <3>2. Len(ring[t]) \in Nat
      BY <1>1, LenProperties
    <3>3. CASE j <= n
      <4>1. t \in 1..open /\ j \in 1..Fits(t)
        BY <1>1, <3>1, <3>2, <3>3
      <4>2. \E p \in 1..Len(BatchDrain) : BatchDrain[p] = x
        BY <1>1, <2>3, <4>1, DrainOrigin
      <4> QED
        BY <4>2, TraceAfter
    <3>4. CASE ~(j <= n)
      <4> DEFINE i == j - n
      <4>1. i \in 1..(Len(ring[t]) - n) /\ n + i = j
        BY <3>1, <3>2, <3>4, SMTT(20)
      <4> HIDE DEF i
      <4> QED
        BY <2>3, <3>1, <4>1
    <3> QED
      BY <3>3, <3>4
  <2> QED
    BY <1>a, <2>1, <2>2, <2>3 DEF At
<1>5. AllItems = ItemsOf(trace, ring) /\ AllItems' = ItemsOf(trace', ring')
  BY DEF AllItems, ItemsOf
<1> QED
  BY <1>3, <1>4, <1>5


(* A turn and the sweep keep what is known of the items ...                *)
LEMMA ProcessedItems ==
    ASSUME TInv, OpenInv, ItemsInv, OrderInv, Processed, UNCHANGED <<registered, mpc>>
    PROVE  ItemsInv'
<1>1. open \in 1..Threads /\ open \in Nat /\ Threads \in Nat /\ registered \in 0..Threads /\ made' = made
  BY ConstantTypes DEF TInv, Processed
<1>2. AllItems' = AllItems
  BY SameItems
<1>3. ASSUME NEW t \in 1..Threads, NEW i \in 1..Len(ring'[t]) PROVE ring'[t][i][2] = t
  <2>1. PICK n \in 0..Len(ring[t]) :
            /\ Len(ring'[t]) = Len(ring[t]) - n
            /\ \A k \in 1..(Len(ring[t]) - n) : ring'[t][k] = ring[t][n + k]
    BY RingAfter
  <2>2. Len(ring[t]) \in Nat
    BY LenProperties DEF TInv
  <2>3. n + i \in 1..Len(ring[t]) /\ ring'[t][i] = ring[t][n + i]
    BY <2>1, <2>2
  <2> QED
    BY <2>3 DEF ItemsInv
<1>4. /\ \A x \in AllItems : x[3] \in 1..made
      /\ \A x, y \in AllItems : x[3] = y[3] => x[2] = y[2]
      /\ \A k \in 1..made : \E x \in AllItems : x[3] = k
  BY DEF ItemsInv
<1>5. ASSUME mpc # "done", NEW t \in (registered + 1)..Threads PROVE ring'[t] = <<>>
  <2>1. t \in 1..Threads /\ ~(t <= open) /\ ring[t] = <<>>
    BY <1>1, <1>5 DEF ItemsInv, OpenInv
  <2> QED
    BY <2>1 DEF Processed
<1> HIDE DEF AllItems
<1>6. /\ \A x \in AllItems' : x[3] \in 1..made'
      /\ \A x, y \in AllItems' : x[3] = y[3] => x[2] = y[2]
      /\ \A k \in 1..made' : \E x \in AllItems' : x[3] = k
  BY <1>1, <1>2, <1>4
<1> QED
  BY <1>3, <1>5, <1>6 DEF ItemsInv

(* ... and the order of each thread's.                                     *)
LEMMA ProcessedOrder ==
    ASSUME TInv, OpenInv, ItemsInv, OrderInv, Processed
    PROVE  OrderInv'
<1>1. open \in 1..Threads /\ open \in Nat /\ Threads \in Nat /\ open > 0
  BY ConstantTypes DEF TInv, Processed
<1>2. \A t \in 1..Threads : Len(ring[t]) \in Nat
  BY LenProperties DEF TInv
<1>3. ASSUME NEW t \in 1..Threads, NEW i \in 1..Len(ring'[t]), NEW j \in 1..Len(ring'[t]), i < j
      PROVE  ring'[t][i][3] < ring'[t][j][3]
  <2>1. PICK n \in 0..Len(ring[t]) :
            /\ Len(ring'[t]) = Len(ring[t]) - n
            /\ \A k \in 1..(Len(ring[t]) - n) : ring'[t][k] = ring[t][n + k]
    BY RingAfter
  <2>2. /\ n + i \in 1..Len(ring[t]) /\ n + j \in 1..Len(ring[t]) /\ n + i < n + j
        /\ ring'[t][i] = ring[t][n + i] /\ ring'[t][j] = ring[t][n + j]
    <3> DEFINE l == Len(ring[t])
    <3>1. l \in Nat /\ n \in 0..l /\ i \in 1..(l - n) /\ j \in 1..(l - n)
      BY <1>2, <2>1
    <3> HIDE DEF l
    <3>2. n + i \in 1..l /\ n + j \in 1..l /\ n + i < n + j
      BY <1>3, <3>1
    <3>3. ring'[t][i] = ring[t][n + i] /\ ring'[t][j] = ring[t][n + j]
      BY <2>1, <3>1 DEF l
    <3> QED
      BY <3>2, <3>3 DEF l
  <2>3. ring[t][n + i][3] < ring[t][n + j][3]
    BY <2>2 DEF OrderInv
  <2> QED
    BY <2>2, <2>3
<1>4. \A p, q \in 1..Len(BatchDrain) :
          p < q /\ BatchDrain[p][2] = BatchDrain[q][2] => BatchDrain[p][3] < BatchDrain[q][3]
  BY <1>1, DrainSpec DEF Holds
<1> DEFINE N == Len(trace)
<1>5. N \in Nat
  BY LenProperties DEF TInv
<1> HIDE DEF N
<1>6. \A i \in 1..Len(trace') :
          \/ i \in 1..N /\ trace'[i] = trace[i]
          \/ i - N \in 1..Len(BatchDrain) /\ trace'[i] = BatchDrain[i - N]
  BY TraceAfter DEF N
<1>7. ASSUME NEW i \in 1..Len(trace'), NEW j \in 1..Len(trace'), i < j, trace'[i][2] = trace'[j][2]
      PROVE  trace'[i][3] < trace'[j][3]
  <2>1. CASE /\ i \in 1..N /\ trace'[i] = trace[i]
             /\ j \in 1..N /\ trace'[j] = trace[j]
    BY <1>7, <2>1 DEF OrderInv, N
  <2>2. CASE /\ i \in 1..N /\ trace'[i] = trace[i]
             /\ j - N \in 1..Len(BatchDrain) /\ trace'[j] = BatchDrain[j - N]
    <3> DEFINE p == j - N
               t == BatchDrain[p][2]
    <3>1. t \in 1..open /\ \E k \in 1..Fits(t) : k \in 1..Len(ring[t]) /\ BatchDrain[p] = ring[t][k]
      BY <1>1, <2>2, DrainOrigin
    <3>2. trace[i][2] = t
      BY <1>7, <2>2
    <3>3. trace'[j] = BatchDrain[p]
      BY <2>2
    <3> HIDE DEF p, t
    <3>4. t \in 1..Threads
      BY <1>1, <3>1
    <3>5. PICK k \in 1..Len(ring[t]) : BatchDrain[p] = ring[t][k]
      BY <3>1
    <3>6. trace[i][3] < ring[t][k][3]
      BY <2>2, <3>2, <3>4 DEF OrderInv, N
    <3> QED
      BY <2>2, <3>3, <3>5, <3>6
  <2>3. CASE /\ i - N \in 1..Len(BatchDrain) /\ trace'[i] = BatchDrain[i - N]
             /\ j - N \in 1..Len(BatchDrain) /\ trace'[j] = BatchDrain[j - N]
    <3>1. i - N < j - N
      BY <1>5, <1>7
    <3> QED
      BY <1>4, <1>7, <2>3, <3>1
  <2>4. ~(i - N \in 1..Len(BatchDrain) /\ j \in 1..N)
    BY <1>5, <1>7, SMTT(20)
  <2> QED
    BY <1>6, <2>1, <2>2, <2>3, <2>4
<1>8. ASSUME NEW i \in 1..Len(trace'), NEW t \in 1..Threads, NEW j \in 1..Len(ring'[t]), trace'[i][2] = t
      PROVE  trace'[i][3] < ring'[t][j][3]
  <2>1. PICK n \in 0..Len(ring[t]) :
            /\ t <= open => n = Fits(t)
            /\ Len(ring'[t]) = Len(ring[t]) - n
            /\ \A k \in 1..(Len(ring[t]) - n) : ring'[t][k] = ring[t][n + k]
    BY RingAfter
  <2>2. n + j \in 1..Len(ring[t]) /\ ring'[t][j] = ring[t][n + j]
    BY <1>2, <2>1, SMTT(20)
  <2>3. CASE i \in 1..N /\ trace'[i] = trace[i]
    <3>1. trace[i][3] < ring[t][n + j][3]
      BY <1>8, <2>2, <2>3 DEF OrderInv, N
    <3> QED
      BY <2>2, <2>3, <3>1
  <2>4. CASE i - N \in 1..Len(BatchDrain) /\ trace'[i] = BatchDrain[i - N]
    <3> DEFINE p == i - N
    <3>1. BatchDrain[p][2] = t
      BY <1>8, <2>4
    <3>2. t \in 1..open /\ \E k \in 1..Fits(t) : k \in 1..Len(ring[t]) /\ BatchDrain[p] = ring[t][k]
      BY <1>1, <2>4, <3>1, DrainOrigin
    <3>3. trace'[i] = BatchDrain[p]
      BY <2>4
    <3> HIDE DEF p
    <3>4. PICK k \in 1..Fits(t) : k \in 1..Len(ring[t]) /\ BatchDrain[p] = ring[t][k]
      BY <3>2
    <3>5. k < n + j
      BY <1>2, <2>1, <3>2, <3>4, SMTT(20)
    <3>6. ring[t][k][3] < ring[t][n + j][3]
      BY <2>2, <3>4, <3>5 DEF OrderInv
    <3> QED
      BY <2>2, <3>3, <3>4, <3>6
  <2> QED
    BY <1>6, <2>3, <2>4
<1> QED
  BY <1>3, <1>7, <1>8 DEF OrderInv


(* The target makes one more item.                                         *)
Made(t) ==
    /\ t <= registered /\ made < Len(Script) /\ made' = made + 1
    /\ ring' = [ring EXCEPT ![t] = Append(@, <<Script[made'], t, made'>>)]
    /\ UNCHANGED <<registered, trace, mpc>>

LEMMA MadeRing ==
    ASSUME TInv, NEW t \in 1..Threads, Made(t)
    PROVE  /\ made' \in 0..Len(Script) /\ <<Script[made'], t, made'>> \in Item
           /\ ring' \in [1..Threads -> Seq(Item)]
           /\ \A u \in 1..Threads : u # t => ring'[u] = ring[u]
           /\ Len(ring[t]) \in Nat /\ Len(ring'[t]) = Len(ring[t]) + 1
           /\ \A i \in 1..Len(ring[t]) : ring'[t][i] = ring[t][i]
           /\ ring'[t][Len(ring[t]) + 1] = <<Script[made'], t, made'>>
           /\ \A i \in 1..Len(ring'[t]) : i \in 1..Len(ring[t]) \/ i = Len(ring[t]) + 1
<1> DEFINE x == <<Script[made'], t, made'>>
<1>1. made \in Nat /\ made' \in 1..Len(Script) /\ made' \in Nat /\ Len(Script) \in Nat
  BY ConstantTypes DEF TInv, Made
<1>2. Script[made'] \in Kinds
  BY <1>1, ConstantTypes, ElementOfSeq
<1>3. x \in Item
  BY <1>1, <1>2 DEF Item
<1>4. made' \in 0..Len(Script)
  BY <1>1
<1>5. ring' = [ring EXCEPT ![t] = Append(@, x)]
  BY DEF Made
<1> HIDE DEF x
<1>6. ring \in [1..Threads -> Seq(Item)] /\ ring[t] \in Seq(Item)
  BY DEF TInv
<1>7. ring'[t] = Append(ring[t], x) /\ \A u \in 1..Threads : u # t => ring'[u] = ring[u]
  BY <1>5, <1>6
<1>8. /\ Append(ring[t], x) \in Seq(Item) /\ Len(Append(ring[t], x)) = Len(ring[t]) + 1
      /\ \A i \in 1..Len(ring[t]) : Append(ring[t], x)[i] = ring[t][i]
      /\ Append(ring[t], x)[Len(ring[t]) + 1] = x
  BY <1>3, <1>6, AppendProperties
<1>9. ring' \in [1..Threads -> Seq(Item)]
  BY <1>5, <1>6, <1>8
<1>10. Len(ring[t]) \in Nat
  BY <1>6, LenProperties
<1>11. \A i \in 1..Len(ring'[t]) : i \in 1..Len(ring[t]) \/ i = Len(ring[t]) + 1
  <2> DEFINE n == Len(ring[t])
             m == Len(ring'[t])
  <2>1. n \in Nat /\ m = n + 1
    BY <1>7, <1>8, <1>10
  <2> HIDE DEF n, m
  <2>2. \A i \in 1..m : i \in 1..n \/ i = n + 1
    BY <2>1
  <2> QED
    BY <2>2 DEF n, m
<1> QED
  BY <1>3, <1>4, <1>7, <1>8, <1>9, <1>10, <1>11 DEF x

LEMMA MadeInItems ==
    ASSUME TInv, NEW t \in 1..Threads, Made(t)
    PROVE  AllItems' = AllItems \cup {<<Script[made'], t, made'>>}
<1> DEFINE x == <<Script[made'], t, made'>>
<1>1. /\ ring \in [1..Threads -> Seq(Item)] /\ ring' \in [1..Threads -> Seq(Item)]
      /\ trace \in Seq(Item) /\ trace' = trace
  BY MadeRing DEF TInv, Made
<1>2. /\ \A u \in 1..Threads : u # t => ring'[u] = ring[u]
      /\ Len(ring[t]) \in Nat /\ Len(ring'[t]) = Len(ring[t]) + 1
      /\ \A i \in 1..Len(ring[t]) : ring'[t][i] = ring[t][i]
      /\ ring'[t][Len(ring[t]) + 1] = x
      /\ \A i \in 1..Len(ring'[t]) : i \in 1..Len(ring[t]) \/ i = Len(ring[t]) + 1
  BY MadeRing
<1> HIDE DEF x
<1>3. ASSUME NEW y PROVE y \in ItemsOf(trace', ring') <=> At(trace', ring', y)
  <2> DEFINE rg == ring'
  <2>1. rg \in [1..Threads -> Seq(Item)]
    BY <1>1
  <2> HIDE DEF rg
  <2>2. y \in ItemsOf(trace, rg) <=> At(trace, rg, y)
    BY <1>1, <2>1, InItems
  <2> QED
    BY <1>1, <2>2 DEF rg
<1>4. ASSUME NEW y PROVE y \in ItemsOf(trace, ring) <=> At(trace, ring, y)
  BY <1>1, InItems
<1>5. ASSUME NEW y, At(trace', ring', y), y # x PROVE At(trace, ring, y)
  <2>1. ASSUME NEW u \in 1..Threads, NEW j \in 1..Len(ring'[u]), y = ring'[u][j]
        PROVE  \E k \in 1..Len(ring[u]) : y = ring[u][k]
    <3>1. CASE u = t
      <4>1. j # Len(ring[t]) + 1
        BY <1>2, <1>5, <2>1, <3>1
      <4>2. j \in 1..Len(ring[t])
        BY <1>2, <3>1, <4>1
      <4> QED
        BY <1>2, <2>1, <3>1, <4>2
    <3>2. CASE u # t
      BY <1>2, <2>1, <3>2
    <3> QED
      BY <3>1, <3>2
  <2> QED
    BY <1>1, <1>5, <2>1 DEF At
<1>6. ASSUME NEW y, At(trace, ring, y) PROVE At(trace', ring', y)
  <2>1. ASSUME NEW u \in 1..Threads, NEW j \in 1..Len(ring[u]), y = ring[u][j]
        PROVE  \E k \in 1..Len(ring'[u]) : y = ring'[u][k]
    <3>1. CASE u = t
      <4>1. j \in 1..Len(ring'[t])
        BY <1>2, <3>1
      <4> QED
        BY <1>2, <2>1, <3>1, <4>1
    <3>2. CASE u # t
      BY <1>2, <2>1, <3>2
    <3> QED
      BY <3>1, <3>2
  <2> QED
    BY <1>1, <1>6, <2>1 DEF At
<1>7. At(trace', ring', x)
  <2>1. Len(ring[t]) + 1 \in 1..Len(ring'[t])
    BY <1>2
  <2> QED
    BY <1>2, <2>1 DEF At
<1>8. AllItems = ItemsOf(trace, ring) /\ AllItems' = ItemsOf(trace', ring')
  BY DEF AllItems, ItemsOf
<1>9. \A y : y \in ItemsOf(trace', ring') <=> y \in ItemsOf(trace, ring) \cup {x}
  BY <1>3, <1>4, <1>5, <1>6, <1>7
<1> QED
  BY <1>8, <1>9 DEF x

LEMMA MadeItems ==
    ASSUME TInv, OpenInv, ItemsInv, NEW t \in 1..Threads, Made(t), mpc # "done"
    PROVE  ItemsInv'
<1> DEFINE x == <<Script[made'], t, made'>>
<1>1. /\ \A u \in 1..Threads : u # t => ring'[u] = ring[u]
      /\ Len(ring[t]) \in Nat /\ Len(ring'[t]) = Len(ring[t]) + 1
      /\ \A i \in 1..Len(ring[t]) : ring'[t][i] = ring[t][i]
      /\ ring'[t][Len(ring[t]) + 1] = x
      /\ \A i \in 1..Len(ring'[t]) : i \in 1..Len(ring[t]) \/ i = Len(ring[t]) + 1
  BY MadeRing
<1>2. AllItems' = AllItems \cup {x}
  BY MadeInItems
<1>3. made \in Nat /\ made' = made + 1 /\ x[3] = made + 1 /\ x[2] = t
      /\ registered' = registered /\ mpc' = mpc /\ t <= registered /\ registered \in Nat /\ Threads \in Nat
  BY ConstantTypes DEF TInv, Made
<1> HIDE DEF x
<1>4. ASSUME NEW u \in 1..Threads, NEW i \in 1..Len(ring'[u]) PROVE ring'[u][i][2] = u
  <2>1. CASE u # t
    <3>1. ring'[u] = ring[u]
      BY <1>1, <2>1
    <3>2. i \in 1..Len(ring[u])
      BY <3>1
    <3>3. ring[u][i][2] = u
      BY <3>2 DEF ItemsInv
    <3> QED
      BY <3>1, <3>3
  <2>2. CASE u = t /\ i = Len(ring[t]) + 1
    BY <1>1, <1>3, <2>2
  <2>3. CASE u = t /\ i # Len(ring[t]) + 1
    <3>1. i \in 1..Len(ring[t])
      BY <1>1, <2>3
    <3>2. ring[t][i][2] = t
      BY <3>1 DEF ItemsInv
    <3> QED
      BY <1>1, <2>3, <3>1, <3>2
  <2> QED
    BY <2>1, <2>2, <2>3
<1>5. /\ \A y \in AllItems : y[3] \in 1..made
      /\ \A y, z \in AllItems : y[3] = z[3] => y[2] = z[2]
      /\ \A k \in 1..made : \E y \in AllItems : y[3] = k
  BY DEF ItemsInv
<1> HIDE DEF AllItems
<1>6. \A y \in AllItems' : y[3] \in 1..made'
  <2> SUFFICES ASSUME NEW y \in AllItems' PROVE y[3] \in 1..(made + 1)
    BY <1>3
  <2>1. CASE y = x
    BY <1>3, <2>1
  <2>2. CASE y \in AllItems
    <3>1. y[3] \in 1..made
      BY <1>5, <2>2
    <3> QED
      BY <1>3, <3>1
  <2> QED
    BY <1>2, <2>1, <2>2
<1>7. ASSUME NEW y \in AllItems', NEW z \in AllItems', y[3] = z[3] PROVE y[2] = z[2]
  <2>1. \A w \in AllItems : w[3] # made + 1
    BY <1>3, <1>5
  <2> QED
    BY <1>2, <1>3, <1>5, <1>7, <2>1
<1>8. ASSUME NEW k \in 1..made' PROVE \E y \in AllItems' : y[3] = k
  <2>1. CASE k = made + 1
    BY <1>2, <1>3, <2>1
  <2>2. CASE k # made + 1
    <3>1. k \in 1..made
      BY <1>3, <2>2
    <3> QED
      BY <1>2, <1>5, <3>1
  <2> QED
    BY <2>1, <2>2
<1>9. ASSUME NEW u \in (registered + 1)..Threads PROVE ring'[u] = <<>>
  <2>1. u \in 1..Threads /\ u # t /\ ring[u] = <<>>
    BY <1>3 DEF ItemsInv
  <2> QED
    BY <1>1, <2>1
<1> QED
  BY <1>3, <1>4, <1>6, <1>7, <1>8, <1>9 DEF ItemsInv

LEMMA MadeOrder ==
    ASSUME TInv, ItemsInv, OrderInv, NEW t \in 1..Threads, Made(t)
    PROVE  OrderInv'
<1> DEFINE x == <<Script[made'], t, made'>>
<1>1. /\ \A u \in 1..Threads : u # t => ring'[u] = ring[u]
      /\ Len(ring[t]) \in Nat /\ Len(ring'[t]) = Len(ring[t]) + 1
      /\ \A i \in 1..Len(ring[t]) : ring'[t][i] = ring[t][i]
      /\ ring'[t][Len(ring[t]) + 1] = x
      /\ \A i \in 1..Len(ring'[t]) : i \in 1..Len(ring[t]) \/ i = Len(ring[t]) + 1
  BY MadeRing
<1>2. made \in Nat /\ x[3] = made + 1 /\ trace' = trace
  BY DEF TInv, Made
<1> HIDE DEF x
<1>3. \A y \in AllItems : y[3] <= made /\ y[3] \in Nat
  BY <1>2 DEF ItemsInv
<1>4. ASSUME NEW i \in 1..Len(trace) PROVE trace[i][3] \in Nat /\ trace[i][3] < made + 1
  <2>1. trace[i] \in AllItems
    <3>1. trace[i] \in Range(trace)
      BY LenProperties DEF Range, TInv
    <3> QED
      BY <3>1 DEF AllItems, ItemsOf
  <2> QED
    BY <1>2, <1>3, <2>1, SMTT(20)
<1>5. ASSUME NEW i \in 1..Len(ring[t]) PROVE ring[t][i][3] \in Nat /\ ring[t][i][3] < made + 1
  <2>1. ring[t][i] \in AllItems
    <3>1. ring[t] \in Seq(Item)
      BY DEF TInv
    <3>2. ring[t][i] \in Range(ring[t])
      BY <3>1, LenProperties DEF Range
    <3> QED
      BY <3>2 DEF AllItems, ItemsOf
  <2> QED
    BY <1>2, <1>3, <2>1, SMTT(20)
<1>6. ASSUME NEW u \in 1..Threads, NEW i \in 1..Len(ring'[u]), NEW j \in 1..Len(ring'[u]), i < j
      PROVE  ring'[u][i][3] < ring'[u][j][3]
  <2>1. CASE u # t
    BY <1>1, <1>6, <2>1 DEF OrderInv
  <2>2. CASE u = t
    <3>1. i \in 1..Len(ring[t]) /\ (j \in 1..Len(ring[t]) \/ j = Len(ring[t]) + 1)
      BY <1>1, <1>6, <2>2, SMTT(20)
    <3>2. CASE j \in 1..Len(ring[t])
      BY <1>1, <1>6, <2>2, <3>1, <3>2 DEF OrderInv
    <3>3. CASE j = Len(ring[t]) + 1
      BY <1>1, <1>2, <1>5, <2>2, <3>1, <3>3
    <3> QED
      BY <3>1, <3>2, <3>3
  <2> QED
    BY <2>1, <2>2
<1>7. ASSUME NEW i \in 1..Len(trace), NEW u \in 1..Threads, NEW j \in 1..Len(ring'[u]), trace[i][2] = u
      PROVE  trace[i][3] < ring'[u][j][3]
  <2>1. CASE u # t
    BY <1>1, <1>7, <2>1 DEF OrderInv
  <2>2. CASE u = t
    <3>1. CASE j \in 1..Len(ring[t])
      BY <1>1, <1>7, <2>2, <3>1 DEF OrderInv
    <3>2. CASE j = Len(ring[t]) + 1
      BY <1>1, <1>2, <1>4, <2>2, <3>2
    <3> QED
      BY <1>1, <2>2, <3>1, <3>2
  <2> QED
    BY <2>1, <2>2
<1> QED
  BY <1>2, <1>6, <1>7 DEF OrderInv


-----------------------------------------------------------------------------
(* The recording of a sequence of items.                                   *)

Slot == Item \X (1..SnapSlots)
SlotsW == [x \in Item |-> SlotsOf(x)]

LEMMA SlotsType ==
    ASSUME NEW x \in Item
    PROVE  /\ Slots(x) \in Nat \ {0} /\ Slots(x) <= SnapSlots
           /\ SlotsOf(x) \in Seq(Slot) /\ Len(SlotsOf(x)) = Slots(x)
           /\ \A k \in 1..Slots(x) : SlotsOf(x)[k] = <<x, k>>
<1>1. SnapSlots \in Nat \ {0}
  OBVIOUS
<1>2. Slots(x) \in Nat \ {0} /\ Slots(x) <= SnapSlots
  BY <1>1 DEF Slots
<1> DEFINE n == Slots(x)
<1>3. n \in Nat /\ \A k \in 1..n : k \in 1..SnapSlots
  BY <1>1, <1>2
<1> HIDE DEF n
<1>4. \A k \in 1..n : <<x, k>> \in Slot
  BY <1>3 DEF Slot
<1>5. [k \in 1..n |-> <<x, k>>] \in Seq(Slot)
  BY <1>3, <1>4
<1>6. Len([k \in 1..n |-> <<x, k>>]) = n
  BY <1>3
<1> QED
  BY <1>2, <1>5, <1>6 DEF n, SlotsOf

LEMMA SlotsWType == SlotsW \in [Item -> Seq(Slot)]
BY SlotsType DEF SlotsW

LEMMA RecordedMapped ==
    ASSUME NEW s \in Seq(Item)
    PROVE  Recorded(s) = Mapped(SlotsW, s)
<1> DEFINE n == Len(s)
           c == [i \in 1..n |-> SlotsW[s[i]]]
<1>1. DOMAIN s = 1..n /\ \A i \in 1..n : s[i] \in Item
  BY LenProperties, ElementOfSeq
<1> HIDE DEF n
<1>2. \A i \in 1..n : c[i] = SlotsOf(s[i])
  BY <1>1 DEF SlotsW
<1>3. [i \in 1..n |-> c[i]] = [i \in DOMAIN s |-> SlotsOf(s[i])]
  <2> HIDE DEF c
  <2> QED
    BY <1>1, <1>2
<1> QED
  BY <1>3 DEF Recorded, Mapped, Cat, n

LEMMA RecordedType ==
    ASSUME NEW s \in Seq(Item)
    PROVE  Recorded(s) \in Seq(Slot)
BY RecordedMapped, SlotsWType, MappedType

LEMMA RecordedConcat ==
    ASSUME NEW s \in Seq(Item), NEW t \in Seq(Item)
    PROVE  Recorded(s \o t) = Recorded(s) \o Recorded(t)
<1>1. s \o t \in Seq(Item)
  BY ConcatProperties
<1>2. /\ Recorded(s \o t) = Mapped(SlotsW, s \o t) /\ Recorded(s) = Mapped(SlotsW, s)
      /\ Recorded(t) = Mapped(SlotsW, t)
  BY <1>1, RecordedMapped
<1>4. Distributes(SlotsW, s, t)
  BY SlotsWType, MappedConcat
<1>3. Mapped(SlotsW, s \o t) = Mapped(SlotsW, s) \o Mapped(SlotsW, t)
  BY <1>4 DEF Distributes
<1> QED
  BY <1>2, <1>3

LEMMA RecordedEmpty == Recorded(<<>>) = <<>>
<1>1. <<>> \in Seq(Item)
  OBVIOUS
<1> QED
  BY <1>1, RecordedMapped, MappedEmpty

-----------------------------------------------------------------------------
(* The steps.                                                              *)

(* A batch is of whole rings' turns and its slots are counted.             *)
LEMMA TypeProcessed ==
    ASSUME TInv, OpenInv, ItemsInv, OrderInv, open > 0, NEW n \in Nat,
           Process(BatchDrain, n), Consume, UNCHANGED made
    PROVE  Processed /\ total' \in 0..TotalCap /\ rr' \in 0..(open - 1)
<1>1. Processed
  BY DEF Process, Consume, Processed, Left
<1>2. total' \in 0..TotalCap
  <2>1. BatchDrain \in Seq(Item)
    BY DrainSpec DEF Holds
  <2>2. SlotCount(BatchDrain) \in Nat
    BY <2>1, SlotCountType
  <2>3. total \in Nat /\ TotalCap \in Nat
    BY ConstantTypes DEF TInv
  <2>4. total' = Least(total + SlotCount(BatchDrain) + n, TotalCap)
    BY DEF Process
  <2> DEFINE c == SlotCount(BatchDrain)
  <2>5. c \in Nat /\ total' = Least(total + c + n, TotalCap)
    BY <2>2, <2>4
  <2> HIDE DEF c
  <2> QED
    BY <2>3, <2>5 DEF Least
<1>3. rr' \in 0..(open - 1)
  <2>1. open \in Nat /\ open > 0 /\ rr \in Nat /\ rr' = (rr + 1) % open
    BY DEF TInv, Consume
  <2> QED
    BY <2>1
<1> QED
  BY <1>1, <1>2, <1>3

(* The consumer takes only what is there.                                  *)
LEMMA BatchMoves ==
    ASSUME IInv, Batch
    PROVE  /\ Processed /\ total' \in 0..TotalCap /\ rr' \in 0..(open - 1)
           /\ kq' \in 0..1 /\ pc' \in {"after", "drain"} /\ pc = "drain"
           /\ drained' \in BOOLEAN /\ tick' \in Nat
<1> DEFINE n == ChildEvents(BatchDrain)
           empty == BatchDrain = <<>> /\ n = 0
<1>1. kq \in 0..1
  BY DEF IInv, TInv
<1>2. n \in Nat /\ kq - n \in 0..1
  BY <1>1 DEF ChildEvents
<1> HIDE DEF n
<1>3. /\ Process(BatchDrain, n) /\ kq' = kq - n /\ Consume /\ UNCHANGED made
      /\ drained' = (drained \/ ~empty) /\ tick' = tick + 1
      /\ pc' = (IF empty \/ tick' >= Budget THEN "after" ELSE "drain") /\ pc = "drain"
  BY DEF Batch, ProcessChildren, n
<1>4. TInv /\ OpenInv /\ ItemsInv /\ OrderInv /\ open > 0
  BY <1>3 DEF IInv, OpenInv
<1>5. Processed /\ total' \in 0..TotalCap /\ rr' \in 0..(open - 1)
  BY <1>2, <1>3, <1>4, TypeProcessed
<1>6. drained' \in BOOLEAN
  BY <1>3
<1>7. tick' \in Nat
  BY <1>3, <1>4 DEF TInv
<1> QED
  BY <1>2, <1>3, <1>5, <1>6, <1>7

LEMMA SweepMoves ==
    ASSUME IInv, SweepBatch
    PROVE  /\ Processed /\ total' \in 0..TotalCap /\ rr' \in 0..(open - 1)
           /\ pc' \in {"sweep", "finish"} /\ pc = "sweep" /\ open > 0
           /\ pc' = "finish" => BatchDrain = <<>>
<1>1. /\ Process(BatchDrain, 0) /\ Consume /\ UNCHANGED made /\ pc = "sweep"
      /\ pc' = IF BatchDrain = <<>> THEN "finish" ELSE "sweep"
  BY DEF SweepBatch
<1>2. TInv /\ OpenInv /\ ItemsInv /\ OrderInv /\ open > 0
  BY <1>1 DEF IInv, OpenInv
<1>3. 0 \in Nat
  OBVIOUS
<1> QED
  BY <1>1, <1>2, <1>3, TypeProcessed

(* The consumer's steps that leave the items alone.                        *)
HouseKeeping == IdleRound \/ BusyRound

LEMMA HouseKept ==
    ASSUME IInv, HouseKeeping
    PROVE  /\ Unmoved /\ UNCHANGED <<mode, target, child, flags, attached, rr, tries, total, paused, record>>
           /\ idle' \in 0..IdleLimit /\ drained' \in BOOLEAN /\ tick' \in Nat /\ warm' \in BOOLEAN
           /\ pc = "after" /\ pc' \in {"sweep", "failed", "finish", "loop"}
           /\ pc' = "failed" => mpc' = "gone"
           /\ pc' # "failed" => mpc' = mpc
           /\ pc' = "sweep" => open' = registered /\ cause' \in {"gone", "idle"} /\ (cause' = "gone" => exited)
           /\ pc' # "sweep" => open' = open /\ cause' \in {cause, "signal"}
<1>1. idle \in 0..IdleLimit /\ IdleLimit \in Nat /\ warm \in BOOLEAN /\ drained \in BOOLEAN /\ tick \in Nat
  BY ConstantTypes DEF IInv, TInv
<1>2. ASSUME House
      PROVE  /\ drained' \in BOOLEAN /\ tick' \in Nat /\ warm' \in BOOLEAN
             /\ pc' \in {"failed", "finish", "loop"}
             /\ pc' = "failed" => mpc' = "gone"
             /\ pc' # "failed" => mpc' = mpc
             /\ cause' \in {cause, "signal"}
  <2>1. warm' \in BOOLEAN
    BY <1>1, <1>2 DEF House
  <2>2. pc' \in {"failed", "finish", "loop"} /\ (pc' = "failed" => mpc' = "gone") /\ (pc' # "failed" => mpc' = mpc)
        /\ cause' \in {cause, "signal"}
    BY <1>2 DEF House
  <2> QED
    BY <1>2, <2>1, <2>2 DEF House
<1>3. CASE IdleRound
  <2>1. idle' \in 0..IdleLimit
    BY <1>1, <1>3 DEF IdleRound, Least
  <2>2. pc = "after" /\ Unmoved /\ UNCHANGED <<mode, target, child, flags, attached, rr, tries, total, paused, record>>
    BY <1>3 DEF IdleRound, Unmoved, target
  <2>3. CASE GivesUp(idle + 1)
    <3>1. /\ pc' = "sweep" /\ open' = registered /\ cause' = (IF exited THEN "gone" ELSE "idle")
          /\ UNCHANGED <<warm, mpc, turn>>
      BY <1>3, <2>3 DEF IdleRound, Swept, Poll
    <3> QED
      BY <1>1, <2>1, <2>2, <3>1 DEF turn
  <2>4. CASE ~GivesUp(idle + 1)
    <3>1. House /\ open' = open
      BY <1>3, <2>4 DEF IdleRound
    <3> QED
      BY <1>2, <2>1, <2>2, <3>1
  <2> QED
    BY <2>3, <2>4
<1>4. CASE BusyRound
  <2>1. /\ pc = "after" /\ Unmoved /\ UNCHANGED <<mode, target, child, flags, attached, rr, tries, total, paused, record>>
        /\ idle' = 0 /\ House /\ open' = open
    BY <1>4 DEF BusyRound, Unmoved, target
  <2> QED
    BY <1>1, <1>2, <2>1
<1> QED
  BY <1>3, <1>4 DEF HouseKeeping


Step == mpc \notin {"done", "gone"} /\ (TargetStep \/ Reap \/ ConsumerStep \/ MainStep)

LEMMA TypeStep ==
    ASSUME IInv, Step
    PROVE  TInv'
<1> USE ConstantTypes
<1>0. TInv
  BY DEF IInv
<1>1. CASE MapCtl
  BY <1>0, <1>1 DEF MapCtl, TInv, child, flags, consumer, turn, record
<1>2. CASE TripwireHit
  BY <1>0, <1>2 DEF TripwireHit, TInv, child, flags, consumer, turn, record
<1>3. CASE KidFork
  BY <1>0, <1>3 DEF KidFork, TInv, target, flags, consumer, turn, record
<1>4. CASE KidWrite
  BY <1>0, <1>4 DEF KidWrite, TInv, target, flags, consumer, turn, record
<1>5. CASE KidEnd
  BY <1>0, <1>5 DEF KidEnd, TInv, target, flags, consumer, turn, record
<1>6. CASE Signal
  BY <1>0, <1>6 DEF Signal, TInv, target, child, consumer, turn, record
<1>7. ASSUME NEW clean \in BOOLEAN, TargetEnd(clean) PROVE TInv'
  BY <1>0, <1>7 DEF TargetEnd, TInv, child, flags, consumer, turn, record
<1>8. CASE Register
  BY <1>0, <1>8 DEF Register, TInv, child, flags, consumer, turn, record
<1>9. ASSUME NEW t \in 1..Threads, Produce(t) PROVE TInv'
  <2>1. Made(t)
    BY <1>9 DEF Produce, Made
  <2>2. made' \in 0..Len(Script) /\ ring' \in [1..Threads -> Seq(Item)]
    BY <1>0, <2>1, MadeRing
  <2> QED
    BY <1>0, <1>9, <2>2 DEF Produce, TInv, child, flags, consumer, turn, record
<1>10. CASE Reap
  BY <1>0, <1>10 DEF Reap, TInv, target, child, consumer, turn, record
<1>11. CASE WaitSignal
  BY <1>0, <1>11 DEF WaitSignal, TInv, Pcs, target, child, flags, consumer, turn, record
<1>12. CASE WaitTracerGone
  BY <1>0, <1>12 DEF WaitTracerGone, TInv, Pcs, target, child, flags, turn, record
<1>13. CASE WaitTimeout \/ RetryGiveUp
  <2>1. /\ pc' \in Pcs /\ mpc' = "gone"
        /\ UNCHANGED <<mode, target, child, flags, consumer, record, trace, cause>>
    BY <1>13 DEF WaitTimeout, RetryGiveUp, Pcs
  <2> QED
    BY <1>0, <2>1 DEF TInv, target, child, flags, consumer, turn, record
<1>14. CASE WaitAttach \/ RetryAttach
  <2>1. /\ attached' = (attached \/ ctl) /\ open' \in {open, registered} /\ pc' \in {"loop", "wait", "retry"}
        /\ tries' = tries + 1
        /\ UNCHANGED <<mode, target, child, flags, rr, total, idle, turn, paused, warm, record, mpc, trace, cause>>
    BY <1>14 DEF WaitAttach, RetryAttach, TryAttach, Poll
  <2>2. attached' \in BOOLEAN
    BY <2>1
  <2>3. open' \in 0..Threads /\ pc' \in Pcs /\ tries' \in Nat
    BY <1>0, <2>1 DEF TInv, Pcs
  <2> QED
    BY <1>0, <2>1, <2>2, <2>3 DEF TInv, target, child, flags, turn, record
<1>15. CASE Quit
  BY <1>0, <1>15 DEF Quit, TInv, Pcs, target, child, flags, consumer, turn, record
<1>16. ASSUME NEW due \in BOOLEAN, BeginTurn(due) PROVE TInv'
  <2>1. paused' \in BOOLEAN /\ pc' \in Pcs
    BY <1>16 DEF BeginTurn, Pcs
  <2>2. open' \in 0..Threads /\ kid' \in {"none", "forked", "attached", "dead", "gone"}
    BY <1>0, <1>16 DEF BeginTurn, TrackChild, Poll, TInv
  <2> QED
    BY <1>0, <1>16, <2>1, <2>2 DEF BeginTurn, TInv, target, flags, turn, record
<1>17. CASE Batch
  <2>1. /\ Processed /\ total' \in 0..TotalCap /\ rr' \in 0..(open - 1)
        /\ kq' \in 0..1 /\ pc' \in {"after", "drain"} /\ drained' \in BOOLEAN /\ tick' \in Nat
    BY <1>17, BatchMoves
  <2>2. trace' \in Seq(Item) /\ ring' \in [1..Threads -> Seq(Item)]
    BY <1>0, <2>1, TraceAfter, RingTypeAfter DEF IInv
  <2> HIDE DEF Processed
  <2> QED
    BY <1>0, <1>17, <2>1, <2>2 DEF Batch, TInv, Pcs, flags
<1>18. CASE HouseKeeping
  <2>1. /\ Unmoved /\ UNCHANGED <<mode, target, child, flags, attached, rr, tries, total, paused, record>>
        /\ idle' \in 0..IdleLimit /\ drained' \in BOOLEAN /\ tick' \in Nat /\ warm' \in BOOLEAN
        /\ pc' \in {"sweep", "failed", "finish", "loop"}
        /\ (mpc' = "gone" \/ mpc' = mpc)
        /\ (open' = registered \/ open' = open)
        /\ cause' \in {"gone", "idle", cause, "signal"}
    BY <1>18, HouseKept
  <2> QED
    BY <1>0, <2>1 DEF TInv, Pcs, Unmoved, target, child, flags
<1>19. CASE SweepBatch
  <2>1. /\ Processed /\ total' \in 0..TotalCap /\ rr' \in 0..(open - 1) /\ pc' \in {"sweep", "finish"}
    BY <1>19, SweepMoves
  <2>2. trace' \in Seq(Item) /\ ring' \in [1..Threads -> Seq(Item)]
    <3>1. open > 0
      BY <2>1 DEF Processed
    <3> QED
      BY <1>0, <2>1, TraceAfter, RingTypeAfter DEF IInv
  <2> QED
    BY <1>0, <1>19, <2>1, <2>2 DEF SweepBatch, TInv, Pcs, child, flags, turn
<1>20. CASE Finish
  BY <1>0, <1>20 DEF Finish, TInv, Pcs, target, child, flags, consumer, turn
<1>21. CASE Join
  <2>1. tproc' \in {tproc, "dead"} /\ mpc' = "cleanup"
    BY <1>21 DEF Join, KillAndWait
  <2>3. ctl' \in BOOLEAN
    BY <1>0, <1>21 DEF Join, KillAndWait, TInv
  <2>2. UNCHANGED <<mode, registered, ring, made, tripwire, child, flags, pc, consumer, record, trace, cause>>
    BY <1>21 DEF Join
  <2> QED
    BY <1>0, <2>1, <2>2, <2>3 DEF TInv, child, flags, consumer, turn, record
<1>22. CASE Cleanup
  <2>1. mpc' = "done" /\ ctl' \in BOOLEAN /\ registered' = 0
    BY <1>22 DEF Cleanup
  <2>2. UNCHANGED <<mode, tproc, ring, made, tripwire, child, flags, pc, consumer, record, trace, cause>>
    BY <1>22 DEF Cleanup
  <2>3. registered' \in 0..Threads
    BY <2>1
  <2> QED
    BY <1>0, <2>1, <2>2, <2>3 DEF TInv, child, flags, consumer, turn, record
<1> QED
  BY <1>1, <1>2, <1>3, <1>4, <1>5, <1>6, <1>7, <1>8, <1>9, <1>10, <1>11, <1>12, <1>13, <1>14, <1>15, <1>16,
     <1>17, <1>18, <1>19, <1>20, <1>21, <1>22 DEF Step, TargetStep, ConsumerStep, MainStep, HouseKeeping

(* What every step does to the items, and who may do it.                   *)
LEMMA ItemsStep ==
    ASSUME IInv, Step
    PROVE  \/ Unmoved
           \/ Processed /\ UNCHANGED <<registered, mpc, open, cause, tproc, ctl, exited>>
                        /\ (Batch \/ SweepBatch)
           \/ \E t \in 1..Threads : Made(t) /\ tproc = "up"
                        /\ UNCHANGED <<tproc, ctl, exited, mpc, pc, cause, open>>
<1>1. ASSUME NEW t \in 1..Threads, Produce(t)
      PROVE  Made(t) /\ tproc = "up" /\ UNCHANGED <<tproc, ctl, exited, mpc, pc, cause, open>>
  BY <1>1 DEF Produce, Made, flags, consumer
<1>2. CASE Batch
  BY <1>2, BatchMoves DEF Batch, flags
<1>3. CASE SweepBatch
  BY <1>3, SweepMoves DEF SweepBatch, flags
<1>4. CASE HouseKeeping
  BY <1>4, HouseKept
<1>5. CASE MapCtl \/ TripwireHit \/ KidFork \/ KidWrite \/ KidEnd \/ Signal \/ Register \/ Reap
  BY <1>5 DEF MapCtl, TripwireHit, KidFork, KidWrite, KidEnd, Signal, Register, Reap, target, Unmoved
<1>6. ASSUME NEW clean \in BOOLEAN, TargetEnd(clean) PROVE Unmoved
  BY <1>6 DEF TargetEnd, Unmoved
<1>7. CASE WaitSignal \/ WaitTracerGone \/ WaitTimeout \/ WaitAttach \/ RetryAttach \/ RetryGiveUp
  BY <1>7 DEF WaitSignal, WaitTracerGone, WaitTimeout, WaitAttach, RetryAttach, RetryGiveUp, target, Unmoved
<1>8. ASSUME NEW due \in BOOLEAN, BeginTurn(due) PROVE Unmoved
  BY <1>8 DEF BeginTurn, target, Unmoved
<1>9. CASE Quit \/ Finish \/ Join \/ Cleanup
  BY <1>9 DEF Quit, Finish, Join, Cleanup, target, Unmoved
<1> QED
  BY <1>1, <1>2, <1>3, <1>4, <1>5, <1>6, <1>7, <1>8, <1>9
     DEF Step, TargetStep, ConsumerStep, MainStep, HouseKeeping


LEMMA LifeStep ==
    ASSUME IInv, Step
    PROVE  LifeInv'
<1>0. LifeInv /\ mpc \notin {"done", "gone"}
  BY DEF IInv, Step
<1>1. CASE MapCtl \/ TripwireHit \/ KidFork \/ KidWrite \/ KidEnd \/ Signal \/ Register
  BY <1>0, <1>1 DEF MapCtl, TripwireHit, KidFork, KidWrite, KidEnd, Signal, Register, LifeInv, target, flags
<1>2. ASSUME NEW clean \in BOOLEAN, TargetEnd(clean) PROVE LifeInv'
  BY <1>0, <1>2 DEF TargetEnd, LifeInv, flags
<1>3. ASSUME NEW t \in 1..Threads, Produce(t) PROVE LifeInv'
  BY <1>0, <1>3 DEF Produce, LifeInv, flags
<1>4. CASE Reap
  BY <1>0, <1>4 DEF Reap, LifeInv, target
<1>5. CASE WaitSignal \/ WaitTracerGone \/ WaitTimeout \/ RetryGiveUp \/ Quit \/ Finish
  BY <1>0, <1>5 DEF WaitSignal, WaitTracerGone, WaitTimeout, RetryGiveUp, Quit, Finish, LifeInv, target, flags
<1>6. CASE WaitAttach \/ RetryAttach
  BY <1>0, <1>6 DEF WaitAttach, RetryAttach, TryAttach, LifeInv, target, flags
<1>7. ASSUME NEW due \in BOOLEAN, BeginTurn(due) PROVE LifeInv'
  BY <1>0, <1>7 DEF BeginTurn, LifeInv, target, flags
<1>8. CASE Batch
  BY <1>0, <1>8, BatchMoves DEF Batch, LifeInv, flags
<1>9. CASE HouseKeeping
  BY <1>0, <1>9, HouseKept DEF LifeInv, target, flags
<1>10. CASE SweepBatch
  BY <1>0, <1>10, SweepMoves DEF SweepBatch, LifeInv, flags
<1>11. CASE Join
  BY <1>0, <1>11 DEF Join, KillAndWait, LifeInv, flags
<1>12. CASE Cleanup
  BY <1>0, <1>12 DEF Cleanup, LifeInv, flags
<1> QED
  BY <1>1, <1>2, <1>3, <1>4, <1>5, <1>6, <1>7, <1>8, <1>9, <1>10, <1>11, <1>12
     DEF Step, TargetStep, ConsumerStep, MainStep, HouseKeeping

LEMMA RecordStep ==
    ASSUME IInv, Step
    PROVE  RecordInv'
<1>0. RecordInv /\ TInv /\ OpenInv /\ ItemsInv /\ OrderInv
  BY DEF IInv
<1>1. CASE Batch \/ SweepBatch
  <2>1. /\ Processed /\ log' = log \o Recorded(BatchDrain) /\ count' = count
        /\ pc # "ended" /\ pc' \notin {"ended", "wait", "retry"}
    BY <1>1, BatchMoves, SweepMoves DEF Batch, SweepBatch, Process
  <2>2. trace \in Seq(Item) /\ BatchDrain \in Seq(Item) /\ trace' = trace \o BatchDrain
    BY <1>0, <2>1, TraceAfter DEF Processed, TInv
  <2>3. Recorded(trace \o BatchDrain) = Recorded(trace) \o Recorded(BatchDrain)
    BY <2>2, RecordedConcat
  <2>4. log' = Recorded(trace')
    BY <1>0, <2>1, <2>2, <2>3 DEF RecordInv
  <2> QED
    BY <1>0, <2>1, <2>4 DEF RecordInv
<1> USE DEF RecordInv
<1>2. CASE HouseKeeping
  BY <1>0, <1>2, HouseKept DEF record, Unmoved
<1>3. CASE Finish
  BY <1>0, <1>3 DEF Finish, FinalCount
<1>11. CASE WaitSignal
  <2>1. trace = <<>> /\ log = <<>> /\ count = 0 /\ pc' = "ended" /\ UNCHANGED <<log, trace, count>>
    <3>1. Recorded(<<>>) = <<>>
      BY RecordedEmpty
    <3> QED
      BY <1>0, <1>11, <3>1 DEF WaitSignal, record
  <2> QED
    BY <1>0, <2>1
<1>4. CASE WaitTracerGone \/ WaitTimeout \/ RetryGiveUp \/ Quit
  BY <1>0, <1>4 DEF WaitTracerGone, WaitTimeout, RetryGiveUp, Quit, record
<1>5. CASE WaitAttach \/ RetryAttach
  BY <1>0, <1>5 DEF WaitAttach, RetryAttach, TryAttach, record
<1>6. ASSUME NEW due \in BOOLEAN, BeginTurn(due) PROVE RecordInv'
  BY <1>0, <1>6 DEF BeginTurn, record
<1>7. CASE MapCtl \/ TripwireHit \/ KidFork \/ KidWrite \/ KidEnd \/ Signal \/ Register \/ Reap
  BY <1>0, <1>7 DEF MapCtl, TripwireHit, KidFork, KidWrite, KidEnd, Signal, Register, Reap, record
<1>8. ASSUME NEW clean \in BOOLEAN, TargetEnd(clean) PROVE RecordInv'
  BY <1>0, <1>8 DEF TargetEnd, record
<1>9. ASSUME NEW t \in 1..Threads, Produce(t) PROVE RecordInv'
  BY <1>0, <1>9 DEF Produce, record
<1>10. CASE Join \/ Cleanup
  BY <1>0, <1>10 DEF Join, Cleanup, record
<1> QED
  BY <1>1, <1>2, <1>3, <1>4, <1>5, <1>6, <1>7, <1>8, <1>9, <1>10, <1>11
     DEF Step, TargetStep, ConsumerStep, MainStep, HouseKeeping

LEMMA OpenStep ==
    ASSUME IInv, Step
    PROVE  OpenInv' /\ (mpc' # "done" => registered <= registered')
<1>0. /\ OpenInv /\ mpc # "done" /\ open \in Nat /\ registered \in Nat /\ rr \in Nat
      /\ open <= registered /\ (rr = 0 \/ rr < open)
  <2>1. mpc # "done" /\ OpenInv /\ TInv
    BY DEF IInv, Step
  <2> QED
    BY <2>1, ConstantTypes DEF OpenInv, TInv
<1> DEFINE Kept == UNCHANGED <<open, rr, registered, pc>>
<1>1. CASE Kept
  BY <1>0, <1>1 DEF OpenInv
<1>2. CASE MapCtl \/ TripwireHit \/ KidFork \/ KidWrite \/ KidEnd \/ Signal \/ Reap \/ Join
  <2>1. Kept
    BY <1>2 DEF MapCtl, TripwireHit, KidFork, KidWrite, KidEnd, Signal, Reap, Join, target, consumer
  <2> QED
    BY <1>1, <2>1
<1>3. ASSUME NEW clean \in BOOLEAN, TargetEnd(clean) PROVE Kept
  BY <1>3 DEF TargetEnd, consumer
<1>4. ASSUME NEW t \in 1..Threads, Produce(t) PROVE Kept
  BY <1>4 DEF Produce, consumer
<1>5. CASE Register
  BY <1>0, <1>5 DEF Register, OpenInv, consumer
<1>6. CASE WaitSignal \/ WaitTracerGone \/ WaitTimeout \/ RetryGiveUp \/ Quit \/ Finish
  BY <1>0, <1>6 DEF WaitSignal, WaitTracerGone, WaitTimeout, RetryGiveUp, Quit, Finish, OpenInv, target, consumer
<1>7. CASE WaitAttach \/ RetryAttach
  BY <1>0, <1>7 DEF WaitAttach, RetryAttach, TryAttach, Poll, OpenInv, target
<1>8. ASSUME NEW due \in BOOLEAN, BeginTurn(due)
      PROVE  OpenInv' /\ (mpc' # "done" => registered <= registered')
  BY <1>0, <1>8 DEF BeginTurn, Poll, OpenInv, target
<1>9. CASE Batch
  <2>1. /\ rr' \in 0..(open - 1) /\ pc' \in {"after", "drain"} /\ pc = "drain"
        /\ UNCHANGED <<open, registered, mpc>>
    BY <1>9, BatchMoves DEF Batch
  <2> QED
    BY <1>0, <2>1 DEF OpenInv
<1>10. CASE SweepBatch
  <2>1. /\ rr' \in 0..(open - 1) /\ pc' \in {"sweep", "finish"} /\ pc = "sweep"
        /\ UNCHANGED <<open, registered, mpc>>
    BY <1>10, SweepMoves DEF SweepBatch
  <2> QED
    BY <1>0, <2>1 DEF OpenInv
<1>11. CASE HouseKeeping
  <2>1. /\ rr' = rr /\ registered' = registered /\ pc = "after"
        /\ open' = registered \/ open' = open
    BY <1>11, HouseKept DEF target
  <2> QED
    BY <1>0, <2>1 DEF OpenInv
<1>12. CASE Cleanup
  <2>1. mpc' = "done" /\ rr' = rr /\ open' = open /\ pc' = pc
    BY <1>12 DEF Cleanup, consumer
  <2> QED
    BY <1>0, <2>1 DEF OpenInv
<1> HIDE DEF Kept
<1> QED
  BY <1>1, <1>2, <1>3, <1>4, <1>5, <1>6, <1>7, <1>8, <1>9, <1>10, <1>11, <1>12
     DEF Step, TargetStep, ConsumerStep, MainStep, HouseKeeping

LEMMA ItemsInvStep ==
    ASSUME IInv, Step
    PROVE  ItemsInv' /\ OrderInv'
<1>0. TInv /\ OpenInv /\ ItemsInv /\ OrderInv /\ LifeInv /\ mpc # "done"
  BY DEF IInv, Step
<1>1. CASE Unmoved
  <2>1. mpc' # "done" => registered <= registered'
    BY OpenStep
  <2>2. registered \in Nat /\ Threads \in Nat
    BY <1>0, ConstantTypes DEF TInv
  <2>3. registered' \in Nat
    BY TypeStep DEF TInv
  <2>4. AllItems' = AllItems
    BY <1>1 DEF Unmoved, AllItems
  <2>5. ASSUME mpc' # "done", NEW t \in (registered' + 1)..Threads PROVE ring'[t] = <<>>
    <3>2. registered <= registered'
      BY <2>1, <2>5
    <3> DEFINE r == registered'
    <3>3. r \in Nat /\ registered <= r /\ t \in (r + 1)..Threads
      BY <2>3, <2>5, <3>2
    <3> HIDE DEF r
    <3>1. t \in (registered + 1)..Threads
      BY <2>2, <3>3
    <3> QED
      BY <1>0, <1>1, <3>1 DEF ItemsInv, Unmoved
  <2> HIDE DEF AllItems
  <2>6. ItemsInv'
    BY <1>0, <1>1, <2>4, <2>5 DEF ItemsInv, Unmoved
  <2>7. OrderInv'
    BY <1>0, <1>1 DEF OrderInv, Unmoved
  <2> QED
    BY <2>6, <2>7
<1>2. CASE Processed /\ UNCHANGED <<registered, mpc>>
  BY <1>0, <1>2, ProcessedItems, ProcessedOrder
<1>3. ASSUME NEW t \in 1..Threads, Made(t) PROVE ItemsInv' /\ OrderInv'
  BY <1>0, <1>3, MadeItems, MadeOrder
<1> QED
  BY <1>1, <1>2, <1>3, ItemsStep


(* The final sweep begins after a poll, when the tracer is dead, and ends   *)
(* when it finds no ring with anything.                                    *)
LEMMA SweepStep ==
    ASSUME IInv, Step
    PROVE  SweepInv'
<1>0. TInv /\ OpenInv /\ ItemsInv /\ OrderInv /\ LifeInv /\ SweepInv /\ mpc # "done"
  BY DEF IInv, Step
<1>1. open \in 0..Threads /\ open \in Nat /\ Threads \in Nat
  BY <1>0, ConstantTypes DEF TInv
<1>2. CASE cause' # "gone"
  BY <1>2 DEF SweepInv
<1>3. CASE HouseKeeping /\ cause' = "gone"
  <2>1. /\ pc = "after" /\ pc' \in {"sweep", "failed", "finish", "loop"} /\ Unmoved
        /\ pc' = "sweep" => open' = registered /\ (cause' = "gone" => exited)
        /\ pc' # "sweep" => cause' \in {cause, "signal"}
        /\ tproc' = tproc
    BY <1>3, HouseKept DEF target
  <2>2. cause # "gone"
    BY <1>0, <2>1 DEF SweepInv
  <2>3. pc' = "sweep" /\ open' = registered /\ tproc' = "dead"
    BY <1>0, <1>3, <2>1, <2>2 DEF LifeInv
  <2>4. \A t \in (registered + 1)..Threads : ring[t] = <<>>
    BY <1>0 DEF ItemsInv
  <2> QED
    BY <2>1, <2>3, <2>4 DEF SweepInv, Unmoved
<1>4. CASE SweepBatch /\ cause = "gone"
  <2>1. /\ Processed /\ pc' \in {"sweep", "finish"} /\ open > 0
        /\ pc' = "finish" => BatchDrain = <<>>
        /\ UNCHANGED <<tproc, open, cause>>
    BY <1>4, SweepMoves DEF SweepBatch
  <2>2. tproc = "dead" /\ \A t \in (open + 1)..Threads : ring[t] = <<>>
    BY <1>0, <1>4 DEF SweepInv
  <2>3. \A t \in (open + 1)..Threads : ring'[t] = <<>>
    <3>1. \A t \in (open + 1)..Threads : t \in 1..Threads /\ ~(t <= open)
      BY <1>1
    <3> QED
      BY <2>1, <2>2, <3>1 DEF Processed
  <2>4. ASSUME pc' = "finish", NEW t \in 1..Threads PROVE ring'[t] = <<>>
    <3>1. \A u \in 1..open : ring[u] = <<>>
      BY <1>0, <2>1, <2>4, DrainSpec
    <3>2. ring[t] = <<>>
      <4>1. t \in 1..open \/ t \in (open + 1)..Threads
        BY <1>1
      <4> QED
        BY <2>2, <3>1, <4>1
    <3>3. PICK n \in 0..Len(ring[t]) : ring'[t] \in Seq(Item) /\ Len(ring'[t]) = Len(ring[t]) - n
      BY <1>0, <2>1, RingAfter
    <3>4. Len(ring[t]) = 0
      BY <3>2
    <3>6. n = 0
      BY <3>4
    <3>5. ring'[t] \in Seq(Item) /\ Len(ring'[t]) = 0
      BY <3>3, <3>4, <3>6
    <3> QED
      BY <3>5, EmptySeq
  <2>5. UNCHANGED <<tproc, open, cause>> /\ tproc = "dead" /\ pc' \in {"sweep", "finish"}
    BY <2>1, <2>2
  <2> QED
    BY <2>3, <2>4, <2>5 DEF SweepInv
<1> DEFINE Quiet == /\ UNCHANGED <<ring, tproc, cause, open>>
                    /\ pc' = pc \/ (pc = "finish" /\ pc' = "ended")
<1>5. CASE Quiet
  <2> USE <1>0 DEF SweepInv
  <2>1. ring' = ring /\ tproc' = tproc /\ cause' = cause /\ open' = open
    BY <1>5
  <2>2. CASE pc' = pc
    BY <2>1, <2>2
  <2>3. CASE pc = "finish" /\ pc' = "ended"
    BY <2>1, <2>3
  <2> QED
    BY <1>5, <2>2, <2>3
<1>6. CASE MapCtl \/ TripwireHit
  BY <1>0, <1>6 DEF MapCtl, TripwireHit, SweepInv, consumer
<1>7. CASE KidFork \/ KidWrite \/ KidEnd \/ Signal \/ Reap \/ Register \/ Finish
  <2>1. Quiet
    BY <1>7 DEF KidFork, KidWrite, KidEnd, Signal, Reap, Register, Finish, target, consumer
  <2> QED
    BY <1>5, <2>1
<1>8. ASSUME NEW clean \in BOOLEAN, TargetEnd(clean) PROVE SweepInv'
  BY <1>0, <1>8 DEF TargetEnd, SweepInv, consumer
<1>9. ASSUME NEW t \in 1..Threads, Produce(t) PROVE SweepInv'
  <2>1. cause' # "gone"
    BY <1>0, <1>9 DEF Produce, SweepInv
  <2> QED
    BY <1>2, <2>1
<1>10. CASE WaitSignal \/ WaitTracerGone \/ WaitTimeout \/ RetryGiveUp \/ Quit
  <2>1. cause' # "gone"
    BY <1>0, <1>10 DEF WaitSignal, WaitTracerGone, WaitTimeout, RetryGiveUp, Quit, SweepInv
  <2> QED
    BY <1>2, <2>1
<1>11. CASE WaitAttach \/ RetryAttach
  <2>1. cause' # "gone"
    BY <1>0, <1>11 DEF WaitAttach, RetryAttach, SweepInv
  <2> QED
    BY <1>2, <2>1
<1>12. ASSUME NEW due \in BOOLEAN, BeginTurn(due) PROVE SweepInv'
  <2>1. cause' # "gone"
    BY <1>0, <1>12 DEF BeginTurn, SweepInv
  <2> QED
    BY <1>2, <2>1
<1>13. CASE Batch
  <2>1. cause' # "gone"
    BY <1>0, <1>13, BatchMoves DEF Batch, SweepInv
  <2> QED
    BY <1>2, <2>1
<1>14. CASE SweepBatch /\ cause # "gone"
  <2>1. cause' # "gone"
    BY <1>14 DEF SweepBatch
  <2> QED
    BY <1>2, <2>1
<1>15. CASE Join \/ Cleanup
  <2>1. ring' = ring /\ cause' = cause /\ open' = open /\ pc' = pc /\ tproc' \in {tproc, "dead"}
    BY <1>15 DEF Join, KillAndWait, Cleanup, consumer
  <2> QED
    BY <1>0, <2>1 DEF SweepInv
<1> HIDE DEF Quiet
<1> QED
  BY <1>2, <1>3, <1>4, <1>6, <1>7, <1>8, <1>9, <1>10, <1>11, <1>12, <1>13, <1>14, <1>15
     DEF Step, TargetStep, ConsumerStep, MainStep, HouseKeeping

LEMMA InitInv == Init => IInv
<1> SUFFICES ASSUME Init PROVE IInv
  OBVIOUS
<1> USE ConstantTypes
<1>1. ring \in [1..Threads -> Seq(Item)] /\ trace = <<>> /\ \A t \in 1..Threads : ring[t] = <<>> /\ Len(ring[t]) = 0
  <2>1. <<>> \in Seq(Item)
    OBVIOUS
  <2> QED
    BY <2>1 DEF Init
<1>2. TInv
  <2>1. trace \in Seq(Item)
    BY <1>1
  <2>2. /\ registered \in 0..Threads /\ made \in 0..Len(Script) /\ open \in 0..Threads
        /\ total \in 0..TotalCap /\ idle \in 0..IdleLimit
    BY DEF Init
  <2>3. tproc = "spawned" /\ ctl \in BOOLEAN /\ tripwire \in BOOLEAN /\ exited \in BOOLEAN /\ sig \in BOOLEAN
    BY DEF Init
  <2>5. mode \in {"normal", "server", "live"} /\ kid = "none" /\ kq \in 0..1
    BY DEF Init
  <2>4. /\ pc = "wait" /\ attached \in BOOLEAN /\ rr \in Nat /\ tries \in Nat /\ drained \in BOOLEAN
        /\ tick \in Nat /\ paused \in BOOLEAN /\ warm \in BOOLEAN /\ mpc = "join" /\ cause = "none"
    BY DEF Init
  <2> QED
    BY <1>1, <2>1, <2>2, <2>3, <2>4, <2>5 DEF TInv, Pcs
<1>3. RecordInv /\ LifeInv /\ OpenInv /\ SweepInv
  <2>1. RecordInv
    BY RecordedEmpty DEF Init, RecordInv
  <2>2. LifeInv
    BY DEF Init, LifeInv
  <2>3. OpenInv
    BY DEF Init, OpenInv
  <2>4. SweepInv
    BY DEF Init, SweepInv
  <2> QED
    BY <2>1, <2>2, <2>3, <2>4
<1>4. OrderInv
  BY <1>1 DEF OrderInv
<1>5. ItemsInv
  <2>1. \A x : ~At(trace, ring, x)
    BY <1>1 DEF At
  <2>2. AllItems = {}
    BY <1>1, <1>2, <2>1, InItems DEF TInv, AllItems
  <2>3. made = 0 /\ \A t \in (registered + 1)..Threads : t \in 1..Threads
    BY DEF Init
  <2> QED
    BY <1>1, <2>2, <2>3 DEF ItemsInv
<1> QED
  BY <1>2, <1>3, <1>4, <1>5 DEF IInv

LEMMA StepInv == IInv /\ [Next]_vars => IInv'
<1>1. ASSUME IInv, UNCHANGED vars PROVE IInv'
  <2> USE <1>1 DEF IInv, vars, target, child, flags, consumer, turn, record
  <2>1. TInv'
    BY DEF TInv
  <2>2. RecordInv' /\ LifeInv' /\ OpenInv' /\ SweepInv'
    BY DEF RecordInv, LifeInv, OpenInv, SweepInv
  <2>3. OrderInv'
    BY DEF OrderInv
  <2>4. AllItems' = AllItems
    BY DEF AllItems
  <2>5. ItemsInv'
    <3> HIDE DEF AllItems
    <3> QED
      BY <2>4 DEF ItemsInv
  <2> QED
    BY <2>1, <2>2, <2>3, <2>5
<1>2. ASSUME IInv, Step PROVE IInv'
  BY <1>2, TypeStep, RecordStep, LifeStep, OpenStep, ItemsInvStep, SweepStep DEF IInv
<1>3. ASSUME Next PROVE Step \/ UNCHANGED vars
  BY <1>3 DEF Next, Step, Over
<1> QED
  BY <1>1, <1>2, <1>3

-----------------------------------------------------------------------------
(* The theorems.                                                           *)

(* The invariant of a session: where its threads are, what the rings hold   *)
(* and what has been processed.                                            *)
THEOREM SessionInvariant == Spec => []IInv
<1> QED
  BY InitInv, StepInv, PTL DEF Spec

(* The types of the engine's state (main.rs).                              *)
THEOREM SessionTypes == Spec => []TypeOK
<1>1. IInv => TypeOK
  BY DEF IInv, TInv, RecordInv, TypeOK
<1> QED
  BY <1>1, SessionInvariant, PTL

(* After launch has returned the tracer is dead, and its names in shm are   *)
(* gone for good, however the session ended and whichever thread waited    *)
(* for the tracer (launch, cleanup_shm, the reaper).                       *)
THEOREM CleanupAlwaysFinal == Spec => []CleanupFinal
<1>1. IInv => CleanupFinal
  BY DEF IInv, LifeInv, CleanupFinal
<1> QED
  BY <1>1, SessionInvariant, PTL


(* The numbers from 1 to m, each in one of n places: m = n.                *)
Places(f, n, m) ==
    /\ f \in [1..n -> 1..m]
    /\ \A i, j \in 1..n : i # j => f[i] # f[j]
    /\ \A k \in 1..m : \E i \in 1..n : f[i] = k

LEMMA AllPlaced ==
    ASSUME NEW n \in Nat, NEW m \in Nat, NEW f, Places(f, n, m)
    PROVE  n = m
<1>1. IsFiniteSet(1..n) /\ IsFiniteSet(1..m) /\ Cardinality(1..n) = n /\ Cardinality(1..m) = m
  <2>1. \A a \in Nat : IsFiniteSet(1..a) /\ Cardinality(1..a) = IF 1 > a THEN 0 ELSE a - 1 + 1
    <3> TAKE a \in Nat
    <3>1. 1 \in Int /\ a \in Int
      OBVIOUS
    <3> QED
      BY <3>1, FS_Interval
  <2>2. \A a \in Nat : (IF 1 > a THEN 0 ELSE a - 1 + 1) = a
    OBVIOUS
  <2> QED
    BY <2>1, <2>2
<1>2. f \in Surjection(1..n, 1..m) /\ f \in Injection(1..n, 1..m)
  BY DEF Surjection, Injection, IsInjective, Places
<1>3. Cardinality(1..m) = Cardinality(1..n)
  BY <1>1, <1>2, FS_Surjection
<1> QED
  BY <1>1, <1>3

LEMMA NothingLeft ==
    ASSUME IInv, cause = "gone", pc # "sweep"
    PROVE  Len(trace) = made
<1>1. \A t \in 1..Threads : ring[t] = <<>> /\ Len(ring[t]) = 0
  BY DEF IInv, SweepInv
<1>2. trace \in Seq(Item) /\ ring \in [1..Threads -> Seq(Item)] /\ made \in Nat
  BY ConstantTypes DEF IInv, TInv
<1>3. \A x : x \in AllItems <=> \E i \in 1..Len(trace) : x = trace[i]
  <2> TAKE x
  <2>1. x \in AllItems <=> At(trace, ring, x)
    BY <1>2, InItems DEF AllItems
  <2>2. \A t \in 1..Threads : ~ \E j \in 1..Len(ring[t]) : x = ring[t][j]
    BY <1>1
  <2> QED
    BY <2>1, <2>2 DEF At
<1>4. Len(trace) \in Nat
  BY <1>2, LenProperties
<1> DEFINE f == [i \in 1..Len(trace) |-> trace[i][3]]
<1>5. /\ \A x \in AllItems : x[3] \in 1..made
      /\ \A x, y \in AllItems : x[3] = y[3] => x[2] = y[2]
      /\ \A k \in 1..made : \E x \in AllItems : x[3] = k
  BY DEF IInv, ItemsInv
<1> HIDE DEF AllItems
<1>6. f \in [1..Len(trace) -> 1..made]
  BY <1>3, <1>5
<1>7. ASSUME NEW i \in 1..Len(trace), NEW j \in 1..Len(trace), i # j PROVE f[i] # f[j]
  <2>1. f[i] = trace[i][3] /\ f[j] = trace[j][3] /\ trace[i] \in AllItems /\ trace[j] \in AllItems
    BY <1>3
  <2> HIDE DEF f
  <2>2. f[i] \in Nat /\ f[j] \in Nat
    <3>1. f[i] \in 1..made /\ f[j] \in 1..made
      BY <1>6
    <3> QED
      BY <1>2, <3>1, SMTT(20)
  <2>3. CASE trace[i][2] = trace[j][2]
    <3>1. \A k, l \in 1..Len(trace) : k < l /\ trace[k][2] = trace[l][2] => trace[k][3] < trace[l][3]
      BY DEF IInv, OrderInv
    <3>2. i < j \/ j < i
      BY <1>4, <1>7
    <3>3. trace[i][3] < trace[j][3] \/ trace[j][3] < trace[i][3]
      BY <2>3, <3>1, <3>2
    <3> QED
      BY <2>1, <2>2, <3>3
  <2>4. CASE trace[i][2] # trace[j][2]
    BY <1>5, <2>1, <2>4
  <2> QED
    BY <2>3, <2>4
<1>8. ASSUME NEW k \in 1..made PROVE \E i \in 1..Len(trace) : f[i] = k
  BY <1>3, <1>5
<1> DEFINE n == Len(trace)
<1>9. n \in Nat /\ Places(f, n, made)
  <2> HIDE DEF f
  <2> QED
    BY <1>4, <1>6, <1>7, <1>8 DEF Places
<1> HIDE DEF f, n
<1>10. n = made
  BY <1>2, <1>9, AllPlaced
<1> QED
  BY <1>10 DEF n

(* Each thread's events are processed in the order it made them, and a      *)
(* session that ends because the tracer is gone has processed every event  *)
(* made, also of a thread no poll had found before the sweep (run_headless).*)
THEOREM SweepAlwaysComplete == Spec => []SweepComplete
<1>1. IInv => SweepComplete
  <2> SUFFICES ASSUME IInv PROVE SweepComplete
    OBVIOUS
  <2>1. TypeOK
    BY DEF IInv, TInv, RecordInv, TypeOK
  <2>2. DOMAIN trace = 1..Len(trace)
    BY LenProperties DEF IInv, TInv
  <2>3. \A i, j \in DOMAIN trace :
            (i < j /\ trace[i][2] = trace[j][2]) => trace[i][3] < trace[j][3]
    BY <2>2 DEF IInv, OrderInv
  <2>4. (pc = "ended" /\ cause = "gone") => Len(trace) = made
    BY NothingLeft
  <2> QED
    BY <2>1, <2>3, <2>4 DEF SweepComplete
<1> QED
  BY <1>1, SessionInvariant, PTL


-----------------------------------------------------------------------------
(* The replay of a recording.                                              *)

(* A function defined by its value some places further on.                 *)
Jumps(f, l, n, c, a) == f = [i \in 1..n |-> IF i > l THEN <<>> ELSE c[i] \o f[i + a[i]]]

LEMMA JumpsExists ==
    ASSUME NEW l \in Nat, NEW n \in Nat, n > 0, NEW c, NEW a,
           \A i \in 1..l : a[i] \in Nat \ {0} /\ i + a[i] <= n
    PROVE  \E f : Jumps(f, l, n, c, a)
<1> DEFINE At0(f, i) == IF i > l THEN <<>> ELSE c[i] \o f[i + a[i]]
           Def(f, k) == f = [i \in (n - k)..n |-> At0(f, i)]
           T == {k \in Nat : k < n => \E f : Def(f, k)}
<1> HIDE DEF Def
<1>1. 0 \in T
  <2> DEFINE f == [i \in n..n |-> <<>>]
             h == [i \in (n - 0)..n |-> At0(f, i)]
  <2>1. ASSUME NEW i \in n..n PROVE f[i] = h[i]
    <3>1. i = n /\ i \in (n - 0)..n
      OBVIOUS
    <3>2. n > l
      <4>1. ASSUME n <= l PROVE FALSE
        <5>1. n \in 1..l
          BY <4>1
        <5>2. a[n] \in Nat \ {0} /\ n + a[n] <= n
          BY <5>1
        <5> QED
          BY <5>2
      <4> QED
        BY <4>1
    <3> QED
      BY <3>1, <3>2
  <2>2. DOMAIN f = n..n /\ DOMAIN h = n..n /\ f = [i \in DOMAIN f |-> f[i]] /\ h = [i \in DOMAIN h |-> h[i]]
    OBVIOUS
  <2>3. f = h
    <3> HIDE DEF f, h
    <3> QED
      BY <2>1, <2>2
  <2>4. Def(f, 0)
    BY <2>3 DEF Def
  <2> HIDE DEF f
  <2> QED
    BY <2>4
<1>2. ASSUME NEW k \in Nat, k \in T PROVE k + 1 \in T
  <2> SUFFICES ASSUME k + 1 < n PROVE \E g : Def(g, k + 1)
    OBVIOUS
  <2>1. PICK f : Def(f, k)
    BY <1>2
  <2> DEFINE m == n - (k + 1)
             g == [i \in m..n |-> IF i = m THEN At0(f, i) ELSE f[i]]
             h == [i \in m..n |-> At0(g, i)]
  <2>2. m \in 1..(n - 1) /\ n - k = m + 1
    OBVIOUS
  <2>3. \A i \in (m + 1)..n : f[i] = At0(f, i)
    BY <2>1, <2>2 DEF Def
  <2>4. ASSUME NEW i \in m..n, i <= l PROVE i + a[i] \in m..n /\ i + a[i] # m
    <3>1. i \in 1..l
      BY <2>2, <2>4
    <3>2. a[i] \in Nat \ {0} /\ i + a[i] <= n
      BY <3>1
    <3> DEFINE d == a[i]
    <3>3. d \in Nat \ {0} /\ i + d <= n
      BY <3>2
    <3> HIDE DEF d, m
    <3>4. i + d \in m..n /\ i + d # m
      BY <2>2, <3>3
    <3> QED
      BY <3>4 DEF d
  <2>5. ASSUME NEW i \in m..n PROVE g[i] = h[i]
    <3>1. At0(g, i) = At0(f, i)
      <4>1. CASE i > l
        BY <4>1
      <4>2. CASE ~(i > l)
        <5>1. i + a[i] \in m..n /\ i + a[i] # m
          BY <2>2, <2>4, <4>2
        <5>2. g[i + a[i]] = f[i + a[i]]
          BY <5>1
        <5> HIDE DEF g
        <5> QED
          BY <4>2, <5>2
      <4> QED
        BY <4>1, <4>2
    <3>2. CASE i = m
      BY <3>1, <3>2
    <3>3. CASE i # m
      <4>1. i \in (m + 1)..n
        BY <2>2, <3>3
      <4>2. f[i] = At0(f, i)
        BY <2>3, <4>1
      <4> HIDE DEF At0
      <4> QED
        BY <3>1, <3>3, <4>2
    <3> QED
      BY <3>2, <3>3
  <2>6. DOMAIN g = m..n /\ DOMAIN h = m..n /\ g = [i \in DOMAIN g |-> g[i]] /\ h = [i \in DOMAIN h |-> h[i]]
    OBVIOUS
  <2>7. g = h
    <3> HIDE DEF g, h
    <3> QED
      BY <2>5, <2>6
  <2>8. Def(g, k + 1)
    BY <2>7 DEF Def
  <2> HIDE DEF g
  <2> QED
    BY <2>8
<1>3. n - 1 \in T
  <2> HIDE DEF T
  <2>1. n - 1 \in Nat
    OBVIOUS
  <2> QED
    BY <1>1, <1>2, <2>1, NatByInduction
<1>4. PICK f : Def(f, n - 1)
  BY <1>3
<1>5. n - (n - 1) = 1
  OBVIOUS
<1>6. Jumps(f, l, n, c, a)
  BY <1>4, <1>5 DEF Jumps, Def
<1> QED
  BY <1>6

(* What a batch gives from slot i on, and where it goes on from there.      *)
GivenAt(b, i) ==
    IF ~IsReg(b[i]) THEN <<<<b[i]>>>>
    ELSE IF Applies(b, i) THEN <<SubSeq(b, i, i + SnapSlots - 1)>> ELSE <<>>
NextAt(b, i) == IF IsReg(b[i]) /\ Applies(b, i) THEN SnapSlots ELSE 1

(* f[i] is what run_replay makes of the slots of batch b from i on.         *)
BatchFrom(f, b) ==
    \A i \in 1..(Len(b) + SnapSlots + 1) :
        f[i] = IF i > Len(b) THEN <<>> ELSE GivenAt(b, i) \o f[i + NextAt(b, i)]

LEMMA BatchRecursion ==
    ASSUME NEW b \in Seq(Slot)
    PROVE  \E f : BatchFrom(f, b) /\ ReplayedBatch(b) = f[1]
<1> DEFINE l == Len(b)
           n == Len(b) + SnapSlots + 1
           c == [i \in 1..l |-> GivenAt(b, i)]
           a == [i \in 1..l |-> NextAt(b, i)]
           Body(f, i) == IF i > Len(b) THEN <<>>
                         ELSE IF ~IsReg(b[i]) THEN <<<<b[i]>>>> \o f[i + 1]
                         ELSE (IF Applies(b, i)
                               THEN <<SubSeq(b, i, i + SnapSlots - 1)>> ELSE <<>>)
                              \o f[i + AppliedSlots(b, i)]
           Def(f) == f = [i \in 1..(Len(b) + SnapSlots + 1) |-> Body(f, i)]
<1>1. l \in Nat /\ n \in Nat /\ n > 0 /\ SnapSlots \in Nat /\ SnapSlots >= 2
  BY LenProperties
<1>2. \A i \in 1..l : a[i] \in Nat \ {0} /\ i + a[i] <= n
  <2> TAKE i \in 1..l
  <2>1. a[i] = SnapSlots \/ a[i] = 1
    BY DEF NextAt
  <2> HIDE DEF a
  <2> QED
    BY <1>1, <2>1, SMTT(20)
<1>3. PICK g : Jumps(g, l, n, c, a)
  <2> HIDE DEF l, n, c, a
  <2> QED
    BY <1>1, <1>2, JumpsExists
<1>4. ASSUME NEW f, NEW i \in 1..n
      PROVE  (IF i > l THEN <<>> ELSE c[i] \o f[i + a[i]]) = Body(f, i)
  <2>1. CASE i > l
    BY <2>1
  <2>2. CASE ~(i > l)
    <3>1. i \in 1..l
      BY <1>1, <2>2
    <3>2. c[i] = GivenAt(b, i) /\ a[i] = NextAt(b, i)
      BY <3>1
    <3> HIDE DEF c, a
    <3>3. CASE ~IsReg(b[i])
      BY <2>2, <3>2, <3>3 DEF GivenAt, NextAt
    <3>4. CASE IsReg(b[i]) /\ Applies(b, i)
      BY <2>2, <3>2, <3>4 DEF GivenAt, NextAt, AppliedSlots
    <3>5. CASE IsReg(b[i]) /\ ~Applies(b, i)
      BY <2>2, <3>2, <3>5 DEF GivenAt, NextAt, AppliedSlots
    <3> QED
      BY <3>3, <3>4, <3>5
  <2> QED
    BY <2>1, <2>2
<1>5. Def(g)
  <2>1. g = [i \in 1..n |-> IF i > l THEN <<>> ELSE c[i] \o g[i + a[i]]]
    BY <1>3 DEF Jumps
  <2>2. [i \in 1..n |-> IF i > l THEN <<>> ELSE c[i] \o g[i + a[i]]] = [i \in 1..n |-> Body(g, i)]
    <3> HIDE DEF Body, l, n, c, a
    <3> QED
      BY <1>4
  <2> HIDE DEF Body, c, a
  <2> QED
    BY <2>1, <2>2
<1>6. ReplayedBatch(b) = (CHOOSE f : Def(f))[1]
  BY DEF ReplayedBatch
<1> HIDE DEF Def
<1>7. Def(CHOOSE f : Def(f))
  BY <1>5
<1> DEFINE h == CHOOSE f : Def(f)
<1>8. \A i \in 1..n : h[i] = IF i > l THEN <<>> ELSE c[i] \o h[i + a[i]]
  <2> HIDE DEF h
  <2>1. Def(h)
    BY <1>7 DEF h
  <2>2. \A i \in 1..n : h[i] = Body(h, i)
    <3> HIDE DEF Body
    <3> QED
      BY <2>1 DEF Def
  <2> HIDE DEF Body, l, n, c, a
  <2> QED
    BY <1>4, <2>2
<1> HIDE DEF h
<1>9. BatchFrom(h, b)
  <2> SUFFICES ASSUME NEW i \in 1..n
               PROVE  h[i] = IF i > l THEN <<>> ELSE GivenAt(b, i) \o h[i + NextAt(b, i)]
    BY DEF BatchFrom
  <2>1. CASE i > l
    BY <1>8, <2>1
  <2>2. CASE ~(i > l)
    <3>1. i \in 1..l
      BY <1>1, <2>2
    <3>2. c[i] = GivenAt(b, i) /\ a[i] = NextAt(b, i)
      BY <3>1
    <3> HIDE DEF l, n, c, a
    <3> QED
      BY <1>8, <2>2, <3>2
  <2> QED
    BY <2>1, <2>2
<1> QED
  BY <1>6, <1>9 DEF h


-----------------------------------------------------------------------------
(* The events of the replay are those of the recording.                    *)

Run == Seq(Slot)
PlainW == [r \in Run |-> IF Len(r) = 1 THEN <<r>> ELSE <<>>]
EventW == [r \in Slot |-> IF IsReg(r) THEN <<>> ELSE <<<<r>>>>]

LEMMA EventsType == PlainW \in [Run -> Seq(Run)] /\ EventW \in [Slot -> Seq(Run)]
<1>1. ASSUME NEW r \in Run PROVE PlainW[r] \in Seq(Run)
  BY DEF PlainW
<1>2. ASSUME NEW r \in Slot PROVE EventW[r] \in Seq(Run)
  <2>1. <<r>> \in Run
    BY DEF Run
  <2>2. <<<<r>>>> \in Seq(Run)
    BY <2>1
  <2> QED
    BY <2>2 DEF EventW
<1> QED
  BY <1>1, <1>2 DEF PlainW, EventW

LEMMA PlainOne ==
    ASSUME NEW r \in Run
    PROVE  Mapped(PlainW, <<r>>) = PlainW[r]
BY EventsType, MappedOne, Zenon

LEMMA EventOne ==
    ASSUME NEW r \in Slot
    PROVE  Mapped(EventW, <<r>>) = EventW[r]
BY EventsType, MappedOne, Zenon

LEMMA OneElement ==
    ASSUME NEW S, NEW s \in Seq(S), Len(s) = 1
    PROVE  s = <<s[1]>>
<1>0. s[1] \in S
  <2>1. 1 \in 1..Len(s)
    OBVIOUS
  <2> QED
    BY <2>1, ElementOfSeq
<1>1. <<s[1]>> \in Seq(S) /\ Len(<<s[1]>>) = 1
  BY <1>0
<1>2. \A i \in 1..Len(s) : s[i] = <<s[1]>>[i]
  OBVIOUS
<1> DEFINE t == <<s[1]>>
<1> HIDE DEF t
<1>3. t \in Seq(S) /\ Len(t) = 1 /\ \A i \in 1..Len(s) : s[i] = t[i]
  BY <1>1, <1>2 DEF t
<1>4. s = t
  BY <1>3, SeqEqual
<1> QED
  BY <1>4 DEF t

LEMMA PlainMapped ==
    ASSUME NEW s \in Seq(Run)
    PROVE  Plain(s) = Mapped(PlainW, s)
<1> DEFINE n == Len(s)
           c == [i \in 1..n |-> PlainW[s[i]]]
<1>1. DOMAIN s = 1..n /\ \A i \in 1..n : s[i] \in Run
  BY LenProperties, ElementOfSeq
<1> HIDE DEF n
<1>2. \A i \in 1..n : c[i] = IF Len(s[i]) = 1 THEN <<s[i]>> ELSE <<>>
  BY <1>1 DEF PlainW
<1>3. [i \in 1..n |-> c[i]] = [i \in DOMAIN s |-> IF Len(s[i]) = 1 THEN <<s[i]>> ELSE <<>>]
  <2> HIDE DEF c
  <2> QED
    BY <1>1, <1>2
<1> QED
  BY <1>3 DEF Plain, Mapped, Cat, n

(* The slots of snapshots give no event.                                   *)
LEMMA NoEvents ==
    ASSUME NEW b \in Seq(Slot), \A i \in 1..Len(b) : IsReg(b[i])
    PROVE  Mapped(EventW, b) = <<>>
<1> DEFINE n == Len(b)
           c == [i \in 1..n |-> EventW[b[i]]]
<1>1. n \in Nat /\ \A i \in 1..n : b[i] \in Slot /\ IsReg(b[i])
  BY LenProperties, ElementOfSeq
<1> HIDE DEF n
<1>2. NoParts(c, n)
  BY <1>1 DEF EventW, NoParts
<1> HIDE DEF c
<1>3. Cat(c, n) = <<>>
  BY <1>1, <1>2, CatNothing
<1> QED
  BY <1>3 DEF Mapped, n, c

LEMMA PartType ==
    ASSUME NEW b \in Seq(Slot), NEW i \in Nat \ {0}, NEW j \in Nat, j <= Len(b)
    PROVE  /\ SubSeq(b, i, j) \in Run
           /\ Len(SubSeq(b, i, j)) = IF i <= j THEN j - i + 1 ELSE 0
           /\ \A k \in 1..(j - i + 1) : SubSeq(b, i, j)[k] = b[i + k - 1]
<1>1. \A k \in i..j : k \in 1..Len(b)
  BY LenProperties
<1>2. \A k \in i..j : b[k] \in Slot
  BY <1>1, ElementOfSeq
<1>3. i \in Int /\ j \in Int
  OBVIOUS
<1> QED
  BY <1>2, <1>3, SubSeqProperties DEF Run

(* Some slots of a batch are gone through; the events they are given, and   *)
(* those that they have.                                                   *)
LEMMA GivenSpec ==
    ASSUME NEW b \in Seq(Slot), NEW i \in 1..Len(b)
    PROVE  /\ NextAt(b, i) \in 1..SnapSlots /\ i + NextAt(b, i) - 1 <= Len(b)
           /\ GivenAt(b, i) \in Seq(Run)
           /\ Mapped(PlainW, GivenAt(b, i)) = Mapped(EventW, SubSeq(b, i, i + NextAt(b, i) - 1))
<1> DEFINE q == SubSeq(b, i, i + SnapSlots - 1)
<1>1. SnapSlots \in Nat /\ SnapSlots >= 2 /\ Len(b) \in Nat /\ b[i] \in Slot /\ i + 1 - 1 = i
  BY LenProperties, ElementOfSeq
<1>2. SubSeq(b, i, i) = <<b[i]>>
  <2>1. /\ SubSeq(b, i, i) \in Run /\ Len(SubSeq(b, i, i)) = 1
        /\ SubSeq(b, i, i)[1] = b[i]
    BY <1>1, PartType
  <2> DEFINE s == SubSeq(b, i, i)
  <2>2. s \in Seq(Slot) /\ Len(s) = 1 /\ s[1] = b[i]
    BY <2>1 DEF Run
  <2> HIDE DEF s
  <2>3. s = <<s[1]>>
    BY <2>2, OneElement
  <2> QED
    BY <2>2, <2>3 DEF s
<1>3. CASE ~IsReg(b[i])
  <2>1. NextAt(b, i) = 1 /\ GivenAt(b, i) = <<<<b[i]>>>>
    BY <1>3 DEF NextAt, GivenAt
  <2>2. <<b[i]>> \in Run
    BY <1>1 DEF Run
  <2>3. Mapped(PlainW, <<<<b[i]>>>>) = PlainW[<<b[i]>>]
    BY <2>2, PlainOne
  <2>4. PlainW[<<b[i]>>] = <<<<b[i]>>>>
    BY <2>2 DEF PlainW
  <2>5. Mapped(EventW, <<b[i]>>) = EventW[b[i]]
    BY <1>1, EventOne
  <2>6. EventW[b[i]] = <<<<b[i]>>>>
    BY <1>1, <1>3 DEF EventW
  <2>7. <<<<b[i]>>>> \in Seq(Run)
    BY <2>2
  <2>8. 1 \in 1..SnapSlots /\ i + 1 - 1 <= Len(b)
    BY <1>1
  <2> QED
    BY <1>1, <1>2, <2>1, <2>3, <2>4, <2>5, <2>6, <2>7, <2>8
<1>4. CASE IsReg(b[i]) /\ Applies(b, i)
  <2>1. NextAt(b, i) = SnapSlots /\ GivenAt(b, i) = <<q>>
    BY <1>4 DEF NextAt, GivenAt
  <2>2. i + SnapSlots - 1 <= Len(b) /\ \A k \in i..(i + SnapSlots - 1) : IsReg(b[k])
    BY <1>4 DEF Applies
  <2> DEFINE m == i + SnapSlots - 1
  <2>3. m \in Nat /\ m <= Len(b) /\ i \in Nat \ {0} /\ i <= m /\ m - i + 1 = SnapSlots
    BY <1>1, <2>2
  <2>4. q \in Run /\ Len(q) = SnapSlots /\ \A k \in 1..SnapSlots : q[k] = b[i + k - 1]
    <3> HIDE DEF m
    <3>1. /\ SubSeq(b, i, m) \in Run
          /\ Len(SubSeq(b, i, m)) = IF i <= m THEN m - i + 1 ELSE 0
          /\ \A k \in 1..(m - i + 1) : SubSeq(b, i, m)[k] = b[i + k - 1]
      BY <2>3, PartType
    <3> QED
      BY <2>3, <3>1 DEF m
  <2>5. \A k \in 1..SnapSlots : i + k - 1 \in i..(i + SnapSlots - 1)
    BY <1>1
  <2> HIDE DEF q
  <2>6. Mapped(EventW, q) = <<>>
    <3>1. q \in Seq(Slot) /\ \A k \in 1..Len(q) : IsReg(q[k])
      <4>1. q \in Seq(Slot) /\ Len(q) = SnapSlots
        BY <2>4 DEF Run
      <4>2. ASSUME NEW k \in 1..SnapSlots PROVE IsReg(q[k])
        <5>1. q[k] = b[i + k - 1] /\ IsReg(b[i + k - 1])
          BY <2>2, <2>4, <2>5
        <5> QED
          BY <5>1
      <4> QED
        BY <4>1, <4>2
    <3> QED
      BY <3>1, NoEvents
  <2>7. Mapped(PlainW, <<q>>) = PlainW[q]
    BY <2>4, PlainOne
  <2>8. PlainW[q] = <<>>
    BY <1>1, <2>4 DEF PlainW
  <2>9. <<q>> \in Seq(Run)
    BY <2>4
  <2>10. SnapSlots \in 1..SnapSlots
    BY <1>1
  <2> QED
    BY <2>1, <2>2, <2>6, <2>7, <2>8, <2>9, <2>10 DEF q
<1>5. CASE IsReg(b[i]) /\ ~Applies(b, i)
  <2>1. NextAt(b, i) = 1 /\ GivenAt(b, i) = <<>>
    BY <1>5 DEF NextAt, GivenAt
  <2>2. Mapped(EventW, <<b[i]>>) = EventW[b[i]]
    BY <1>1, EventOne
  <2>3. EventW[b[i]] = <<>>
    BY <1>1, <1>5 DEF EventW
  <2>4. 1 \in 1..SnapSlots /\ i + 1 - 1 <= Len(b)
    BY <1>1
  <2>5. Mapped(PlainW, <<>>) = <<>> /\ <<>> \in Seq(Run)
    BY MappedEmpty
  <2> QED
    BY <1>1, <1>2, <2>1, <2>2, <2>3, <2>4, <2>5
<1> QED
  BY <1>3, <1>4, <1>5


LEMMA EventsConcat ==
    ASSUME NEW s \in Seq(Slot), NEW t \in Seq(Slot)
    PROVE  Mapped(EventW, s \o t) = Mapped(EventW, s) \o Mapped(EventW, t)
<1>1. EventW \in [Slot -> Seq(Run)]
  BY EventsType
<1>2. Distributes(EventW, s, t)
  BY <1>1, MappedConcat
<1> QED
  BY <1>2 DEF Distributes

LEMMA PlainConcat ==
    ASSUME NEW s \in Seq(Run), NEW t \in Seq(Run)
    PROVE  Mapped(PlainW, s \o t) = Mapped(PlainW, s) \o Mapped(PlainW, t)
<1>1. PlainW \in [Run -> Seq(Run)]
  BY EventsType
<1>2. Distributes(PlainW, s, t)
  BY <1>1, MappedConcat
<1> QED
  BY <1>2 DEF Distributes

LEMMA EventsSplit ==
    ASSUME NEW b \in Seq(Slot), NEW i \in 1..(Len(b) + 1), NEW m \in (i - 1)..Len(b), NEW j \in m..Len(b)
    PROVE  Mapped(EventW, SubSeq(b, i, j)) =
               Mapped(EventW, SubSeq(b, i, m)) \o Mapped(EventW, SubSeq(b, m + 1, j))
<1>1. Len(b) \in Nat
  BY LenProperties
<1>2. i \in Nat \ {0} /\ m \in Nat /\ m <= Len(b) /\ m + 1 \in Nat \ {0} /\ j \in Nat /\ j <= Len(b)
  BY <1>1
<1>3. SubSeq(b, i, m) \in Seq(Slot) /\ SubSeq(b, m + 1, j) \in Seq(Slot)
  BY <1>2, PartType DEF Run
<1>4. SubSeq(b, i, m) \o SubSeq(b, m + 1, j) = SubSeq(b, i, j)
  BY ConcatAdjacentSubSeq
<1> DEFINE p == SubSeq(b, i, m)
           q == SubSeq(b, m + 1, j)
<1> HIDE DEF p, q
<1>5. Mapped(EventW, p \o q) = Mapped(EventW, p) \o Mapped(EventW, q)
  BY <1>3, EventsConcat DEF p, q
<1> QED
  BY <1>4, <1>5 DEF p, q

(* What run_replay makes of a batch, whatever it cuts off at its ends, has  *)
(* all the events of the batch and no other.                               *)
LEMMA BatchEvents ==
    ASSUME NEW b \in Seq(Slot)
    PROVE  ReplayedBatch(b) \in Seq(Run) /\ Mapped(PlainW, ReplayedBatch(b)) = Mapped(EventW, b)
<1>1. PICK f : BatchFrom(f, b) /\ ReplayedBatch(b) = f[1]
  BY BatchRecursion
<1> DEFINE l == Len(b)
           n == l + SnapSlots + 1
           Good(i) == f[i] \in Seq(Run) /\ Mapped(PlainW, f[i]) = Mapped(EventW, SubSeq(b, i, l))
           T == {k \in Nat : \A i \in 1..n : i + k >= l + 1 => Good(i)}
<1>2. l \in Nat /\ n \in Nat /\ SnapSlots \in Nat /\ SnapSlots >= 2
  BY LenProperties
<1>3. \A i \in 1..n : f[i] = IF i > l THEN <<>> ELSE GivenAt(b, i) \o f[i + NextAt(b, i)]
  BY <1>1 DEF BatchFrom
<1>4. ASSUME NEW i \in 1..n, i > l PROVE Good(i)
  <2>1. f[i] = <<>>
    BY <1>3, <1>4
  <2>2. SubSeq(b, i, l) = <<>>
    BY <1>2, <1>4, SubSeqEmpty
  <2> QED
    BY <2>1, <2>2, MappedEmpty, EmptySeq
<1>5. ASSUME NEW i \in 1..l, Good(i + NextAt(b, i)) PROVE Good(i)
  <2> DEFINE k == NextAt(b, i)
             g == GivenAt(b, i)
             h == f[i + k]
             m == i + k - 1
  <2>1. /\ k \in 1..SnapSlots /\ m <= l /\ g \in Seq(Run)
        /\ Mapped(PlainW, g) = Mapped(EventW, SubSeq(b, i, m))
    BY GivenSpec
  <2>2. i \in 1..n /\ ~(i > l) /\ m + 1 = i + k /\ m \in (i - 1)..l /\ l \in m..l /\ i \in 1..(l + 1)
    <3> HIDE DEF k, g, h, l
    <3>1. i \in 1..l /\ l \in Nat /\ SnapSlots \in Nat /\ k \in 1..SnapSlots /\ i + k - 1 <= l
      BY <1>2, <2>1
    <3> QED
      BY <3>1
  <2>3. f[i] = g \o h
    BY <1>3, <2>2
  <2>4. h \in Seq(Run) /\ Mapped(PlainW, h) = Mapped(EventW, SubSeq(b, m + 1, l))
    BY <1>5, <2>2
  <2> HIDE DEF k, g, h, m, l
  <2>5. g \o h \in Seq(Run)
    BY <2>1, <2>4, ConcatProperties
  <2>6. Mapped(PlainW, g \o h) = Mapped(PlainW, g) \o Mapped(PlainW, h)
    BY <2>1, <2>4, PlainConcat
  <2>7. Mapped(EventW, SubSeq(b, i, l)) = Mapped(EventW, SubSeq(b, i, m)) \o Mapped(EventW, SubSeq(b, m + 1, l))
    BY <2>2, EventsSplit DEF l
  <2> QED
    BY <2>1, <2>3, <2>4, <2>5, <2>6, <2>7 DEF l
<1> HIDE DEF Good
<1>6. 0 \in T
  BY <1>2, <1>4
<1>7. ASSUME NEW k \in Nat, k \in T PROVE k + 1 \in T
  <2> SUFFICES ASSUME NEW i \in 1..n, i + (k + 1) >= l + 1 PROVE Good(i)
    BY <1>2
  <2>1. CASE i > l
    BY <1>4, <2>1
  <2>2. CASE ~(i > l)
    <3> DEFINE j == i + NextAt(b, i)
    <3>1. i \in 1..l
      BY <1>2, <2>2
    <3>2. NextAt(b, i) \in 1..SnapSlots
      BY <3>1, GivenSpec
    <3>3. j \in 1..n /\ j + k >= l + 1
      <4> DEFINE a == NextAt(b, i)
      <4>1. a \in 1..SnapSlots /\ i \in 1..l /\ l \in Nat /\ SnapSlots \in Nat /\ i + (k + 1) >= l + 1
        BY <1>2, <3>1, <3>2
      <4> HIDE DEF a, l
      <4>2. i + a \in 1..(l + SnapSlots + 1) /\ (i + a) + k >= l + 1
        BY <4>1
      <4> QED
        BY <4>2 DEF a, l
    <3>4. Good(j)
      BY <1>7, <3>3
    <3> QED
      BY <1>5, <3>1, <3>4
  <2> QED
    BY <2>1, <2>2
<1>8. l \in T
  <2> HIDE DEF T
  <2> QED
    BY <1>2, <1>6, <1>7, NatByInduction
<1>9. Good(1)
  <2>1. 1 \in 1..n /\ 1 + l >= l + 1
    BY <1>2
  <2> QED
    BY <1>8, <2>1
<1>10. SubSeq(b, 1, l) = b
  BY SubSeqFull
<1> QED
  BY <1>1, <1>9, <1>10 DEF Good


(* The batches of run_replay, each with the slots from the end of the last  *)
(* one to its own.                                                         *)
BatchEnd(j, n) == Least(j * ReplayBatch, n)
Batches(n) == (n + ReplayBatch - 1) \div ReplayBatch

LEMMA Multiples ==
    ASSUME NEW d \in Nat, NEW i \in Nat, NEW j \in Nat
    PROVE  /\ i * d \in Nat /\ (i + 1) * d = i * d + d
           /\ i <= j => i * d <= j * d
<1>1. i * d \in Nat /\ (i + 1) * d = i * d + d
  OBVIOUS
<1>2. ASSUME i <= j PROVE i * d <= j * d
  <2> DEFINE k == j - i
  <2>1. k \in Nat /\ j = i + k
    BY <1>2
  <2> HIDE DEF k
  <2>2. (i + k) * d = i * d + k * d /\ k * d \in Nat /\ i * d \in Nat
    BY <2>1
  <2> QED
    BY <2>1, <2>2
<1> QED
  BY <1>1, <1>2

LEMMA Quotients ==
    ASSUME NEW a \in Nat, NEW d \in Nat \ {0}
    PROVE  /\ a \div d \in Nat
           /\ (a \div d) * d <= a /\ a < (a \div d) * d + d
<1>1. a \div d \in Int /\ (a % d) \in 0..(d - 1) /\ a = d * (a \div d) + (a % d)
  OBVIOUS
<1> QED
  BY <1>1

LEMMA BatchBounds ==
    ASSUME NEW n \in Nat
    PROVE  /\ Batches(n) \in Nat
           /\ BatchEnd(0, n) = 0 /\ BatchEnd(Batches(n), n) = n
           /\ \A j \in 0..Batches(n) : BatchEnd(j, n) \in 0..n
           /\ \A j \in 1..Batches(n) :
                 /\ (j - 1) * ReplayBatch = BatchEnd(j - 1, n)
                 /\ BatchEnd(j - 1, n) <= BatchEnd(j, n)
<1> DEFINE d == ReplayBatch
           m == Batches(n)
<1>1. d \in Nat \ {0}
  OBVIOUS
<1> HIDE DEF d
<1>2. m \in Nat /\ m * d <= n + d - 1 /\ n + d - 1 < m * d + d
  <2> DEFINE a == n + d - 1
  <2>1. a \in Nat
    BY <1>1
  <2>2. m = a \div d
    BY DEF Batches, d
  <2> HIDE DEF a, m
  <2>3. m \in Nat /\ m * d <= a /\ a < m * d + d
    BY <1>1, <2>1, <2>2, Quotients
  <2> QED
    BY <2>3 DEF a
<1> HIDE DEF m
<1>3. ASSUME NEW j \in Nat PROVE j * d \in Nat /\ BatchEnd(j, n) \in 0..n /\ BatchEnd(j, n) = IF j * d <= n THEN j * d ELSE n
  <2>1. j * d \in Nat
    BY <1>1, Multiples
  <2> QED
    BY <2>1 DEF BatchEnd, Least, d
<1>4. BatchEnd(0, n) = 0
  <2>1. 0 * d = 0
    BY <1>1
  <2> QED
    BY <1>3, <2>1
<1>5. BatchEnd(m, n) = n
  <2>1. m * d \in Nat /\ n <= m * d
    BY <1>1, <1>2, <1>3
  <2> QED
    BY <1>2, <1>3, <2>1
<1>6. ASSUME NEW j \in 1..m PROVE (j - 1) * d = BatchEnd(j - 1, n) /\ BatchEnd(j - 1, n) <= BatchEnd(j, n)
  <2> DEFINE i == j - 1
  <2>1. i \in Nat /\ j \in Nat /\ i + 1 = j /\ j <= m
    BY <1>2
  <2> HIDE DEF i
  <2>2. j * d = i * d + d /\ j * d <= m * d /\ i * d \in Nat /\ m * d \in Nat /\ j * d \in Nat
    BY <1>1, <1>2, <2>1, Multiples
  <2>3. i * d < n
    <3> DEFINE X == i * d
               Y == j * d
               Z == m * d
    <3> HIDE DEF X, Y, Z
    <3>1. X \in Nat /\ Y \in Nat /\ Z \in Nat /\ Y = X + d /\ Y <= Z /\ Z <= n + d - 1
      BY <1>2, <2>2 DEF X, Y, Z
    <3>2. X < n
      BY <1>1, <3>1
    <3> QED
      BY <3>2 DEF X
  <2>4. BatchEnd(i, n) = i * d
    BY <1>3, <2>1, <2>2, <2>3
  <2>5. BatchEnd(j, n) = (IF j * d <= n THEN j * d ELSE n)
    BY <1>3, <2>1
  <2>6. BatchEnd(i, n) <= BatchEnd(j, n)
    BY <1>1, <2>2, <2>3, <2>4, <2>5, SMTT(20)
  <2> QED
    BY <2>4, <2>6 DEF i
<1> QED
  BY <1>2, <1>3, <1>4, <1>5, <1>6 DEF m, d


(* The batches of a recording with slots s.                                *)
BatchOf(s, j) == SubSeq(s, BatchEnd(j - 1, Len(s)) + 1, BatchEnd(j, Len(s)))
ReplayOf(s) == Cat([j \in 1..Batches(Len(s)) |-> ReplayedBatch(BatchOf(s, j))], Batches(Len(s)))

LEMMA BatchOfType ==
    ASSUME NEW s \in Seq(Slot), NEW j \in 1..Batches(Len(s))
    PROVE  /\ BatchOf(s, j) \in Seq(Slot)
           /\ Len(BatchOf(s, j)) = BatchEnd(j, Len(s)) - BatchEnd(j - 1, Len(s))
           /\ \A k \in 1..(BatchEnd(j, Len(s)) - BatchEnd(j - 1, Len(s))) :
                 BatchOf(s, j)[k] = s[BatchEnd(j - 1, Len(s)) + k]
<1> DEFINE n == Len(s)
           a == BatchEnd(j - 1, n)
           e == BatchEnd(j, n)
<1>1. n \in Nat
  BY LenProperties
<1>2. a \in 0..n /\ e \in 0..n /\ a <= e
  <2>1. Batches(n) \in Nat /\ \A i \in 0..Batches(n) : BatchEnd(i, n) \in 0..n
    BY <1>1, BatchBounds
  <2>2. \A i \in 1..Batches(n) : BatchEnd(i - 1, n) <= BatchEnd(i, n)
    BY <1>1, BatchBounds
  <2>3. j \in 0..Batches(n) /\ j - 1 \in 0..Batches(n)
    BY <2>1, SMTT(20)
  <2> QED
    BY <2>1, <2>2, <2>3
<1> HIDE DEF a, e
<1> DEFINE i == a + 1
<1>3. i \in Nat \ {0} /\ e \in Nat /\ e <= Len(s) /\ e - i + 1 = e - a /\ \A k \in Nat : i + k - 1 = a + k
  BY <1>1, <1>2
<1>4. BatchOf(s, j) = SubSeq(s, i, e)
  BY DEF BatchOf, a, e
<1> HIDE DEF i
<1>5. /\ SubSeq(s, i, e) \in Run
      /\ Len(SubSeq(s, i, e)) = IF i <= e THEN e - i + 1 ELSE 0
      /\ \A k \in 1..(e - i + 1) : SubSeq(s, i, e)[k] = s[i + k - 1]
  BY <1>3, PartType, SMTT(20)
<1>6. (i <= e <=> a < e) /\ (a = e \/ a < e) /\ a \in Nat
  BY <1>1, <1>2 DEF i
<1>7. Len(BatchOf(s, j)) = e - a
  BY <1>3, <1>4, <1>5, <1>6
<1>8. ASSUME NEW k \in 1..(e - a) PROVE BatchOf(s, j)[k] = s[a + k]
  <2>1. i + k - 1 = a + k
    BY <1>6 DEF i
  <2>2. SubSeq(s, i, e)[k] = s[i + k - 1]
    BY <1>3, <1>5
  <2> QED
    BY <1>4, <2>1, <2>2
<1> QED
  BY <1>4, <1>5, <1>7, <1>8 DEF a, e, Run

LEMMA ReplayedOf ==
    ASSUME log \in Seq(Slot), count = Len(log)
    PROVE  Replayed = ReplayOf(log)
<1> DEFINE n == Len(log)
           m == Batches(n)
           c == [j \in 1..m |-> ReplayedBatch(BatchOf(log, j))]
<1>1. n \in Nat
  BY LenProperties
<1> HIDE DEF n
<1>2. m \in Nat /\ \A j \in 1..m : (j - 1) * ReplayBatch = BatchEnd(j - 1, n)
  BY <1>1, BatchBounds
<1>3. \A j \in 1..m : c[j] = ReplayedBatch(SubSeq(log, (j - 1) * ReplayBatch + 1, Least(j * ReplayBatch, n)))
  <2> TAKE j \in 1..m
  <2>1. BatchOf(log, j) = SubSeq(log, (j - 1) * ReplayBatch + 1, Least(j * ReplayBatch, n))
    BY <1>2 DEF BatchOf, n, BatchEnd
  <2> QED
    BY <2>1
<1> HIDE DEF c, m
<1>4. [j \in 1..m |-> c[j]] =
          [j \in 1..m |-> ReplayedBatch(SubSeq(log, (j - 1) * ReplayBatch + 1, Least(j * ReplayBatch, n)))]
  BY <1>3
<1>5. Replayed = FlattenSeq([j \in 1..m |-> c[j]])
  BY <1>4 DEF Replayed, n, m, Batches
<1>6. ReplayOf(log) = Cat(c, m)
  BY DEF ReplayOf, c, m, n
<1> QED
  BY <1>5, <1>6 DEF Cat

(* The events of a recording come out of its replay in their order.        *)
LEMMA ReplayEvents ==
    ASSUME NEW s \in Seq(Slot)
    PROVE  ReplayOf(s) \in Seq(Run) /\ Mapped(PlainW, ReplayOf(s)) = Mapped(EventW, s)
<1> DEFINE n == Len(s)
           m == Batches(n)
           c == [j \in 1..m |-> ReplayedBatch(BatchOf(s, j))]
           upTo(k) == SubSeq(s, 1, BatchEnd(k, n))
           T == {k \in Nat : k <= m => Mapped(PlainW, Cat(c, k)) = Mapped(EventW, upTo(k))}
<1>1. n \in Nat /\ m \in Nat
  BY LenProperties, BatchBounds
<1>2. ASSUME NEW j \in 1..m
      PROVE  c[j] \in Seq(Run) /\ Mapped(PlainW, c[j]) = Mapped(EventW, BatchOf(s, j))
  BY BatchOfType, BatchEvents
<1> HIDE DEF c
<1>3. Parts(c, m, Run)
  BY <1>2 DEF Parts
<1>4. /\ Cat(c, 0) = <<>>
      /\ \A k \in 0..m : Cat(c, k) \in Seq(Run)
      /\ \A k \in 0..(m - 1) : Cat(c, k + 1) = Cat(c, k) \o c[k + 1]
  <2> HIDE DEF m
  <2>1. CatLaws(c, m, Run)
    BY <1>1, <1>3, CatStep
  <2> QED
    BY <2>1 DEF CatLaws
<1>5. 0 \in T
  <2>1. upTo(0) = <<>>
    BY <1>1, BatchBounds, SubSeqEmpty
  <2> QED
    BY <1>4, <2>1, MappedEmpty
<1>6. ASSUME NEW k \in Nat, k \in T PROVE k + 1 \in T
  <2> SUFFICES ASSUME k + 1 <= m PROVE Mapped(PlainW, Cat(c, k + 1)) = Mapped(EventW, upTo(k + 1))
    OBVIOUS
  <2>1. Mapped(PlainW, Cat(c, k)) = Mapped(EventW, upTo(k))
    BY <1>1, <1>6
  <2> HIDE DEF T
  <2> DEFINE j == k + 1
             a == BatchEnd(k, n)
             e == BatchEnd(j, n)
  <2>2. j \in 1..m /\ j - 1 = k /\ k \in 0..(m - 1) /\ k \in 0..m /\ j \in 0..m
    BY <1>1
  <2>3. a \in 0..n /\ e \in 0..n /\ a <= e
    <3> HIDE DEF j, m
    <3>1. \A i \in 0..m : BatchEnd(i, n) \in 0..n
      BY <1>1, BatchBounds DEF m
    <3>2. \A i \in 1..m : BatchEnd(i - 1, n) <= BatchEnd(i, n)
      BY <1>1, BatchBounds DEF m
    <3> QED
      BY <2>2, <3>1, <3>2
  <2>4. BatchOf(s, j) = SubSeq(s, a + 1, e)
    BY <2>2 DEF BatchOf
  <2>5. Mapped(EventW, SubSeq(s, 1, e)) = Mapped(EventW, SubSeq(s, 1, a)) \o Mapped(EventW, SubSeq(s, a + 1, e))
    <3> HIDE DEF a, e
    <3>1. 1 \in 1..(n + 1) /\ a \in (1 - 1)..n /\ e \in a..n
      BY <1>1, <2>3
    <3> QED
      BY <3>1, EventsSplit
  <2>6. Cat(c, j) = Cat(c, k) \o c[j] /\ Cat(c, k) \in Seq(Run)
    BY <1>4, <2>2
  <2>7. c[j] \in Seq(Run) /\ Mapped(PlainW, c[j]) = Mapped(EventW, BatchOf(s, j))
    BY <1>2, <2>2
  <2> HIDE DEF j, a, e, m, n
  <2>8. Mapped(PlainW, Cat(c, k) \o c[j]) = Mapped(PlainW, Cat(c, k)) \o Mapped(PlainW, c[j])
    BY <2>6, <2>7, PlainConcat
  <2> QED
    BY <2>1, <2>4, <2>5, <2>6, <2>7, <2>8 DEF a, e, j
<1>7. m \in T
  <2> HIDE DEF T, m
  <2> QED
    BY <1>1, <1>5, <1>6, NatByInduction
<1>8. ReplayOf(s) = Cat(c, m) /\ m \in 0..m
  BY <1>1 DEF ReplayOf, c
<1>9. upTo(m) = s
  BY <1>1, BatchBounds, SubSeqFull
<1>10. Mapped(PlainW, Cat(c, m)) = Mapped(EventW, upTo(m))
  BY <1>1, <1>7
<1> HIDE DEF T, m, upTo
<1> QED
  BY <1>4, <1>8, <1>9, <1>10


-----------------------------------------------------------------------------
(* The events of the recording are those processed.                        *)

InOne(w, v, s) ==
    Mapped(w, Mapped(v, s)) = Cat([i \in 1..Len(s) |-> Mapped(w, v[s[i]])], Len(s))

LEMMA MappedTwice ==
    ASSUME NEW S, NEW R, NEW Q, NEW v \in [S -> Seq(R)], NEW w \in [R -> Seq(Q)], NEW s \in Seq(S)
    PROVE  InOne(w, v, s)
<1> DEFINE n == Len(s)
           c == [i \in 1..n |-> v[s[i]]]
           d == [i \in 1..n |-> Mapped(w, v[s[i]])]
           T == {k \in Nat : k <= n => Mapped(w, Cat(c, k)) = Cat(d, k)}
<1>1. n \in Nat /\ \A i \in 1..n : s[i] \in S
  BY LenProperties, ElementOfSeq
<1> HIDE DEF n
<1>2. ASSUME NEW i \in 1..n PROVE c[i] \in Seq(R) /\ d[i] = Mapped(w, c[i]) /\ d[i] \in Seq(Q)
  <2>1. c[i] = v[s[i]] /\ v[s[i]] \in Seq(R) /\ d[i] = Mapped(w, v[s[i]])
    BY <1>1
  <2>2. Mapped(w, v[s[i]]) \in Seq(Q)
    <3> DEFINE r == v[s[i]]
    <3> HIDE DEF r
    <3>1. r \in Seq(R)
      BY <2>1 DEF r
    <3>2. Mapped(w, r) \in Seq(Q)
      BY <3>1, MappedType
    <3> QED
      BY <3>2 DEF r
  <2> HIDE DEF c, d
  <2> QED
    BY <2>1, <2>2
<1> HIDE DEF c, d
<1>3. CatLaws(c, n, R) /\ CatLaws(d, n, Q)
  <2>1. Parts(c, n, R) /\ Parts(d, n, Q)
    BY <1>2 DEF Parts
  <2> QED
    BY <1>1, <2>1, CatStep
<1>4. 0 \in T
  BY <1>3, MappedEmpty DEF CatLaws
<1>5. ASSUME NEW k \in Nat, k \in T PROVE k + 1 \in T
  <2> SUFFICES ASSUME k + 1 <= n PROVE Mapped(w, Cat(c, k + 1)) = Cat(d, k + 1)
    OBVIOUS
  <2> DEFINE j == k + 1
  <2>1. k \in 0..(n - 1) /\ k \in 0..n /\ j \in 1..n
    BY <1>1
  <2>2. Mapped(w, Cat(c, k)) = Cat(d, k)
    BY <1>5, <2>1
  <2>3. Cat(c, j) = Cat(c, k) \o c[j] /\ Cat(c, k) \in Seq(R) /\ Cat(d, j) = Cat(d, k) \o d[j]
    BY <1>3, <2>1 DEF CatLaws
  <2> HIDE DEF j, T
  <2>4. c[j] \in Seq(R) /\ d[j] = Mapped(w, c[j])
    BY <1>2, <2>1
  <2> DEFINE p == Cat(c, k)
             q == c[j]
  <2> HIDE DEF p, q
  <2>5. p \in Seq(R) /\ q \in Seq(R)
    BY <2>3, <2>4 DEF p, q
  <2>6. Distributes(w, p, q)
    BY <2>5, MappedConcat
  <2> QED
    BY <2>2, <2>3, <2>4, <2>6 DEF j, p, q, Distributes
<1>6. n \in T
  <2> HIDE DEF T
  <2> QED
    BY <1>1, <1>4, <1>5, NatByInduction
<1> QED
  BY <1>1, <1>6 DEF Mapped, c, d, n, InOne

LEMMA EventsOfItem ==
    ASSUME NEW x \in Item
    PROVE  Mapped(EventW, SlotsOf(x)) = IF Len(SlotsOf(x)) = 1 THEN <<SlotsOf(x)>> ELSE <<>>
<1> DEFINE q == SlotsOf(x)
<1>1. q \in Seq(Slot) /\ Len(q) = Slots(x) /\ \A k \in 1..Slots(x) : q[k] = <<x, k>>
  BY SlotsType
<1>2. SnapSlots \in Nat /\ SnapSlots >= 2
  OBVIOUS
<1> HIDE DEF q
<1>3. CASE x[1] = "snap"
  <2>1. Slots(x) = SnapSlots
    BY <1>3 DEF Slots
  <2>2. \A k \in 1..Len(q) : IsReg(q[k])
    BY <1>1, <1>3 DEF IsReg
  <2>3. Mapped(EventW, q) = <<>>
    BY <1>1, <2>2, NoEvents
  <2> QED
    BY <1>1, <1>2, <2>1, <2>3 DEF q
<1>4. CASE x[1] # "snap"
  <2>1. Slots(x) = 1
    BY <1>4 DEF Slots
  <2>2. q = <<q[1]>> /\ q[1] = <<x, 1>>
    BY <1>1, <2>1, OneElement
  <2>3. q[1] \in Slot
    BY <1>2, <2>2 DEF Slot
  <2>4. Mapped(EventW, <<q[1]>>) = EventW[q[1]]
    BY <2>3, EventOne
  <2>5. EventW[q[1]] = <<<<q[1]>>>>
    BY <1>4, <2>2, <2>3 DEF EventW, IsReg
  <2> QED
    BY <1>1, <2>1, <2>2, <2>4, <2>5 DEF q
<1> QED
  BY <1>3, <1>4

LEMMA PlainRecorded ==
    ASSUME NEW s \in Seq(Item)
    PROVE  Plain(AsReplayed(s)) = Mapped(EventW, Recorded(s))
<1> DEFINE n == Len(s)
           d == [i \in 1..n |-> Mapped(EventW, SlotsW[s[i]])]
           e == [i \in 1..n |-> IF Len(SlotsOf(s[i])) = 1 THEN <<SlotsOf(s[i])>> ELSE <<>>]
           a == AsReplayed(s)
<1>1. n \in Nat /\ DOMAIN s = 1..n /\ \A i \in 1..n : s[i] \in Item
  BY LenProperties, ElementOfSeq
<1>2. Mapped(EventW, Mapped(SlotsW, s)) = Cat(d, n)
  <2>1. EventW \in [Slot -> Seq(Run)] /\ SlotsW \in [Item -> Seq(Slot)]
    BY EventsType, SlotsWType
  <2>2. InOne(EventW, SlotsW, s)
    BY <2>1, MappedTwice
  <2> QED
    BY <2>2 DEF InOne
<1> HIDE DEF n
<1>3. \A i \in 1..n : d[i] = e[i]
  <2> TAKE i \in 1..n
  <2>1. s[i] \in Item
    BY <1>1
  <2>2. d[i] = Mapped(EventW, SlotsOf(s[i]))
    BY <2>1 DEF SlotsW
  <2> QED
    BY <2>1, <2>2, EventsOfItem
<1> HIDE DEF d
<1>4. Cat(d, n) = Cat(e, n)
  <2> HIDE DEF e
  <2> QED
    BY <1>1, <1>3, CatSame DEF Agree
<1>5. DOMAIN a = 1..n /\ \A i \in 1..n : a[i] = SlotsOf(s[i])
  BY <1>1 DEF AsReplayed
<1> HIDE DEF a
<1>6. [i \in DOMAIN a |-> IF Len(a[i]) = 1 THEN <<a[i]>> ELSE <<>>] = [i \in 1..n |-> e[i]]
  BY <1>5
<1>7. Plain(a) = Cat(e, n)
  <2> HIDE DEF e
  <2> QED
    BY <1>6 DEF Plain, Cat
<1> QED
  BY <1>2, <1>4, <1>7, RecordedMapped DEF a


-----------------------------------------------------------------------------
(* A batch of whole items is replayed as they were recorded.               *)

HasFirst(y, S) == \E h \in S, t \in Seq(S) : y = <<h>> \o t /\ Len(y) = Len(t) + 1

LEMMA FirstAndRest ==
    ASSUME NEW S, NEW y \in Seq(S), Len(y) # 0
    PROVE  HasFirst(y, S)
<1> DEFINE h == y[1]
           t == SubSeq(y, 2, Len(y))
<1>1. Len(y) \in Nat /\ 1 \in 1..Len(y) /\ Len(y) \in 1..Len(y) /\ 1 + 1 = 2
  BY LenProperties
<1>2. h \in S /\ \A i \in 2..Len(y) : y[i] \in S
  BY <1>1, ElementOfSeq
<1>3. SubSeq(y, 1, Len(y)) = <<h>> \o SubSeq(y, 1 + 1, Len(y))
  <2> DEFINE n == Len(y)
             m == 1
  <2>1. m \in 1..Len(y) /\ n \in m..Len(y)
    BY <1>1
  <2> HIDE DEF n, m
  <2>2. SubSeq(y, m, n) = <<y[m]>> \o SubSeq(y, m + 1, n)
    BY <2>1, SubSeqRecursiveFirst
  <2> QED
    BY <2>2 DEF n, m
<1>4. SubSeq(y, 1, Len(y)) = y
  BY SubSeqFull
<1>5. t \in Seq(S) /\ Len(t) = IF 2 <= Len(y) THEN Len(y) - 2 + 1 ELSE 0
  BY <1>1, <1>2, SubSeqProperties
<1>6. Len(y) = Len(t) + 1
  <2> DEFINE n == Len(y)
             m == Len(t)
  <2>1. n \in Nat /\ n # 0 /\ m = IF 2 <= n THEN n - 2 + 1 ELSE 0
    BY <1>1, <1>5
  <2> HIDE DEF n, m
  <2>2. n = m + 1
    BY <2>1
  <2> QED
    BY <2>2 DEF n, m
<1>7. y = <<h>> \o t
  BY <1>1, <1>3, <1>4
<1> HIDE DEF h, t
<1> QED
  BY <1>2, <1>5, <1>6, <1>7 DEF HasFirst

(* r is s, then t.                                                         *)
Joined(r, s, t) ==
    /\ Len(r) = Len(s) + Len(t)
    /\ \A i \in 1..Len(s) : r[i] = s[i]
    /\ \A i \in 1..Len(t) : r[Len(s) + i] = t[i]

LEMMA Joins ==
    ASSUME NEW S, NEW s \in Seq(S), NEW t \in Seq(S)
    PROVE  s \o t \in Seq(S) /\ Joined(s \o t, s, t)
<1> DEFINE r == s \o t
           n == Len(s)
           m == Len(t)
<1>1. n \in Nat /\ m \in Nat
  BY LenProperties
<1>2. r \in Seq(S) /\ Len(r) = n + m /\ \A i \in 1..(n + m) : r[i] = IF i <= n THEN s[i] ELSE t[i - n]
  BY ConcatProperties
<1> HIDE DEF r, n, m
<1>3. ASSUME NEW i \in 1..n PROVE r[i] = s[i]
  BY <1>1, <1>2
<1>4. ASSUME NEW i \in 1..m PROVE r[n + i] = t[i]
  <2>1. n + i \in 1..(n + m) /\ ~(n + i <= n) /\ (n + i) - n = i
    BY <1>1
  <2> QED
    BY <1>2, <2>1
<1> QED
  BY <1>2, <1>3, <1>4 DEF Joined, r, n, m

LEMMA AsReplayedType ==
    ASSUME NEW s \in Seq(Item)
    PROVE  /\ AsReplayed(s) \in Seq(Run) /\ Len(AsReplayed(s)) = Len(s)
           /\ \A i \in 1..Len(s) : AsReplayed(s)[i] = SlotsOf(s[i])
<1> DEFINE n == Len(s)
<1>1. n \in Nat /\ DOMAIN s = 1..n /\ \A i \in 1..n : s[i] \in Item
  BY LenProperties, ElementOfSeq
<1> HIDE DEF n
<1>2. AsReplayed(s) = [i \in 1..n |-> SlotsOf(s[i])]
  BY <1>1 DEF AsReplayed
<1>3. \A i \in 1..n : SlotsOf(s[i]) \in Run
  BY <1>1, SlotsType DEF Run
<1> DEFINE a == [i \in 1..n |-> SlotsOf(s[i])]
<1>4. a \in Seq(Run) /\ Len(a) = n
  BY <1>1, <1>3
<1> QED
  BY <1>2, <1>4 DEF n

JoinsReplayed(s, t) == AsReplayed(s \o t) = AsReplayed(s) \o AsReplayed(t)

LEMMA AsReplayedConcat ==
    ASSUME NEW s \in Seq(Item), NEW t \in Seq(Item)
    PROVE  JoinsReplayed(s, t)
<1> DEFINE n == Len(s)
           m == Len(t)
           r == s \o t
           a == AsReplayed(s)
           e == AsReplayed(t)
           c == AsReplayed(r)
<1>1. n \in Nat /\ m \in Nat
  BY LenProperties
<1>2. r \in Seq(Item) /\ Joined(r, s, t)
  BY Joins
<1> HIDE DEF r
<1>3. /\ a \in Seq(Run) /\ Len(a) = n /\ \A i \in 1..n : a[i] = SlotsOf(s[i])
      /\ e \in Seq(Run) /\ Len(e) = m /\ \A i \in 1..m : e[i] = SlotsOf(t[i])
      /\ c \in Seq(Run) /\ Len(c) = Len(r) /\ \A i \in 1..Len(r) : c[i] = SlotsOf(r[i])
  BY <1>2, AsReplayedType
<1> HIDE DEF a, e, c
<1> DEFINE g == a \o e
<1>4. g \in Seq(Run) /\ Joined(g, a, e)
  BY <1>3, Joins
<1> HIDE DEF g, n, m
<1>5. ASSUME NEW i \in 1..(n + m) PROVE c[i] = g[i]
  <2>1. i \in 1..Len(r) /\ c[i] = SlotsOf(r[i])
    BY <1>2, <1>3 DEF Joined, n, m
  <2>2. CASE i <= n
    <3>1. i \in 1..n
      BY <1>1, <2>2
    <3> QED
      BY <1>2, <1>3, <1>4, <2>1, <3>1 DEF Joined, n
  <2>3. CASE ~(i <= n)
    <3> DEFINE k == i - n
    <3>1. k \in 1..m /\ i = n + k
      BY <1>1, <2>3
    <3> HIDE DEF k
    <3>2. r[n + k] = t[k] /\ g[n + k] = e[k]
      BY <1>2, <1>3, <1>4, <3>1 DEF Joined, n, m
    <3> QED
      BY <1>3, <2>1, <3>1, <3>2
  <2> QED
    BY <2>2, <2>3
<1>6. c \in Seq(Run) /\ g \in Seq(Run) /\ Len(c) = n + m /\ Len(g) = n + m
  BY <1>2, <1>3, <1>4 DEF Joined, n, m
<1>7. c = g
  BY <1>5, <1>6, SeqEqual
<1> QED
  BY <1>7 DEF JoinsReplayed, c, g, r, a, e

LEMMA OneItem ==
    ASSUME NEW x \in Item
    PROVE  /\ <<x>> \in Seq(Item)
           /\ AsReplayed(<<x>>) = <<SlotsOf(x)>>
           /\ Recorded(<<x>>) = SlotsOf(x)
<1> DEFINE s == <<x>>
<1>1. s \in Seq(Item) /\ Len(s) = 1 /\ s[1] = x /\ DOMAIN s = 1..1
  OBVIOUS
<1> HIDE DEF s
<1> DEFINE a == AsReplayed(s)
<1>2. a \in Seq(Run) /\ Len(a) = 1 /\ a[1] = SlotsOf(x)
  <2>1. 1 \in 1..1
    OBVIOUS
  <2> QED
    BY <1>1, <2>1, AsReplayedType
<1> HIDE DEF a
<1>3. a = <<a[1]>>
  BY <1>2, OneElement
<1>4. Recorded(s) = Mapped(SlotsW, s)
  BY <1>1, RecordedMapped
<1>5. Mapped(SlotsW, <<x>>) = SlotsW[x]
  BY SlotsWType, MappedOne, Zenon
<1>6. SlotsW[x] = SlotsOf(x)
  BY DEF SlotsW
<1> QED
  BY <1>1, <1>2, <1>3, <1>4, <1>5, <1>6 DEF s, a

(* The batch b replays item h after the slots p, before the slots q.       *)
Replays(b, p, h, q) ==
    /\ b \in Seq(Slot) /\ Len(b) = Len(p) + Slots(h) + Len(q)
    /\ GivenAt(b, Len(p) + 1) = <<SlotsOf(h)>>
    /\ NextAt(b, Len(p) + 1) = Slots(h)

LEMMA ItemReplayed ==
    ASSUME NEW p \in Seq(Slot), NEW h \in Item, NEW q \in Seq(Slot)
    PROVE  Replays(p \o (SlotsOf(h) \o q), p, h, q)
<1> DEFINE r == SlotsOf(h)
           z == Slots(h)
           n == Len(p)
           m == Len(q)
           i == n + 1
           b == p \o (SlotsOf(h) \o q)
<1>1. n \in Nat /\ m \in Nat /\ SnapSlots \in Nat /\ SnapSlots >= 2
  BY LenProperties
<1>2. z \in Nat \ {0} /\ r \in Seq(Slot) /\ Len(r) = z /\ \A k \in 1..z : r[k] = <<h, k>>
  BY SlotsType
<1> DEFINE t == r \o q
<1> HIDE DEF r, z
<1>3. t \in Seq(Slot) /\ Joined(t, r, q)
  BY <1>2, Joins
<1> HIDE DEF t
<1>4. b \in Seq(Slot) /\ Joined(b, p, t)
  <2>1. p \o t \in Seq(Slot) /\ Joined(p \o t, p, t)
    BY <1>3, Joins
  <2> QED
    BY <2>1 DEF t, r
<1> HIDE DEF n, m, i, b
<1>5. Len(t) = z + m /\ Len(b) = n + (z + m)
  BY <1>2, <1>3, <1>4 DEF Joined, n, m
<1>6. ASSUME NEW k \in 1..z PROVE b[i + k - 1] = r[k] /\ b[i + k - 1] = <<h, k>>
  <2>1. i + k - 1 = n + k /\ k \in 1..(z + m)
    BY <1>1, <1>2 DEF i
  <2>2. b[n + k] = t[k]
    BY <1>4, <1>5, <2>1 DEF Joined, n
  <2>3. t[k] = r[k]
    BY <1>2, <1>3, <2>1 DEF Joined
  <2> QED
    BY <1>2, <2>1, <2>2, <2>3
<1>7. b[i] = <<h, 1>> /\ i \in Nat \ {0} /\ i <= Len(b)
  <2>1. 1 \in 1..z /\ i + 1 - 1 = i
    BY <1>1, <1>2 DEF i
  <2>2. b[i] = <<h, 1>>
    BY <1>6, <2>1
  <2> QED
    BY <1>1, <1>2, <1>5, <2>2 DEF i
<1>8. CASE h[1] = "snap"
  <2>1. z = SnapSlots
    BY <1>8 DEF z, Slots
  <2>2. i + SnapSlots - 1 <= Len(b) /\ i + SnapSlots - 1 \in Nat /\ i <= i + SnapSlots - 1 /\ (i + SnapSlots - 1) - i + 1 = SnapSlots
    <3> DEFINE l == Len(b)
    <3>1. l = n + (SnapSlots + m) /\ i = n + 1
      BY <1>5, <2>1 DEF i
    <3> HIDE DEF l
    <3>2. i + SnapSlots - 1 <= l /\ i + SnapSlots - 1 \in Nat /\ i <= i + SnapSlots - 1 /\ (i + SnapSlots - 1) - i + 1 = SnapSlots
      BY <1>1, <3>1
    <3> QED
      BY <3>2 DEF l
  <2>3. \A j \in i..(i + SnapSlots - 1) : IsReg(b[j])
    <3> TAKE j \in i..(i + SnapSlots - 1)
    <3> DEFINE k == j - i + 1
    <3>1. k \in 1..z /\ i + k - 1 = j
      <4>1. i \in Nat
        BY <1>7
      <4> QED
        BY <1>1, <2>1, <4>1
    <3> HIDE DEF k
    <3>2. b[j] = <<h, k>>
      BY <1>6, <3>1
    <3> QED
      BY <1>8, <3>2 DEF IsReg
  <2>4. Applies(b, i) /\ IsReg(b[i])
    <3>1. IsReg(b[i])
      BY <1>7, <1>8 DEF IsReg
    <3> QED
      BY <2>2, <2>3, <3>1 DEF Applies
  <2> DEFINE e == i + SnapSlots - 1
             g == SubSeq(b, i, e)
  <2>5. g \in Run /\ Len(g) = SnapSlots /\ \A k \in 1..SnapSlots : g[k] = b[i + k - 1]
    <3> HIDE DEF e
    <3>1. e \in Nat /\ e <= Len(b) /\ i <= e /\ e - i + 1 = SnapSlots
      BY <2>2 DEF e
    <3>2. /\ SubSeq(b, i, e) \in Run
          /\ Len(SubSeq(b, i, e)) = IF i <= e THEN e - i + 1 ELSE 0
          /\ \A k \in 1..(e - i + 1) : SubSeq(b, i, e)[k] = b[i + k - 1]
      BY <1>4, <1>7, <3>1, PartType
    <3> QED
      BY <3>1, <3>2
  <2> HIDE DEF g
  <2>6. g = r
    <3>1. g \in Seq(Slot) /\ r \in Seq(Slot) /\ Len(g) = Len(r) /\ \A k \in 1..Len(g) : g[k] = r[k]
      BY <1>2, <1>6, <2>1, <2>5 DEF Run
    <3> QED
      BY <3>1, SeqEqual
  <2>7. GivenAt(b, i) = <<g>> /\ NextAt(b, i) = z
    BY <2>1, <2>4 DEF GivenAt, NextAt, g
  <2> QED
    BY <1>1, <1>2, <1>4, <1>5, <2>6, <2>7, SMTT(20) DEF r, i, z, n, m, b, Replays
<1>9. CASE h[1] # "snap"
  <2>1. z = 1
    BY <1>9 DEF z, Slots
  <2>2. r = <<r[1]>> /\ r[1] = <<h, 1>>
    BY <1>2, <2>1, OneElement
  <2>3. ~IsReg(b[i])
    BY <1>7, <1>9 DEF IsReg
  <2>4. GivenAt(b, i) = <<<<b[i]>>>> /\ NextAt(b, i) = 1
    BY <2>3 DEF GivenAt, NextAt
  <2>5. GivenAt(b, i) = <<r>>
    BY <1>7, <2>2, <2>4
  <2> QED
    BY <1>1, <1>2, <1>4, <1>5, <2>1, <2>4, <2>5 DEF r, i, z, n, m, b, Replays
<1> QED
  BY <1>8, <1>9


LEMMA RecordedFirst ==
    ASSUME NEW h \in Item, NEW t \in Seq(Item)
    PROVE  /\ <<h>> \o t \in Seq(Item)
           /\ Recorded(<<h>> \o t) = SlotsOf(h) \o Recorded(t)
           /\ AsReplayed(<<h>> \o t) = <<SlotsOf(h)>> \o AsReplayed(t)
<1> DEFINE s == <<h>>
<1>1. s \in Seq(Item) /\ AsReplayed(s) = <<SlotsOf(h)>> /\ Recorded(s) = SlotsOf(h)
  BY OneItem
<1> HIDE DEF s
<1>2. s \o t \in Seq(Item)
  BY <1>1, ConcatProperties
<1>3. Recorded(s \o t) = Recorded(s) \o Recorded(t)
  BY <1>1, RecordedConcat
<1>4. JoinsReplayed(s, t)
  BY <1>1, AsReplayedConcat
<1>5. AsReplayed(s \o t) = <<SlotsOf(h)>> \o AsReplayed(t)
  BY <1>1, <1>4 DEF JoinsReplayed
<1> QED
  BY <1>1, <1>2, <1>3, <1>5 DEF s

LEMMA WholeBatch ==
    ASSUME NEW u \in Seq(Item)
    PROVE  ReplayedBatch(Recorded(u)) = AsReplayed(u)
<1> DEFINE b == Recorded(u)
           At0(x) == Len(Recorded(x)) + 1
<1>1. b \in Seq(Slot)
  BY RecordedType
<1>2. PICK f : BatchFrom(f, b) /\ ReplayedBatch(b) = f[1]
  BY <1>1, BatchRecursion
<1>3. SnapSlots \in Nat /\ Len(b) \in Nat
  BY <1>1, LenProperties
<1> DEFINE T == {n \in Nat : \A x, y \in Seq(Item) : (x \o y = u /\ Len(y) = n) => f[At0(x)] = AsReplayed(y)}
<1>4. 0 \in T
  <2> SUFFICES ASSUME NEW x \in Seq(Item), NEW y \in Seq(Item), x \o y = u, Len(y) = 0
               PROVE  f[At0(x)] = AsReplayed(y)
    OBVIOUS
  <2>1. y = <<>>
    BY EmptySeq
  <2>2. x = u
    <3>1. x \o <<>> = x
      BY ConcatEmptySeq
    <3> QED
      BY <2>1, <3>1
  <2>3. AsReplayed(y) = <<>>
    <3> DEFINE a == AsReplayed(y)
    <3>1. a \in Seq(Run) /\ Len(a) = 0
      BY AsReplayedType
    <3> HIDE DEF a
    <3>2. a = <<>>
      BY <3>1, EmptySeq
    <3> QED
      BY <3>2 DEF a
  <2>4. At0(x) = Len(b) + 1
    BY <2>2
  <2> HIDE DEF b, At0
  <2>5. Len(b) + 1 \in 1..(Len(b) + SnapSlots + 1) /\ Len(b) + 1 > Len(b)
    BY <1>3
  <2> QED
    BY <1>2, <2>3, <2>4, <2>5 DEF BatchFrom
<1>5. ASSUME NEW n \in Nat, n \in T PROVE n + 1 \in T
  <2>0. n + 1 \in Nat
    OBVIOUS
  <2> SUFFICES ASSUME NEW x \in Seq(Item), NEW y \in Seq(Item), x \o y = u, Len(y) = n + 1
               PROVE  f[At0(x)] = AsReplayed(y)
    <3> HIDE DEF At0
    <3> QED
      BY <2>0
  <2>1. Len(y) # 0
    OBVIOUS
  <2>17. HasFirst(y, Item)
    BY <2>1, FirstAndRest
  <2>2. PICK h \in Item, t \in Seq(Item) : y = <<h>> \o t /\ Len(y) = Len(t) + 1
    BY <2>17 DEF HasFirst
  <2>3. Len(t) = n
    <3> DEFINE m == Len(t)
    <3>1. m \in Nat /\ m + 1 = n + 1
      BY <2>2, LenProperties
    <3> HIDE DEF m
    <3>2. m = n
      BY <3>1
    <3> QED
      BY <3>2 DEF m
  <2> DEFINE s == <<h>>
             p == Recorded(x)
             q == Recorded(t)
             i == Len(p) + 1
             z == Slots(h)
  <2>4. s \in Seq(Item) /\ Recorded(s) = SlotsOf(h) /\ AsReplayed(s) = <<SlotsOf(h)>>
    BY OneItem
  <2>5. y \in Seq(Item) /\ Recorded(y) = SlotsOf(h) \o q /\ AsReplayed(y) = <<SlotsOf(h)>> \o AsReplayed(t)
    BY <2>2, RecordedFirst
  <2>6. b = p \o (SlotsOf(h) \o q)
    BY <2>5, RecordedConcat
  <2>7. p \in Seq(Slot) /\ q \in Seq(Slot)
    BY RecordedType
  <2> HIDE DEF b, p, q
  <2>8. /\ Len(b) = Len(p) + z + Len(q)
        /\ GivenAt(b, i) = <<SlotsOf(h)>> /\ NextAt(b, i) = z
    <3>1. Replays(p \o (SlotsOf(h) \o q), p, h, q)
      BY <2>7, ItemReplayed
    <3> QED
      BY <2>6, <3>1 DEF Replays
  <2>9. z \in Nat \ {0} /\ z <= SnapSlots /\ Len(SlotsOf(h)) = z /\ SlotsOf(h) \in Seq(Slot)
    BY SlotsType
  <2>10. Len(p) \in Nat /\ Len(q) \in Nat
    BY <2>7, LenProperties
  <2>11. i \in 1..(Len(b) + SnapSlots + 1) /\ ~(i > Len(b))
    <3> DEFINE k == Len(p)
               l == Len(q)
               m == Len(b)
    <3> HIDE DEF z
    <3>1. k \in Nat /\ l \in Nat /\ m = k + z + l /\ i = k + 1
      BY <2>8, <2>10
    <3> HIDE DEF k, l, m, i
    <3>4. z \in Nat \ {0}
      BY <2>9
    <3>3. z \in Nat /\ z >= 1
      BY <3>4
    <3>2. i \in 1..(m + SnapSlots + 1) /\ ~(i > m)
      BY <1>3, <3>1, <3>3
    <3> QED
      BY <3>2 DEF m
  <2>12. f[i] = <<SlotsOf(h)>> \o f[i + z]
    <3> HIDE DEF i, z
    <3>1. f[i] = IF i > Len(b) THEN <<>> ELSE GivenAt(b, i) \o f[i + NextAt(b, i)]
      BY <1>2, <2>11 DEF BatchFrom
    <3> QED
      BY <2>8, <2>11, <3>1
  <2> DEFINE xs == x \o s
  <2>13. xs \in Seq(Item) /\ xs \o t = u
    <3>1. Associates(x, s, t)
      BY <2>4, Association
    <3>2. x \o s \in Seq(Item)
      BY <2>4, ConcatProperties
    <3> QED
      BY <2>2, <3>1, <3>2 DEF Associates
  <2>14. At0(xs) = i + z
    <3>1. Recorded(xs) = p \o SlotsOf(h)
      <4>1. Recorded(x \o s) = Recorded(x) \o Recorded(s)
        BY <2>4, RecordedConcat
      <4> QED
        BY <2>4, <4>1 DEF p
    <3>2. Len(p \o SlotsOf(h)) = Len(p) + z
      BY <2>7, <2>9, ConcatProperties
    <3> DEFINE k == Len(p)
    <3> HIDE DEF xs, k, z
    <3>3. At0(xs) = (k + z) + 1 /\ k \in Nat /\ z \in Nat
      BY <2>9, <2>10, <3>1, <3>2 DEF k
    <3>4. (k + z) + 1 = (k + 1) + z
      BY <3>3
    <3> QED
      BY <3>3, <3>4 DEF k
  <2>15. f[At0(xs)] = AsReplayed(t)
    <3> HIDE DEF At0, xs
    <3> QED
      BY <1>5, <2>3, <2>13
  <2>16. At0(x) = i
    BY DEF p
  <2> HIDE DEF At0, xs, i, z
  <2> QED
    BY <2>5, <2>12, <2>14, <2>15, <2>16
<1>6. Len(u) \in T
  <2> HIDE DEF T
  <2>1. Len(u) \in Nat
    BY LenProperties
  <2> QED
    BY <1>4, <1>5, <2>1, NatByInduction
<1>7. <<>> \in Seq(Item) /\ <<>> \o u = u
  BY ConcatEmptySeq
<1>8. At0(<<>>) = 1
  BY RecordedEmpty
<1> DEFINE e == <<>>
<1> HIDE DEF At0
<1>9. f[At0(e)] = AsReplayed(u)
  <2>1. e \in Seq(Item) /\ e \o u = u
    BY <1>7
  <2> HIDE DEF e
  <2> QED
    BY <1>6, <2>1
<1> QED
  BY <1>2, <1>8, <1>9


-----------------------------------------------------------------------------
(* Where no snapshot crosses the end of a batch, the batches are of whole  *)
(* items.                                                                  *)

NoCross(b, e) ==
    \A i \in 1..Len(b) :
        (IsReg(b[i]) /\ b[i][2] = 1) => ~(i <= e /\ e < i + SnapSlots - 1)
CanSplit(v, e) ==
    \E x, y \in Seq(Item) : v = x \o y /\ Len(Recorded(x)) = e

(* An item and the slots that follow it.                                   *)
LEMMA FirstSlots ==
    ASSUME NEW h \in Item, NEW t \in Seq(Item)
    PROVE  /\ Len(Recorded(<<h>> \o t)) = Slots(h) + Len(Recorded(t))
           /\ \A k \in 1..Slots(h) : Recorded(<<h>> \o t)[k] = <<h, k>>
           /\ \A k \in 1..Len(Recorded(t)) : Recorded(<<h>> \o t)[Slots(h) + k] = Recorded(t)[k]
<1> DEFINE r == SlotsOf(h)
           q == Recorded(t)
           b == Recorded(<<h>> \o t)
<1>1. r \in Seq(Slot) /\ Len(r) = Slots(h) /\ \A k \in 1..Slots(h) : r[k] = <<h, k>>
  BY SlotsType
<1>2. q \in Seq(Slot)
  BY RecordedType
<1>3. b = r \o q
  BY RecordedFirst
<1> HIDE DEF b, r, q
<1>4. Joined(b, r, q)
  <2>1. Joined(r \o q, r, q)
    BY <1>1, <1>2, Joins
  <2> QED
    BY <1>3, <2>1
<1>5. /\ Len(b) = Slots(h) + Len(q)
      /\ \A k \in 1..Slots(h) : b[k] = <<h, k>>
      /\ \A k \in 1..Len(q) : b[Slots(h) + k] = q[k]
  BY <1>1, <1>4 DEF Joined
<1> QED
  BY <1>5 DEF b, q

LEMMA NoSlots ==
    ASSUME NEW v \in Seq(Item), Len(Recorded(v)) = 0
    PROVE  v = <<>>
<1>1. CASE Len(v) = 0
  BY <1>1, EmptySeq
<1>2. CASE Len(v) # 0
  <2>0. HasFirst(v, Item)
    BY <1>2, FirstAndRest
  <2>1. PICK h \in Item, t \in Seq(Item) : v = <<h>> \o t
    BY <2>0 DEF HasFirst
  <2>2. Len(Recorded(v)) = Slots(h) + Len(Recorded(t))
    BY <2>1, FirstSlots
  <2> DEFINE z == Slots(h)
             m == Len(Recorded(t))
  <2>3. z \in Nat \ {0} /\ m \in Nat
    BY SlotsType, RecordedType, LenProperties
  <2> HIDE DEF z, m
  <2>4. z + m # 0
    BY <2>3
  <2> QED
    BY <2>2, <2>4 DEF z, m
<1> QED
  BY <1>1, <1>2

LEMMA SplitAt ==
    ASSUME NEW v \in Seq(Item), NEW e \in 0..Len(Recorded(v)), NoCross(Recorded(v), e)
    PROVE  CanSplit(v, e)
<1> DEFINE Ok(w) == \A k \in 0..Len(Recorded(w)) : NoCross(Recorded(w), k) => CanSplit(w, k)
           T == {n \in Nat : \A w \in Seq(Item) : Len(w) = n => Ok(w)}
<1>1. SnapSlots \in Nat /\ SnapSlots >= 2
  OBVIOUS
<1>2. ASSUME NEW w \in Seq(Item) PROVE CanSplit(w, 0)
  <2>1. <<>> \in Seq(Item) /\ w = <<>> \o w
    BY ConcatEmptySeq
  <2>2. Len(Recorded(<<>>)) = 0
    BY RecordedEmpty
  <2> DEFINE x == <<>>
  <2>3. x \in Seq(Item) /\ w = x \o w /\ Len(Recorded(x)) = 0
    BY <2>1, <2>2
  <2> HIDE DEF x
  <2> QED
    BY <2>3 DEF CanSplit
<1>3. 0 \in T
  <2> SUFFICES ASSUME NEW w \in Seq(Item), Len(w) = 0, NEW k \in 0..Len(Recorded(w))
               PROVE  CanSplit(w, k)
    OBVIOUS
  <2>1. w = <<>>
    BY EmptySeq
  <2>2. Len(Recorded(w)) = 0
    BY <2>1, RecordedEmpty
  <2>3. k = 0
    BY <2>2
  <2> QED
    BY <1>2, <2>3
<1>4. ASSUME NEW n \in Nat, n \in T PROVE n + 1 \in T
  <2>0. n + 1 \in Nat
    OBVIOUS
  <2> SUFFICES ASSUME NEW w \in Seq(Item), Len(w) = n + 1, NEW k \in 0..Len(Recorded(w)), NoCross(Recorded(w), k)
               PROVE  CanSplit(w, k)
    BY <2>0
  <2>01. Len(w) # 0
    OBVIOUS
  <2>02. HasFirst(w, Item)
    BY <2>01, FirstAndRest
  <2>1. PICK h \in Item, t \in Seq(Item) : w = <<h>> \o t /\ Len(w) = Len(t) + 1
    BY <2>02 DEF HasFirst
  <2>2. Len(t) = n
    <3> DEFINE m == Len(t)
    <3>1. m \in Nat /\ m + 1 = n + 1
      BY <2>1, LenProperties
    <3> HIDE DEF m
    <3>2. m = n
      BY <3>1
    <3> QED
      BY <3>2 DEF m
  <2> DEFINE b == Recorded(w)
             q == Recorded(t)
             z == Slots(h)
             m == Len(q)
             s == <<h>>
  <2>3. Len(b) = z + m /\ (\A i \in 1..z : b[i] = <<h, i>>) /\ \A i \in 1..m : b[z + i] = q[i]
    BY <2>1, FirstSlots
  <2>4. z \in Nat /\ z >= 1 /\ m \in Nat
    <3>1. z \in Nat \ {0}
      BY SlotsType
    <3>2. m \in Nat
      BY RecordedType, LenProperties
    <3> HIDE DEF z, m
    <3> QED
      BY <3>1, <3>2
  <2> HIDE DEF b, q, z, m
  <2>5. k \in 0..(z + m) /\ NoCross(b, k)
    BY <2>3 DEF b
  <2>10. k \in 0..(z + m)
    BY <2>5
  <2>11. z \in Nat
    BY <2>4
  <2>6. CASE k = 0
    BY <1>2, <2>6
  <2>7. CASE k # 0 /\ k < z
    <3>4. z # 1
      BY <2>4, <2>5, <2>7
    <3>5. z = SnapSlots /\ h[1] = "snap"
      BY <3>4 DEF z, Slots
    <3>1. 1 \in 1..z /\ 1 \in 1..(z + m) /\ 1 <= k /\ k < 1 + SnapSlots - 1
      BY <1>1, <2>4, <2>5, <2>7, <3>5
    <3>2. b[1] = <<h, 1>>
      BY <2>3, <3>1
    <3>3. IsReg(b[1]) /\ b[1][2] = 1
      BY <3>2, <3>5 DEF IsReg
    <3> QED
      BY <2>3, <2>5, <3>1, <3>3 DEF NoCross
  <2>8. CASE k >= z
    <3> DEFINE l == k - z
    <3>1. l \in 0..m /\ k = z + l
      BY <2>4, <2>8, <2>10
    <3> HIDE DEF l
    <3>2. NoCross(q, l)
      <4> SUFFICES ASSUME NEW i \in 1..m, IsReg(q[i]), q[i][2] = 1, i <= l, l < i + SnapSlots - 1
                   PROVE  FALSE
        BY DEF NoCross, m
      <4> DEFINE p == z + i
      <4>1. p \in 1..(z + m) /\ p <= k /\ k < p + SnapSlots - 1
        BY <1>1, <2>4, <3>1
      <4>2. b[p] = q[i]
        BY <2>3
      <4> HIDE DEF p
      <4> QED
        BY <2>3, <2>5, <4>1, <4>2 DEF NoCross
    <3>3. CanSplit(t, l)
      <4>1. Ok(t)
        BY <1>4, <2>2
      <4> QED
        BY <3>1, <3>2, <4>1 DEF q, m
    <3>4. PICK x, y \in Seq(Item) : t = x \o y /\ Len(Recorded(x)) = l
      BY <3>3 DEF CanSplit
    <3> DEFINE g == s \o x
    <3>5. s \in Seq(Item)
      BY OneItem
    <3>6. g \in Seq(Item) /\ w = g \o y
      <4>1. Associates(s, x, y)
        BY <3>4, <3>5, Association
      <4>2. s \o x \in Seq(Item)
        BY <3>4, <3>5, ConcatProperties
      <4> QED
        BY <2>1, <3>4, <4>1, <4>2 DEF Associates
    <3>7. Len(Recorded(g)) = z + l
      BY <3>4, FirstSlots DEF z
    <3> HIDE DEF g
    <3> QED
      BY <3>1, <3>4, <3>6, <3>7 DEF CanSplit
  <2>9. k = 0 \/ (k # 0 /\ k < z) \/ k >= z
    BY <2>10, <2>11, SMTT(20)
  <2> QED
    BY <2>6, <2>7, <2>8, <2>9
<1>5. Len(v) \in T
  <2> HIDE DEF T
  <2>1. Len(v) \in Nat
    BY LenProperties
  <2> QED
    BY <1>3, <1>4, <2>1, NatByInduction
<1> QED
  BY <1>5

(* A snapshot whose ends are in one batch crosses the end of none.         *)
LEMMA CrossesNoEnd ==
    ASSUME NEW p \in Nat \ {0}, NEW j \in Nat,
           (p - 1) \div ReplayBatch = (p + SnapSlots - 2) \div ReplayBatch
    PROVE  ~(p <= j * ReplayBatch /\ j * ReplayBatch < p + SnapSlots - 1)
<1> SUFFICES ASSUME p <= j * ReplayBatch, j * ReplayBatch < p + SnapSlots - 1
             PROVE  FALSE
  OBVIOUS
<1> DEFINE d == ReplayBatch
           a == p - 1
           e == p + SnapSlots - 2
           q == a \div d
<1>1. d \in Nat \ {0} /\ SnapSlots \in Nat /\ SnapSlots >= 2
  OBVIOUS
<1>2. a \in Nat /\ e \in Nat /\ p = a + 1 /\ p + SnapSlots - 1 = e + 1
  BY <1>1
<1>3. e \div d = q /\ p <= j * d /\ j * d < p + SnapSlots - 1
  OBVIOUS
<1> HIDE DEF d, a, e
<1>4. q \in Nat /\ q * d <= a /\ a < q * d + d
  BY <1>1, <1>2, Quotients
<1>5. (e \div d) * d <= e /\ e < (e \div d) * d + d
  BY <1>1, <1>2, Quotients
<1> HIDE DEF q
<1>6. q * d \in Nat /\ j * d \in Nat /\ (q + 1) * d = q * d + d
  BY <1>1, <1>4, Multiples
<1> DEFINE X == q * d
           Y == j * d
<1>7. X \in Nat /\ Y \in Nat /\ X <= a /\ a < X + d /\ e < X + d /\ p <= Y /\ Y < p + SnapSlots - 1
  BY <1>3, <1>4, <1>5, <1>6
<1>8. CASE j <= q
  <2>1. Y <= X
    BY <1>1, <1>4, <1>8, Multiples
  <2> HIDE DEF X, Y
  <2> QED
    BY <1>2, <1>7, <2>1
<1>9. CASE ~(j <= q)
  <2>1. q + 1 \in Nat /\ q + 1 <= j
    BY <1>4, <1>9
  <2>2. (q + 1) * d <= Y
    BY <1>1, <2>1, Multiples
  <2>3. X + d <= Y
    BY <1>6, <2>2
  <2> HIDE DEF X, Y
  <2> QED
    BY <1>1, <1>2, <1>7, <2>3
<1> QED
  BY <1>8, <1>9


Whole(b) ==
    \A i \in 1..Len(b) :
        (IsReg(b[i]) /\ b[i][2] = 1) =>
            (i - 1) \div ReplayBatch = (i + SnapSlots - 2) \div ReplayBatch

(* The batches up to j give the items u of s, those that end with them.    *)
UpTo(s, u, v, j) ==
    /\ u \in Seq(Item) /\ v \in Seq(Item) /\ s = u \o v
    /\ Len(Recorded(u)) = BatchEnd(j, Len(Recorded(s)))

HasNext(s, u, v, j) ==
    \E x, y \in Seq(Item) :
        v = x \o y /\ UpTo(s, u \o x, y, j + 1) /\ BatchOf(Recorded(s), j + 1) = Recorded(x)

LEMMA NextBatch ==
    ASSUME NEW s \in Seq(Item), Whole(Recorded(s)), NEW j \in Nat, j + 1 \in 1..Batches(Len(Recorded(s))),
           NEW u, NEW v, UpTo(s, u, v, j)
    PROVE  HasNext(s, u, v, j)
<1> DEFINE L == Recorded(s)
           p == Recorded(u)
           r == Recorded(v)
           n == Len(L)
           m == Len(r)
           i == j + 1
           a == BatchEnd(j, n)
           e == BatchEnd(i, n)
<1>1. u \in Seq(Item) /\ v \in Seq(Item) /\ s = u \o v /\ Len(p) = a
  BY DEF UpTo
<1>2. L \in Seq(Slot) /\ p \in Seq(Slot) /\ r \in Seq(Slot)
  BY <1>1, RecordedType
<1>3. n \in Nat /\ m \in Nat
  BY <1>2, LenProperties
<1>4. L = p \o r
  BY <1>1, RecordedConcat
<1> HIDE DEF L, p, r
<1>5. Joined(L, p, r)
  <2>1. Joined(p \o r, p, r)
    BY <1>2, Joins
  <2> QED
    BY <1>4, <2>1
<1>6. Whole(L) /\ i \in 1..Batches(n) /\ i \in Nat /\ i - 1 = j
  BY DEF L
<1>7. a \in 0..n /\ e \in 0..n /\ a <= e
  <2> HIDE DEF i, n
  <2>1. Batches(n) \in Nat /\ \A k \in 0..Batches(n) : BatchEnd(k, n) \in 0..n
    BY <1>3, BatchBounds
  <2>2. \A k \in 1..Batches(n) : BatchEnd(k - 1, n) <= BatchEnd(k, n)
    BY <1>3, BatchBounds
  <2>3. i \in 0..Batches(n) /\ j \in 0..Batches(n)
    BY <1>6, <2>1
  <2> QED
    BY <1>6, <2>1, <2>2, <2>3
<1>8. e = i * ReplayBatch \/ e = n
  BY DEF BatchEnd, Least
<1>9. n = a + m /\ \A k \in 1..m : L[a + k] = r[k]
  <2>1. n = Len(p) + m /\ \A k \in 1..m : L[Len(p) + k] = r[k]
    BY <1>5 DEF Joined
  <2> QED
    BY <1>1, <2>1 DEF L, n, a
<1> HIDE DEF i, n, m, a, e
<1> DEFINE d == e - a
<1>10. d \in 0..m /\ a + d = e
  BY <1>3, <1>7, <1>9
<1> HIDE DEF d
<1>11. CanSplit(v, d)
  <2>1. CASE e = n
    <3>1. <<>> \in Seq(Item) /\ v \o <<>> = v
      BY <1>1, ConcatEmptySeq
    <3>2. Len(Recorded(v)) = d
      BY <1>3, <1>7, <1>9, <1>10, <2>1 DEF m, r
    <3> QED
      BY <1>1, <3>1, <3>2 DEF CanSplit
  <2>2. CASE e = i * ReplayBatch
    <3>1. NoCross(r, d)
      <4> SUFFICES ASSUME NEW k \in 1..m, IsReg(r[k]), r[k][2] = 1, k <= d, d < k + SnapSlots - 1
                   PROVE  FALSE
        BY DEF NoCross, m
      <4> DEFINE q == a + k
      <4>1. SnapSlots \in Nat /\ SnapSlots >= 2
        OBVIOUS
      <4>2. q \in 1..n /\ q \in Nat \ {0} /\ q <= e /\ e < q + SnapSlots - 1
        BY <1>3, <1>7, <1>9, <1>10, <4>1
      <4>3. L[q] = r[k]
        BY <1>9
      <4> HIDE DEF q
      <4>4. (q - 1) \div ReplayBatch = (q + SnapSlots - 2) \div ReplayBatch
        BY <1>6, <4>2, <4>3 DEF Whole, n
      <4>5. ~(q <= i * ReplayBatch /\ i * ReplayBatch < q + SnapSlots - 1)
        BY <1>6, <4>2, <4>4, CrossesNoEnd
      <4> QED
        BY <2>2, <4>2, <4>5
    <3> QED
      BY <1>1, <1>10, <3>1, SplitAt DEF r, m
  <2> QED
    BY <1>8, <2>1, <2>2
<1>12. PICK x, y \in Seq(Item) : v = x \o y /\ Len(Recorded(x)) = d
  BY <1>11 DEF CanSplit
<1> DEFINE f == Recorded(x)
           g == Recorded(y)
           ux == u \o x
<1>13. f \in Seq(Slot) /\ g \in Seq(Slot) /\ Len(f) = d
  BY <1>12, RecordedType
<1>14. r = f \o g
  BY <1>12, RecordedConcat DEF r
<1>15. ux \in Seq(Item) /\ s = ux \o y
  <2>1. Associates(u, x, y)
    BY <1>1, Association
  <2>2. u \o x \in Seq(Item)
    BY <1>1, ConcatProperties
  <2> QED
    BY <1>1, <1>12, <2>1, <2>2 DEF Associates
<1>16. Recorded(ux) = p \o f
  BY <1>1, RecordedConcat DEF p
<1> HIDE DEF f, g, ux
<1>17. Joined(r, f, g)
  <2>1. Joined(f \o g, f, g)
    BY <1>13, Joins
  <2> QED
    BY <1>14, <2>1
<1>18. Len(Recorded(ux)) = e
  <2>1. Joined(p \o f, p, f)
    BY <1>2, <1>13, Joins
  <2>2. Len(p \o f) = a + d
    BY <1>1, <1>13, <2>1 DEF Joined, a, n, L
  <2> QED
    BY <1>10, <1>16, <2>2
<1>19. UpTo(s, ux, y, i)
  BY <1>15, <1>18 DEF UpTo, e, n, L
<1>20. BatchOf(L, i) = f
  <2> DEFINE b == BatchOf(L, i)
  <2>1. /\ b \in Seq(Slot) /\ Len(b) = BatchEnd(i, Len(L)) - BatchEnd(i - 1, Len(L))
        /\ \A k \in 1..(BatchEnd(i, Len(L)) - BatchEnd(i - 1, Len(L))) : b[k] = L[BatchEnd(i - 1, Len(L)) + k]
    BY <1>2, <1>6, BatchOfType DEF n
  <2> HIDE DEF b
  <2>2. Len(b) = d /\ \A k \in 1..d : b[k] = L[a + k]
    BY <1>6, <2>1 DEF d, e, a, n
  <2>3. ASSUME NEW k \in 1..d PROVE b[k] = f[k]
    <3>1. k \in 1..m
      BY <1>3, <1>10
    <3>2. r[k] = f[k]
      BY <1>13, <1>17 DEF Joined
    <3> QED
      BY <1>9, <2>2, <3>1, <3>2
  <2>5. Len(b) = Len(f) /\ \A k \in 1..Len(b) : b[k] = f[k]
    BY <1>13, <2>2, <2>3
  <2>4. b = f
    BY <1>13, <2>1, <2>5, SeqEqual
  <2> QED
    BY <2>4 DEF b
<1> QED
  BY <1>12, <1>19, <1>20 DEF f, i, L, ux, HasNext

(* Where no snapshot crosses the end of a batch, the replay gives exactly  *)
(* what was recorded.                                                      *)
LEMMA ReplayWhole ==
    ASSUME NEW s \in Seq(Item), Whole(Recorded(s))
    PROVE  ReplayOf(Recorded(s)) = AsReplayed(s)
<1> DEFINE L == Recorded(s)
           n == Len(L)
           m == Batches(n)
           c == [j \in 1..m |-> ReplayedBatch(BatchOf(L, j))]
           Done(j) == \E u, v : UpTo(s, u, v, j) /\ Cat(c, j) = AsReplayed(u)
           T == {j \in Nat : j <= m => Done(j)}
<1>1. L \in Seq(Slot)
  BY RecordedType
<1>2. n \in Nat /\ m \in Nat
  BY <1>1, LenProperties, BatchBounds
<1> HIDE DEF L
<1>3. ASSUME NEW j \in 1..m
      PROVE  c[j] \in Seq(Run) /\ c[j] = ReplayedBatch(BatchOf(L, j))
  <2>1. BatchOf(L, j) \in Seq(Slot)
    BY <1>1, BatchOfType
  <2> DEFINE b == BatchOf(L, j)
  <2> HIDE DEF b
  <2>2. ReplayedBatch(b) \in Seq(Run)
    BY <2>1, BatchEvents DEF b
  <2> QED
    BY <2>2 DEF b
<1> HIDE DEF c, m
<1>4. CatLaws(c, m, Run)
  <2>1. Parts(c, m, Run)
    BY <1>3 DEF Parts
  <2> QED
    BY <1>2, <2>1, CatStep
<1>5. 0 \in T
  <2> DEFINE u == <<>>
  <2>1. u \in Seq(Item) /\ u \o s = s
    BY ConcatEmptySeq
  <2>2. AsReplayed(u) = <<>>
    <3> DEFINE a == AsReplayed(u)
    <3>1. a \in Seq(Run) /\ Len(a) = Len(u)
      BY <2>1, AsReplayedType
    <3> HIDE DEF a
    <3>2. a = <<>>
      BY <3>1, EmptySeq
    <3> QED
      BY <3>2 DEF a
  <2>3. Len(Recorded(u)) = 0 /\ BatchEnd(0, n) = 0
    BY <1>2, RecordedEmpty, BatchBounds
  <2>4. Cat(c, 0) = <<>>
    BY <1>4 DEF CatLaws
  <2> HIDE DEF u
  <2>5. UpTo(s, u, s, 0)
    BY <2>1, <2>3 DEF UpTo, L
  <2> QED
    BY <2>2, <2>4, <2>5
<1>6. ASSUME NEW j \in Nat, j \in T PROVE j + 1 \in T
  <2>0. j + 1 \in Nat
    OBVIOUS
  <2> SUFFICES ASSUME j + 1 <= m PROVE Done(j + 1)
    BY <2>0
  <2> DEFINE i == j + 1
  <2>1. j <= m /\ i \in 1..m /\ j \in 0..(m - 1) /\ j \in 0..m
    BY <1>2
  <2>2. PICK u, v : UpTo(s, u, v, j) /\ Cat(c, j) = AsReplayed(u)
    BY <1>6, <2>1
  <2>3. PICK x, y \in Seq(Item) : v = x \o y /\ UpTo(s, u \o x, y, i) /\ BatchOf(L, i) = Recorded(x)
    <3>1. j + 1 \in 1..Batches(Len(Recorded(s)))
      BY <2>1 DEF L, m
    <3>2. HasNext(s, u, v, j)
      BY <2>2, <3>1, NextBatch
    <3> QED
      BY <3>2 DEF HasNext, L
  <2>4. u \in Seq(Item)
    BY <2>2 DEF UpTo
  <2>5. Cat(c, i) = Cat(c, j) \o c[i]
    BY <1>4, <2>1 DEF CatLaws
  <2> HIDE DEF i
  <2>6. c[i] = ReplayedBatch(BatchOf(L, i))
    BY <1>3, <2>1
  <2>7. c[i] = AsReplayed(x)
    BY <2>3, <2>6, WholeBatch
  <2>8. JoinsReplayed(u, x)
    BY <2>4, AsReplayedConcat
  <2>9. Cat(c, i) = AsReplayed(u \o x)
    BY <2>2, <2>5, <2>7, <2>8 DEF JoinsReplayed
  <2>10. Done(i)
    BY <2>3, <2>9
  <2> QED
    BY <2>10 DEF i
<1>7. Done(m)
  <2>1. m \in T
    <3> HIDE DEF T
    <3> QED
      BY <1>2, <1>5, <1>6, NatByInduction
  <2> QED
    BY <1>2, <2>1
<1>8. PICK u, v : UpTo(s, u, v, m) /\ Cat(c, m) = AsReplayed(u)
  BY <1>7
<1>9. u \in Seq(Item) /\ v \in Seq(Item) /\ s = u \o v /\ Len(Recorded(u)) = n
  <2>1. BatchEnd(m, n) = n
    BY <1>2, BatchBounds DEF m
  <2> QED
    BY <1>8, <2>1 DEF UpTo, L
<1>10. v = <<>>
  <2> DEFINE p == Recorded(u)
             r == Recorded(v)
  <2>1. p \in Seq(Slot) /\ r \in Seq(Slot)
    BY <1>9, RecordedType
  <2>2. L = p \o r
    BY <1>9, RecordedConcat DEF L
  <2> HIDE DEF p, r
  <2>3. Len(p \o r) = Len(p) + Len(r) /\ Len(p) \in Nat /\ Len(r) \in Nat
    BY <2>1, ConcatProperties, LenProperties
  <2> DEFINE k == Len(p)
             l == Len(r)
  <2>4. k = n /\ n = k + l /\ k \in Nat /\ l \in Nat
    BY <1>9, <2>2, <2>3 DEF p
  <2> HIDE DEF k, l, n
  <2>5. l = 0
    BY <2>4
  <2> QED
    BY <1>9, <2>5, NoSlots DEF l, r
<1>11. u = s
  BY <1>9, <1>10, ConcatEmptySeq
<1>12. ReplayOf(L) = Cat(c, m)
  BY DEF ReplayOf, c, m
<1> QED
  BY <1>8, <1>11, <1>12 DEF L


-----------------------------------------------------------------------------
LEMMA EmptyReplay ==
    ASSUME count = 0
    PROVE  Replayed = <<>>
<1> DEFINE c == [j \in 1..0 |-> <<>>]
           P(j) == ReplayedBatch(SubSeq(log, (j - 1) * ReplayBatch + 1, Least(j * ReplayBatch, count)))
<1>1. (count + ReplayBatch - 1) \div ReplayBatch = 0
  <2> DEFINE a == ReplayBatch - 1
             q == a \div ReplayBatch
  <2>1. a \in Nat /\ count + ReplayBatch - 1 = a /\ ReplayBatch \in Nat \ {0} /\ a < ReplayBatch
    OBVIOUS
  <2> HIDE DEF a
  <2>2. q \in Nat /\ q * ReplayBatch <= a
    BY <2>1, Quotients
  <2> HIDE DEF q
  <2>3. ASSUME q # 0 PROVE FALSE
    <3>1. 1 <= q /\ 1 * ReplayBatch = ReplayBatch
      BY <2>1, <2>2, <2>3
    <3> DEFINE X == q * ReplayBatch
    <3>2. ReplayBatch <= X /\ X \in Nat
      BY <2>1, <2>2, <3>1, Multiples
    <3>3. X <= a
      BY <2>2
    <3> HIDE DEF X
    <3> QED
      BY <2>1, <3>2, <3>3
  <2> QED
    BY <2>1, <2>3 DEF q
<1>2. [j \in 1..0 |-> c[j]] = [j \in 1..0 |-> P(j)]
  <2> HIDE DEF P
  <2> QED
    OBVIOUS
<1>3. Cat(c, 0) = <<>>
  BY CatIsFlat
<1> HIDE DEF c
<1> QED
  BY <1>1, <1>2, <1>3 DEF Replayed, Cat

LEMMA SessionReplays == IInv => RecordingReplays
<1> SUFFICES ASSUME IInv PROVE RecordingReplays
  OBVIOUS
<1>1. trace \in Seq(Item) /\ log = Recorded(trace) /\ count = IF pc = "ended" THEN Len(log) ELSE 0
  BY DEF IInv, TInv, RecordInv
<1>2. log \in Seq(Slot)
  BY <1>1, RecordedType
<1>3. ASSUME pc # "ended" PROVE Replayed = <<>>
  BY <1>1, <1>3, EmptyReplay
<1>4. ASSUME pc = "ended" PROVE Replayed = ReplayOf(log)
  BY <1>1, <1>2, <1>4, ReplayedOf
<1>5. ASSUME pc = "ended" PROVE Plain(Replayed) = Plain(AsReplayed(trace))
  <2> DEFINE r == ReplayOf(log)
  <2>1. r \in Seq(Run) /\ Mapped(PlainW, r) = Mapped(EventW, log)
    BY <1>2, ReplayEvents
  <2> HIDE DEF r
  <2>2. Plain(r) = Mapped(PlainW, r)
    BY <2>1, PlainMapped
  <2>3. Plain(AsReplayed(trace)) = Mapped(EventW, Recorded(trace))
    BY <1>1, PlainRecorded
  <2> QED
    BY <1>1, <1>4, <1>5, <2>1, <2>2, <2>3 DEF r
<1>6. ASSUME pc = "ended", Aligned PROVE Replayed = AsReplayed(trace)
  <2>1. Whole(Recorded(trace))
    BY <1>1, <1>6 DEF Whole, Aligned
  <2>2. ReplayOf(Recorded(trace)) = AsReplayed(trace)
    BY <1>1, <2>1, ReplayWhole
  <2> QED
    BY <1>1, <1>4, <1>6, <2>2
<1> QED
  BY <1>3, <1>5, <1>6 DEF RecordingReplays

(* Once run has returned its recording replays: every event processed, in   *)
(* order, whatever the batches of run_replay cut off, and every snapshot   *)
(* too when no batch ends inside one; until then the recording replays as  *)
(* empty (EventRecorder::finish, read_batch, run_replay).                  *)
THEOREM RecordingAlwaysReplays == Spec => []RecordingReplays
<1> QED
  BY SessionReplays, SessionInvariant, PTL

==============================================================================
