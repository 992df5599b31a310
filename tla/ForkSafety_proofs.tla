------------------------- MODULE ForkSafety_proofs -------------------------
(* Invariants of RtmapFork for any number of processes and any limits: the *)
(* tracker's parallel vectors stay aligned through every swap_remove.      *)
EXTENDS RtmapFork, FiniteSetTheorems, TLAPS

(* No element occurs twice.                                                *)
Distinct(s) == \A i, j \in DOMAIN s : s[i] = s[j] => i = j

-----------------------------------------------------------------------------
(* Sequences without repetition.                                           *)

(* The elements of a sequence, by position.                                *)
LEMMA ElemsOf ==
    ASSUME NEW S, NEW s \in Seq(S)
    PROVE  /\ DOMAIN s = 1 .. Len(s)
           /\ Len(s) \in Nat
           /\ Elems(s) \subseteq S
           /\ \A i \in 1 .. Len(s) : s[i] \in S /\ s[i] \in Elems(s)
           /\ \A x \in Elems(s) : \E i \in 1 .. Len(s) : s[i] = x
BY DEF Elems

(* A vector without repetitions has as many elements as entries.           *)
LEMMA DistinctCardinality ==
    ASSUME NEW S, NEW s \in Seq(S), Distinct(s)
    PROVE  Cardinality(Elems(s)) = Len(s)
<1>1. DOMAIN s = 1 .. Len(s) /\ Len(s) \in Nat
  OBVIOUS
<1>2. s \in Bijection(1 .. Len(s), Elems(s))
  BY <1>1 DEF Distinct, Elems, Bijection, Injection, Surjection, IsInjective
<1>3. ExistsBijection(1 .. Len(s), Elems(s))
  BY <1>2 DEF ExistsBijection
<1>4. IsFiniteSet(1 .. Len(s)) /\ Cardinality(1 .. Len(s)) = Len(s)
  BY SMTT(30), <1>1, FS_Interval
<1> QED
  BY <1>3, <1>4, FS_Bijection

(* Vec::push of an element that is not there yet.                          *)
LEMMA AppendDistinct ==
    ASSUME NEW S, NEW s \in Seq(S), NEW x \in S
    PROVE  /\ Append(s, x) \in Seq(S)
           /\ Len(Append(s, x)) = Len(s) + 1
           /\ \A i \in 1 .. Len(s) : Append(s, x)[i] = s[i]
           /\ Append(s, x)[Len(s) + 1] = x
           /\ Elems(Append(s, x)) = Elems(s) \cup {x}
           /\ Distinct(s) /\ x \notin Elems(s) => Distinct(Append(s, x))
<1>1. /\ Append(s, x) \in Seq(S)
      /\ Len(Append(s, x)) = Len(s) + 1
      /\ \A i \in 1 .. Len(s) : Append(s, x)[i] = s[i]
      /\ Append(s, x)[Len(s) + 1] = x
  OBVIOUS
<1>2. DOMAIN Append(s, x) = 1 .. (Len(s) + 1) /\ DOMAIN s = 1 .. Len(s) /\ Len(s) \in Nat
  BY <1>1
<1>3. Elems(Append(s, x)) = Elems(s) \cup {x}
  BY <1>1, <1>2 DEF Elems
<1>4. ASSUME Distinct(s), x \notin Elems(s)
      PROVE  Distinct(Append(s, x))
  BY <1>1, <1>2, <1>4 DEF Distinct, Elems
<1> QED
  BY <1>1, <1>3, <1>4

(* Vec::swap_remove, position by position.                                 *)
LEMMA SwapRemoved ==
    ASSUME NEW S, NEW s \in Seq(S), NEW i \in 1 .. Len(s)
    PROVE  /\ SwapRemove(s, i) \in Seq(S)
           /\ Len(SwapRemove(s, i)) = Len(s) - 1
           /\ \A j \in 1 .. (Len(s) - 1) :
                 SwapRemove(s, i)[j] = IF j = i THEN s[Len(s)] ELSE s[j]
<1> DEFINE t == [s EXCEPT ![i] = s[Len(s)]]
<1>1. Len(s) \in Nat /\ Len(s) >= 1 /\ s[Len(s)] \in S
  OBVIOUS
<1>2. t \in Seq(S) /\ Len(t) = Len(s)
      /\ \A j \in 1 .. Len(s) : t[j] = IF j = i THEN s[Len(s)] ELSE s[j]
  BY <1>1
<1> HIDE DEF t
<1>3. /\ SubSeq(t, 1, Len(s) - 1) \in Seq(S)
      /\ Len(SubSeq(t, 1, Len(s) - 1)) = Len(s) - 1
      /\ \A j \in 1 .. (Len(s) - 1) : SubSeq(t, 1, Len(s) - 1)[j] = t[j]
  BY <1>1, <1>2
<1>4. SwapRemove(s, i) = SubSeq(t, 1, Len(s) - 1)
  BY DEF SwapRemove, t
<1> QED
  BY <1>1, <1>2, <1>3, <1>4

(* It takes exactly one element out of a vector without repetitions.       *)
LEMMA SwapRemoveElems ==
    ASSUME NEW S, NEW s \in Seq(S), NEW i \in 1 .. Len(s), Distinct(s)
    PROVE  /\ Elems(SwapRemove(s, i)) = Elems(s) \ {s[i]}
           /\ Distinct(SwapRemove(s, i))
<1> DEFINE t == SwapRemove(s, i)
           n == Len(s)
<1>1. n \in Nat /\ n >= 1 /\ DOMAIN s = 1 .. n /\ i \in 1 .. n
  OBVIOUS
<1>2. /\ t \in Seq(S) /\ Len(t) = n - 1
      /\ \A j \in 1 .. (n - 1) : t[j] = IF j = i THEN s[n] ELSE s[j]
  BY SwapRemoved
<1>3. DOMAIN t = 1 .. (n - 1)
  BY <1>1, <1>2
<1> HIDE DEF t, n
<1>4. Elems(t) \subseteq Elems(s) \ {s[i]}
  BY <1>1, <1>2, <1>3 DEF Elems, Distinct
<1>5. ASSUME NEW x \in Elems(s), x # s[i]
      PROVE  x \in Elems(t)
  <2>1. PICK k \in 1 .. n : s[k] = x
    BY <1>1 DEF Elems
  <2>2. CASE k = n
    BY <1>1, <1>2, <1>3, <1>5, <2>1, <2>2 DEF Elems
  <2>3. CASE k # n
    BY <1>1, <1>2, <1>3, <1>5, <2>1, <2>3 DEF Elems
  <2> QED
    BY <2>2, <2>3
<1>6. Distinct(t)
  BY <1>1, <1>2, <1>3 DEF Distinct
<1> QED
  BY <1>4, <1>5, <1>6 DEF t
-----------------------------------------------------------------------------
(* The inductive invariant.                                                *)

(* A process is tracked once.                                              *)
Once ==
    /\ Distinct(pending) /\ Distinct(children)
    /\ Elems(pending) \cap Elems(children) = {}

(* Position by position the second vector of each pair belongs to the      *)
(* process in the first.                                                   *)
Paired ==
    /\ \A i \in DOMAIN pending : since[i] = waited[pending[i]]
    /\ \A i \in DOMAIN children : empty[i] = quiet[children[i]]

(* A process that has a control ring or was found by one is past its fork: *)
(* once unlinked, its control ring does not come back.                     *)
PastFork ==
    \A p \in ctl \cup Elems(pending) : proc[p] \notin {"none", "forked"}

(* shared_regions_stale outlives every pid that may still be attached, and *)
(* a child outside the last refresh makes discover refresh.                *)
RefreshDue ==
    /\ \A p \in Elems(pending) : p \in ctl => stale
    /\ pc = "attach" => \A i \in DOMAIN pending : i < idx => pending[i] \notin ctl
    /\ pc = "retire" => \A p \in Elems(pending) : p \notin ctl
    /\ pc \in {"attach", "retire"} =>
          Elems(children) \subseteq seen \/ (attachedNew /\ stale)
    /\ pc \notin {"attach", "retire"} => Elems(children) \subseteq seen

(* Until a child is dropped or a namespace overflows, a namespace is the   *)
(* position of its child.                                                  *)
NamespaceByPosition ==
    dropped = {} /\ ~warned =>
        \A n \in 0 .. (NsSpace - 1) : \A p \in ns[n] :
            IF n = 0 THEN p = Root ELSE n \in DOMAIN children /\ p = children[n]

FInv ==
    /\ TypeOK /\ Once /\ Paired /\ PastFork /\ RefreshDue /\ NamespaceByPosition
    /\ InBandNeverRegisters

(* What TypeOK says of the vectors, in the form the proofs use.            *)
LEMMA VectorShapes ==
    ASSUME TypeOK
    PROVE  /\ pending \in Seq(Pids) /\ children \in Seq(Pids)
           /\ Len(pending) \in Nat /\ Len(children) \in Nat
           /\ DOMAIN pending = 1 .. Len(pending) /\ DOMAIN since = 1 .. Len(pending)
           /\ DOMAIN children = 1 .. Len(children) /\ DOMAIN empty = 1 .. Len(children)
           /\ Elems(pending) \subseteq Pids /\ Elems(children) \subseteq Pids
BY ElemsOf DEF TypeOK

(* The first state.                                                        *)
LEMMA ForkInit_FInv == Init => FInv
<1> SUFFICES ASSUME Init PROVE FInv
  OBVIOUS
<1>1. Elems(pending) = {} /\ Elems(children) = {}
  BY DEF Init, Elems
<1>2. TypeOK
  <2>1. /\ <<>> \in Seq(Pids) /\ <<>> \in Seq(0 .. (TTL + 1)) /\ <<>> \in Seq(0 .. EmptyLimit)
        /\ <<>> \in Seq({"FORK", "WRITE"}) /\ Len(<<>>) = Len(<<>>)
    OBVIOUS
  <2>2. 0 \in 0 .. (TTL + 1) /\ 0 \in 0 .. EmptyLimit
    BY BoundsAssumption
  <2>3. ns \in [0 .. (NsSpace - 1) -> SUBSET (Pids \cup {Root})]
    BY DEF Init
  <2>4. waited \in [Pids -> 0 .. (TTL + 1)] /\ quiet \in [Pids -> 0 .. EmptyLimit]
    BY <2>2 DEF Init
  <2>5. /\ proc \in [Pids -> {"none", "forked", "ctl", "running", "gone"}]
        /\ parent \in [Pids -> Pids \cup {Root}]
        /\ ring \in [Pids -> Seq({"FORK", "WRITE"})]
    BY <2>1 DEF Init
  <2>6. /\ pending \in Seq(Pids) /\ since \in Seq(0 .. (TTL + 1))
        /\ children \in Seq(Pids) /\ empty \in Seq(0 .. EmptyLimit)
        /\ Len(since) = Len(pending) /\ Len(empty) = Len(children)
    BY <2>1 DEF Init
  <2>7. /\ open \subseteq Elems(children) /\ idx \in Nat \ {0} /\ got \in Nat
        /\ pc \in {"loop", "scan", "expire", "attach", "retire", "drain"}
        /\ ctl \subseteq Pids /\ todo \subseteq Pids /\ inband \subseteq Pids
        /\ dropped \subseteq Pids /\ seen \subseteq Pids \cup {Root}
    BY DEF Init
  <2>8. /\ stale \in BOOLEAN /\ warned \in BOOLEAN /\ hadPending \in BOOLEAN
        /\ attachedNew \in BOOLEAN /\ cut \in BOOLEAN
    BY DEF Init
  <2> QED
    BY <2>3, <2>4, <2>5, <2>6, <2>7, <2>8 DEF TypeOK
<1>3. Once /\ Paired /\ PastFork /\ RefreshDue /\ InBandNeverRegisters
  BY <1>1 DEF Init, Once, Paired, PastFork, RefreshDue, InBandNeverRegisters, Distinct
<1>4. NamespaceByPosition
  BY DEF Init, NamespaceByPosition
<1> QED
  BY <1>2, <1>3, <1>4 DEF FInv

-----------------------------------------------------------------------------
(* Processes change neither the tracker nor the engine.                    *)

LEMMA ProcessesKeep ==
    ASSUME FInv, Processes
    PROVE  FInv'
<1>1. /\ UNCHANGED <<tracker, engine, history>>
      /\ proc' \in [Pids -> {"none", "forked", "ctl", "running", "gone"}]
      /\ parent' \in [Pids -> Pids \cup {Root}]
      /\ ring' \in [Pids -> Seq({"FORK", "WRITE"})]
      /\ ctl' \subseteq Pids
      /\ \A p \in Pids : proc[p] \notin {"none", "forked"} =>
            proc'[p] \notin {"none", "forked"} /\ (p \in ctl' => p \in ctl)
      /\ \A p \in ctl' \ ctl : proc'[p] \notin {"none", "forked"}
      /\ \A p \in ctl' : proc'[p] \notin {"none", "forked"}
  <2> USE DEF FInv, TypeOK, PastFork
  <2>1. PICK q \in Pids :
           \/ \E p \in Pids \cup {Root} : Fork(p, q)
           \/ MapCtlRing(q) \/ ForkInit(q) \/ Write(q) \/ Exit(q) \/ Kill(q)
    BY DEF Processes
  <2>2. CASE \E p \in Pids \cup {Root} : Fork(p, q)
    BY <2>2 DEF Fork
  <2>3. CASE MapCtlRing(q)
    BY <2>3 DEF MapCtlRing
  <2>4. CASE ForkInit(q)
    BY <2>4 DEF ForkInit
  <2>5. CASE Write(q)
    BY SMTT(30), <2>5 DEF Write
  <2>6. CASE Exit(q)
    BY <2>6 DEF Exit
  <2>7. CASE Kill(q)
    BY <2>7 DEF Kill
  <2> QED
    BY <2>1, <2>2, <2>3, <2>4, <2>5, <2>6, <2>7
<1>2. TypeOK'
  BY <1>1 DEF FInv, TypeOK, tracker, engine, history, Elems
<1>3. Once' /\ Paired' /\ NamespaceByPosition' /\ InBandNeverRegisters'
  <2>1. /\ Once /\ Paired /\ NamespaceByPosition /\ InBandNeverRegisters
        /\ pending' = pending /\ since' = since /\ children' = children
        /\ empty' = empty /\ waited' = waited /\ quiet' = quiet
        /\ dropped' = dropped /\ warned' = warned /\ ns' = ns /\ inband' = inband
    BY <1>1 DEF FInv, tracker, history
  <2> QED
    BY <2>1 DEF Once, Paired, NamespaceByPosition, InBandNeverRegisters
<1>4. Elems(pending) \subseteq Pids /\ \A i \in DOMAIN pending : pending[i] \in Elems(pending)
  BY VectorShapes DEF FInv, Elems
<1>5. PastFork'
  BY <1>1, <1>4 DEF FInv, PastFork, tracker, Elems
<1>6. RefreshDue'
  <2>1. /\ RefreshDue
        /\ pending' = pending /\ children' = children /\ seen' = seen /\ stale' = stale
        /\ pc' = pc /\ idx' = idx /\ attachedNew' = attachedNew
    BY <1>1 DEF FInv, tracker, engine
  <2>2. \A p \in Elems(pending) : p \in ctl' => p \in ctl
    BY <1>1, <1>4 DEF FInv, PastFork
  <2>3. Elems(pending)' = Elems(pending) /\ Elems(children)' = Elems(children)
    BY <2>1 DEF Elems
  <2> QED
    BY <1>4, <2>1, <2>2, <2>3 DEF RefreshDue
<1> QED
  BY <1>2, <1>3, <1>5, <1>6 DEF FInv

-----------------------------------------------------------------------------
(* discover                                                                *)

LEMMA DiscoverKeeps ==
    ASSUME FInv, Discover
    PROVE  FInv'
<1> USE DEF Discover, os, tracker, history
<1>1. TypeOK'
  BY DEF FInv, TypeOK, Elems
<1>2. Once' /\ Paired' /\ PastFork' /\ NamespaceByPosition' /\ InBandNeverRegisters'
  BY DEF FInv, Once, Paired, PastFork, NamespaceByPosition, InBandNeverRegisters, Elems
<1>3. RefreshDue'
  BY DEF FInv, RefreshDue, Elems
<1> QED
  BY <1>1, <1>2, <1>3 DEF FInv

(* A pid that is new to the tracker is registered.                         *)
LEMMA ScanPidKeeps ==
    ASSUME FInv, NEW p \in Pids, ScanPid(p)
    PROVE  FInv'
<1>1. /\ pc = "scan" /\ pc' = pc /\ todo' \subseteq todo
      /\ UNCHANGED <<proc, parent, ctl, ring, children, empty, open, seen, warned, idx,
                     hadPending, attachedNew, got, cut, quiet, ns, inband, dropped>>
  BY DEF ScanPid, os
<1>2. CASE UNCHANGED <<pending, since, stale, waited>>
  <2>1. TypeOK'
    BY <1>1, <1>2 DEF FInv, TypeOK, Elems
  <2>2. Once' /\ Paired' /\ PastFork' /\ NamespaceByPosition' /\ InBandNeverRegisters'
    BY <1>1, <1>2 DEF FInv, Once, Paired, PastFork, NamespaceByPosition,
                      InBandNeverRegisters, Elems
  <2>3. RefreshDue'
    BY <1>1, <1>2 DEF FInv, RefreshDue, Elems
  <2> QED
    BY <2>1, <2>2, <2>3 DEF FInv
<1>3. CASE Adoptable(p) /\ ~Refused(p)
  <2>1. /\ pending' = Append(pending, p) /\ since' = Append(since, 0) /\ stale' = TRUE
        /\ waited' = [waited EXCEPT ![p] = 0]
        /\ p \in ctl /\ p \notin Elems(pending) /\ p \notin Elems(children)
    BY <1>3 DEF ScanPid, RegisterFork, Adoptable, Refused, Attached
  <2>2. /\ pending \in Seq(Pids) /\ children \in Seq(Pids)
        /\ Len(pending) \in Nat /\ DOMAIN pending = 1 .. Len(pending)
        /\ DOMAIN children = 1 .. Len(children)
        /\ Elems(pending) \subseteq Pids /\ Elems(children) \subseteq Pids
        /\ since \in Seq(0 .. (TTL + 1)) /\ Len(since) = Len(pending)
        /\ waited \in [Pids -> 0 .. (TTL + 1)] /\ 0 \in 0 .. (TTL + 1)
    BY VectorShapes, BoundsAssumption DEF FInv, TypeOK
  <2>3. /\ pending' \in Seq(Pids) /\ Len(pending') = Len(pending) + 1
        /\ \A i \in 1 .. Len(pending) : pending'[i] = pending[i]
        /\ pending'[Len(pending) + 1] = p
        /\ Elems(pending') = Elems(pending) \cup {p}
        /\ Distinct(pending')
    BY <2>1, <2>2, AppendDistinct DEF FInv, Once
  <2>4. /\ since' \in Seq(0 .. (TTL + 1)) /\ Len(since') = Len(pending) + 1
        /\ \A i \in 1 .. Len(pending) : since'[i] = since[i]
        /\ since'[Len(pending) + 1] = 0
    BY <2>1, <2>2, AppendDistinct
  <2>5. waited' \in [Pids -> 0 .. (TTL + 1)]
    BY <2>1, <2>2
  <2>6. TypeOK'
    BY <1>1, <2>1, <2>3, <2>4, <2>5 DEF FInv, TypeOK, Elems
  <2>7. Once'
    BY <1>1, <2>1, <2>3 DEF FInv, Once
  <2>8. Paired'
    <3>1. \A i \in 1 .. Len(pending) : pending[i] \in Elems(pending) /\ pending[i] # p
      BY <2>1, <2>2 DEF Elems
    <3>2. \A i \in 1 .. Len(pending) : pending[i] \in Pids /\ since[i] = waited[pending[i]]
      BY SMTT(30), <2>2 DEF FInv, Paired
    <3>3. \A i \in 1 .. Len(pending) : since'[i] = waited'[pending'[i]]
      BY <2>1, <2>2, <2>3, <2>4, <3>1, <3>2
    <3>4. since'[Len(pending) + 1] = waited'[pending'[Len(pending) + 1]]
      BY <2>1, <2>2, <2>3, <2>4
    <3>5. DOMAIN pending' = 1 .. (Len(pending) + 1)
      BY <2>2, <2>3
    <3>6. ASSUME NEW i \in DOMAIN pending'
          PROVE  since'[i] = waited'[pending'[i]]
      <4>1. i \in 1 .. Len(pending) \/ i = Len(pending) + 1
        BY <2>2, <3>5
      <4> QED
        BY <3>3, <3>4, <4>1
    <3> QED
      BY <1>1, <3>6 DEF FInv, Paired
  <2>9. PastFork'
    BY <1>1, <2>1, <2>3 DEF FInv, PastFork
  <2>10. RefreshDue'
    BY <1>1, <2>1, <2>3 DEF FInv, RefreshDue, Elems
  <2>11. NamespaceByPosition' /\ InBandNeverRegisters'
    BY <1>1 DEF FInv, NamespaceByPosition, InBandNeverRegisters
  <2> QED
    BY <2>6, <2>7, <2>8, <2>9, <2>10, <2>11 DEF FInv
<1> QED
  BY <1>2, <1>3 DEF ScanPid, RegisterFork

(* Everybody who waits grows older, in both vectors.                       *)
LEMMA ScanDoneKeeps ==
    ASSUME FInv, ScanDone
    PROVE  FInv'
<1>1. /\ pc' = "expire" /\ idx' = 1 /\ hadPending' = (pending # <<>>)
      /\ since' = [i \in DOMAIN since |-> Aged(since[i])]
      /\ waited' = [p \in Pids |-> IF p \in Elems(pending) THEN Aged(waited[p]) ELSE waited[p]]
      /\ pc = "scan"
      /\ UNCHANGED <<proc, parent, ctl, ring, pending, children, empty, open, stale, seen,
                     warned, todo, attachedNew, got, cut, quiet, ns, inband, dropped>>
  BY DEF ScanDone, os
<1>2. /\ pending \in Seq(Pids) /\ Len(pending) \in Nat
      /\ DOMAIN pending = 1 .. Len(pending) /\ DOMAIN since = 1 .. Len(pending)
      /\ since \in Seq(0 .. (TTL + 1)) /\ Len(since) = Len(pending)
      /\ waited \in [Pids -> 0 .. (TTL + 1)]
  BY VectorShapes DEF FInv, TypeOK
<1>3. \A a \in 0 .. (TTL + 1) : Aged(a) \in 0 .. (TTL + 1)
  BY BoundsAssumption DEF Aged, Least
<1>4. \A i \in 1 .. Len(pending) : since[i] \in 0 .. (TTL + 1) /\ pending[i] \in Pids
                                   /\ pending[i] \in Elems(pending)
  BY <1>2, ElemsOf
<1>5. since' \in Seq(0 .. (TTL + 1)) /\ Len(since') = Len(pending)
      /\ \A i \in 1 .. Len(pending) : since'[i] = Aged(since[i])
  BY <1>1, <1>2, <1>3, <1>4
<1>6. waited' \in [Pids -> 0 .. (TTL + 1)]
  BY <1>1, <1>2, <1>3
<1>7. TypeOK'
  BY <1>1, <1>5, <1>6 DEF FInv, TypeOK, Elems
<1>8. Once' /\ PastFork' /\ NamespaceByPosition' /\ InBandNeverRegisters'
  BY <1>1 DEF FInv, Once, PastFork, NamespaceByPosition, InBandNeverRegisters, Elems
<1>9. Paired'
  BY <1>1, <1>2, <1>4, <1>5 DEF FInv, Paired
<1>10. RefreshDue'
  BY <1>1 DEF FInv, RefreshDue, Elems
<1> QED
  BY <1>7, <1>8, <1>9, <1>10 DEF FInv

(* ForgetPending takes one pid out of both vectors and keeps them paired.  *)
LEMMA ForgetPendingEffect ==
    ASSUME FInv, NEW i \in 1 .. Len(pending), ForgetPending(i)
    PROVE  /\ pending' \in Seq(Pids) /\ since' \in Seq(0 .. (TTL + 1))
           /\ Len(pending') = Len(pending) - 1 /\ Len(since') = Len(pending) - 1
           /\ DOMAIN pending' = 1 .. (Len(pending) - 1)
           /\ Distinct(pending')
           /\ Elems(pending') = Elems(pending) \ {pending[i]}
           /\ \A j \in 1 .. (Len(pending) - 1) :
                 /\ pending'[j] = IF j = i THEN pending[Len(pending)] ELSE pending[j]
                 /\ pending'[j] \in Pids
                 /\ since'[j] = waited[pending'[j]]
<1>1. /\ pending \in Seq(Pids) /\ Len(pending) \in Nat
      /\ DOMAIN pending = 1 .. Len(pending)
      /\ since \in Seq(0 .. (TTL + 1)) /\ Len(since) = Len(pending)
  BY VectorShapes DEF FInv, TypeOK
<1>2. /\ pending' \in Seq(Pids) /\ Len(pending') = Len(pending) - 1
      /\ \A j \in 1 .. (Len(pending) - 1) :
            pending'[j] = IF j = i THEN pending[Len(pending)] ELSE pending[j]
  BY <1>1, SwapRemoved DEF ForgetPending
<1>3. Distinct(pending') /\ Elems(pending') = Elems(pending) \ {pending[i]}
  BY <1>1, SwapRemoveElems DEF ForgetPending, FInv, Once
<1>4. /\ since' \in Seq(0 .. (TTL + 1)) /\ Len(since') = Len(pending) - 1
      /\ \A j \in 1 .. (Len(pending) - 1) :
            since'[j] = IF j = i THEN since[Len(pending)] ELSE since[j]
  <2>1. i \in 1 .. Len(since) /\ since' = SwapRemove(since, i)
    BY <1>1 DEF ForgetPending
  <2>2. /\ SwapRemove(since, i) \in Seq(0 .. (TTL + 1))
        /\ Len(SwapRemove(since, i)) = Len(since) - 1
        /\ \A j \in 1 .. (Len(since) - 1) :
              SwapRemove(since, i)[j] = IF j = i THEN since[Len(since)] ELSE since[j]
    BY <1>1, <2>1, SwapRemoved
  <2> QED
    BY <1>1, <2>1, <2>2
<1>5. \A j \in 1 .. (Len(pending) - 1) : since'[j] = waited[pending'[j]] /\ pending'[j] \in Pids
  <2>1. \A j \in 1 .. Len(pending) : since[j] = waited[pending[j]] /\ pending[j] \in Pids
    BY <1>1 DEF FInv, Paired
  <2>2. Len(pending) \in 1 .. Len(pending) /\ 1 .. (Len(pending) - 1) \subseteq 1 .. Len(pending)
    BY <1>1
  <2> QED
    BY <1>2, <1>4, <2>1, <2>2
<1>6. DOMAIN pending' = 1 .. (Len(pending) - 1)
  BY <1>2
<1> QED
  BY <1>2, <1>3, <1>4, <1>5, <1>6

LEMMA ExpireKeeps ==
    ASSUME FInv, Expire
    PROVE  FInv'
<1>1. /\ pc = "expire"
      /\ UNCHANGED <<proc, parent, ctl, ring, children, empty, open, stale, seen, warned,
                     todo, hadPending, got, cut, waited, quiet, ns, inband, dropped>>
  BY DEF Expire, os, history
<1>2. CASE /\ UNCHANGED <<pending, since>>
           /\ \/ pc' = "attach" /\ idx' = 1 /\ attachedNew' = FALSE
              \/ pc' = pc /\ attachedNew' = attachedNew /\ idx' = idx + 1
  <2>0. idx' \in Nat \ {0} /\ pc' \in {"expire", "attach"} /\ attachedNew' \in BOOLEAN
    <3>1. CASE pc' = "attach" /\ idx' = 1 /\ attachedNew' = FALSE
      <4>1. attachedNew' \in BOOLEAN
        BY <3>1
      <4> QED
        BY <3>1, <4>1
    <3>2. CASE pc' = pc /\ attachedNew' = attachedNew /\ idx' = idx + 1
      <4>1. attachedNew \in BOOLEAN /\ idx \in Nat \ {0}
        BY DEF FInv, TypeOK
      <4>2. attachedNew' \in BOOLEAN
        BY <3>2, <4>1
      <4> QED
        BY <1>1, <3>2, <4>1, <4>2
    <3> QED
      BY <1>2, <3>1, <3>2
  <2>1. TypeOK'
    BY <1>1, <1>2, <2>0 DEF FInv, TypeOK, Elems
  <2>2. Once' /\ Paired' /\ PastFork' /\ NamespaceByPosition' /\ InBandNeverRegisters'
    BY <1>1, <1>2 DEF FInv, Once, Paired, PastFork, NamespaceByPosition,
                      InBandNeverRegisters, Elems
  <2>3. \A i \in DOMAIN pending : i >= 1
    BY VectorShapes DEF FInv
  <2>4. /\ Elems(children) \subseteq seen
        /\ \A p \in Elems(pending) : p \in ctl => stale
    BY <1>1 DEF FInv, RefreshDue
  <2>5. pc' = "attach" => \A i \in DOMAIN pending : ~(i < idx')
    BY <1>1, <1>2, <2>3, VectorShapes DEF FInv
  <2>6. RefreshDue'
    BY <1>1, <1>2, <2>0, <2>4, <2>5 DEF RefreshDue
  <2> QED
    BY <2>1, <2>2, <2>6 DEF FInv
<1>3. CASE /\ idx <= Len(pending) /\ ForgetPending(idx)
           /\ UNCHANGED <<pc, attachedNew, idx>>
  <2>1. idx \in 1 .. Len(pending)
    BY <1>3, VectorShapes DEF FInv, TypeOK
  <2>2. /\ pending' \in Seq(Pids) /\ since' \in Seq(0 .. (TTL + 1))
        /\ Len(pending') = Len(since') /\ Distinct(pending')
        /\ Elems(pending') \subseteq Elems(pending)
        /\ \A j \in DOMAIN pending' : since'[j] = waited[pending'[j]]
    BY <1>3, <2>1, ForgetPendingEffect
  <2>3. TypeOK'
    BY SMTT(30), <1>1, <1>3, <2>2 DEF FInv, TypeOK, Elems
  <2>4. Once'
    BY <1>1, <2>2 DEF FInv, Once
  <2>5. Paired'
    BY <1>1, <2>2 DEF FInv, Paired
  <2>6. PastFork'
    BY <1>1, <2>2 DEF FInv, PastFork
  <2>7. RefreshDue' /\ NamespaceByPosition' /\ InBandNeverRegisters'
    BY <1>1, <1>3, <2>2 DEF FInv, RefreshDue, NamespaceByPosition, InBandNeverRegisters
  <2> QED
    BY <2>3, <2>4, <2>5, <2>6, <2>7 DEF FInv
<1>4. idx \in Nat /\ Len(pending) \in Nat
  BY VectorShapes DEF FInv, TypeOK
<1>5. CASE idx > Len(pending)
  BY <1>2, <1>5 DEF Expire
<1>6. CASE ~(idx > Len(pending)) /\ since[idx] > TTL
  BY <1>3, <1>4, <1>6 DEF Expire
<1>7. CASE ~(idx > Len(pending)) /\ ~(since[idx] > TTL)
  BY <1>2, <1>7 DEF Expire
<1> QED
  BY <1>5, <1>6, <1>7

(* A child moves from the pending pids to the children.                    *)
LEMMA AttachOneKeeps ==
    ASSUME FInv, Attach, idx <= Len(pending), pending[idx] \in ctl
    PROVE  FInv'
<1> DEFINE p == pending[idx]
<1>1. /\ children' = Append(children, p) /\ empty' = Append(empty, 0)
      /\ quiet' = [quiet EXCEPT ![p] = 0] /\ ForgetPending(idx)
      /\ attachedNew' = TRUE /\ idx' = idx /\ pc = "attach" /\ pc' = pc
      /\ UNCHANGED <<proc, parent, ctl, ring, open, stale, seen, warned, todo, hadPending,
                     got, cut, waited, ns, inband, dropped>>
  <2>1. idx \in Nat /\ Len(pending) \in Nat
    BY VectorShapes DEF FInv, TypeOK
  <2>2. ~(idx > Len(pending))
    BY <2>1
  <2> QED
    BY <2>2 DEF Attach, os
<1>2. /\ idx \in 1 .. Len(pending) /\ p \in Pids /\ p \in Elems(pending) /\ p \in ctl
      /\ p \notin Elems(children)
      /\ children \in Seq(Pids) /\ Len(children) \in Nat
      /\ DOMAIN children = 1 .. Len(children)
      /\ empty \in Seq(0 .. EmptyLimit) /\ Len(empty) = Len(children)
      /\ 0 \in 0 .. EmptyLimit /\ quiet \in [Pids -> 0 .. EmptyLimit]
  <2>1. idx \in 1 .. Len(pending)
    BY VectorShapes DEF FInv, TypeOK
  <2>2. p \in Pids /\ p \in Elems(pending) /\ p \in ctl
    BY <2>1, VectorShapes, ElemsOf DEF FInv
  <2>3. p \notin Elems(children)
    BY <2>2 DEF FInv, Once
  <2>4. 0 \in 0 .. EmptyLimit
    BY BoundsAssumption
  <2> QED
    BY <2>1, <2>2, <2>3, <2>4, VectorShapes DEF FInv, TypeOK
<1> HIDE DEF p
<1>3. /\ pending' \in Seq(Pids) /\ since' \in Seq(0 .. (TTL + 1))
      /\ Len(pending') = Len(since') /\ Distinct(pending')
      /\ Elems(pending') = Elems(pending) \ {p}
      /\ DOMAIN pending' = 1 .. (Len(pending) - 1)
      /\ \A j \in DOMAIN pending' : since'[j] = waited[pending'[j]]
      /\ \A j \in 1 .. (Len(pending) - 1) :
            pending'[j] = IF j = idx THEN pending[Len(pending)] ELSE pending[j]
  BY ZenonT(30), <1>1, <1>2, ForgetPendingEffect DEF p
<1>4. /\ children' \in Seq(Pids) /\ Len(children') = Len(children) + 1
      /\ \A i \in 1 .. Len(children) : children'[i] = children[i]
      /\ children'[Len(children) + 1] = p
      /\ Elems(children') = Elems(children) \cup {p}
      /\ Distinct(children')
  BY <1>1, <1>2, AppendDistinct DEF FInv, Once
<1>5. /\ empty' \in Seq(0 .. EmptyLimit) /\ Len(empty') = Len(children) + 1
      /\ \A i \in 1 .. Len(children) : empty'[i] = empty[i]
      /\ empty'[Len(children) + 1] = 0
  BY <1>1, <1>2, AppendDistinct
<1>6. quiet' \in [Pids -> 0 .. EmptyLimit]
  BY <1>1, <1>2
<1>7. attachedNew' \in BOOLEAN
  BY <1>1
<1>8. open' \subseteq Elems(children')
  BY <1>1, <1>4 DEF FInv, TypeOK
<1>9. TypeOK'
  BY <1>1, <1>3, <1>4, <1>5, <1>6, <1>7, <1>8 DEF FInv, TypeOK
<1>10. Once'
  BY <1>3, <1>4 DEF FInv, Once
<1>11. Paired'
  <2>1. ASSUME NEW i \in 1 .. Len(children)
        PROVE  empty'[i] = quiet'[children'[i]]
    <3>1. children[i] \in Pids /\ children[i] # p /\ empty[i] = quiet[children[i]]
      BY <1>2 DEF FInv, Paired, Elems
    <3> QED
      BY <1>1, <1>2, <1>4, <1>5, <3>1
  <2>2. empty'[Len(children) + 1] = quiet'[children'[Len(children) + 1]]
    BY <1>1, <1>2, <1>4, <1>5
  <2>3. \A i \in DOMAIN children' : i \in 1 .. Len(children) \/ i = Len(children) + 1
    BY <1>2, <1>4
  <2>4. \A i \in DOMAIN children' : empty'[i] = quiet'[children'[i]]
    BY <2>1, <2>2, <2>3
  <2> QED
    BY <1>1, <1>3, <2>4 DEF Paired
<1>12. PastFork'
  BY <1>1, <1>3 DEF FInv, PastFork
<1>13. RefreshDue'
  <2>1. stale
    BY <1>2 DEF FInv, RefreshDue
  <2>2. \A i \in DOMAIN pending : i < idx => pending[i] \notin ctl
    BY <1>1 DEF FInv, RefreshDue
  <2>3. \A i \in DOMAIN pending' : i < idx' => pending'[i] \notin ctl'
    <3>1. DOMAIN pending = 1 .. Len(pending) /\ Len(pending) \in Nat
      BY VectorShapes DEF FInv
    <3> SUFFICES ASSUME NEW i \in 1 .. (Len(pending) - 1), i < idx
                 PROVE  pending'[i] \notin ctl
      BY <1>1, <1>3
    <3>2. i \in DOMAIN pending /\ i # idx
      BY <1>2, <3>1
    <3> QED
      BY <1>3, <2>2, <3>2
  <2> QED
    BY <1>1, <1>3, <2>1, <2>3 DEF RefreshDue
<1>14. NamespaceByPosition'
  <2>1. DOMAIN children' = 1 .. (Len(children) + 1)
    BY <1>2, <1>4
  <2> QED
    BY <1>1, <1>2, <1>4, <2>1 DEF FInv, NamespaceByPosition
<1>15. InBandNeverRegisters'
  BY <1>1 DEF FInv, InBandNeverRegisters
<1> QED
  BY <1>9, <1>10, <1>11, <1>12, <1>13, <1>14, <1>15 DEF FInv

LEMMA AttachKeeps ==
    ASSUME FInv, Attach
    PROVE  FInv'
<1>1. idx \in Nat \ {0} /\ Len(pending) \in Nat /\ DOMAIN pending = 1 .. Len(pending)
  BY VectorShapes DEF FInv, TypeOK
<1>2. CASE idx <= Len(pending) /\ pending[idx] \in ctl
  BY <1>2, AttachOneKeeps
<1>3. CASE idx > Len(pending) \/ pending[idx] \notin ctl
  <2>1. /\ pc = "attach"
        /\ UNCHANGED <<proc, parent, ctl, ring, pending, since, children, empty, open, stale,
                       seen, warned, todo, hadPending, attachedNew, got, cut, waited, quiet,
                       ns, inband, dropped>>
        /\ \/ idx > Len(pending) /\ pc' = "retire" /\ idx' = 1
           \/ idx <= Len(pending) /\ pending[idx] \notin ctl /\ pc' = pc /\ idx' = idx + 1
    BY <1>1, <1>3 DEF Attach, os
  <2>2. idx' \in Nat \ {0} /\ pc' \in {"attach", "retire"}
    BY <1>1, <2>1
  <2>3. TypeOK'
    BY <2>1, <2>2 DEF FInv, TypeOK, Elems
  <2>4. Once' /\ Paired' /\ PastFork' /\ NamespaceByPosition' /\ InBandNeverRegisters'
    BY <2>1 DEF FInv, Once, Paired, PastFork, NamespaceByPosition,
                InBandNeverRegisters, Elems
  <2>5. /\ \A i \in DOMAIN pending : i < idx => pending[i] \notin ctl
        /\ \A q \in Elems(pending) : q \in ctl => stale
        /\ Elems(children) \subseteq seen \/ (attachedNew /\ stale)
    BY <2>1 DEF FInv, RefreshDue
  <2>6. CASE idx > Len(pending) /\ pc' = "retire"
    <3>1. \A q \in Elems(pending) : q \notin ctl
      BY <1>1, <2>5, <2>6 DEF Elems
    <3> QED
      BY <2>1, <2>3, <2>4, <2>5, <2>6, <3>1 DEF FInv, RefreshDue
  <2>7. CASE pending[idx] \notin ctl /\ pc' = "attach" /\ idx' = idx + 1
    <3>1. \A i \in DOMAIN pending : i < idx' => pending[i] \notin ctl
      BY <1>1, <2>5, <2>7
    <3> QED
      BY <2>1, <2>3, <2>4, <2>5, <2>7, <3>1 DEF FInv, RefreshDue
  <2> QED
    BY <2>1, <2>6, <2>7
<1> QED
  BY <1>1, <1>2, <1>3

(* A child is dropped, and what was next to it keeps its own count.        *)
LEMMA RetireOneKeeps ==
    ASSUME FInv, Retire, Retireable(idx)
    PROVE  FInv'
<1> DEFINE c == children[idx]
<1>1. /\ children' = SwapRemove(children, idx) /\ empty' = SwapRemove(empty, idx)
      /\ open' = open \ {c} /\ dropped' = dropped \cup {c} /\ stale' = TRUE
      /\ pc = "retire" /\ pc' = pc /\ idx' = idx /\ idx <= Len(children)
      /\ UNCHANGED <<proc, parent, ctl, ring, pending, since, seen, warned, todo, hadPending,
                     attachedNew, got, cut, waited, quiet, ns, inband>>
  BY DEF Retire, RetireOne, os
<1>2. /\ children \in Seq(Pids) /\ Len(children) \in Nat
      /\ DOMAIN children = 1 .. Len(children)
      /\ idx \in 1 .. Len(children) /\ c \in Pids
      /\ empty \in Seq(0 .. EmptyLimit) /\ Len(empty) = Len(children)
  BY <1>1, VectorShapes DEF FInv, TypeOK
<1>3. /\ children' \in Seq(Pids) /\ Len(children') = Len(children) - 1
      /\ \A j \in 1 .. (Len(children) - 1) :
            children'[j] = IF j = idx THEN children[Len(children)] ELSE children[j]
  BY <1>1, <1>2, SwapRemoved
<1>4. Distinct(children') /\ Elems(children') = Elems(children) \ {c}
  BY <1>1, <1>2, SwapRemoveElems DEF FInv, Once
<1>5. /\ empty' \in Seq(0 .. EmptyLimit) /\ Len(empty') = Len(children) - 1
      /\ \A j \in 1 .. (Len(children) - 1) :
            empty'[j] = IF j = idx THEN empty[Len(children)] ELSE empty[j]
  <2>1. /\ SwapRemove(empty, idx) \in Seq(0 .. EmptyLimit)
        /\ Len(SwapRemove(empty, idx)) = Len(empty) - 1
        /\ \A j \in 1 .. (Len(empty) - 1) :
              SwapRemove(empty, idx)[j] = IF j = idx THEN empty[Len(empty)] ELSE empty[j]
    <3>1. idx \in 1 .. Len(empty)
      BY <1>2
    <3> QED
      BY <1>2, <3>1, SwapRemoved
  <2> QED
    BY <1>1, <1>2, <2>1
<1> HIDE DEF c
<1>6. stale' \in BOOLEAN
  BY <1>1
<1>7. open' \subseteq Elems(children') /\ dropped' \subseteq Pids
  BY <1>1, <1>2, <1>4 DEF FInv, TypeOK
<1>8. TypeOK'
  BY <1>1, <1>3, <1>5, <1>6, <1>7 DEF FInv, TypeOK
<1>9. Once'
  BY <1>1, <1>4 DEF FInv, Once
<1>10. Paired'
  <2>1. \A j \in 1 .. Len(children) : empty[j] = quiet[children[j]]
    BY <1>2 DEF FInv, Paired
  <2>2. Len(children) \in 1 .. Len(children)
        /\ 1 .. (Len(children) - 1) \subseteq 1 .. Len(children)
    BY <1>2
  <2>3. DOMAIN children' = 1 .. (Len(children) - 1)
    BY <1>3
  <2>4. \A j \in DOMAIN children' : empty'[j] = quiet'[children'[j]]
    BY <1>1, <1>3, <1>5, <2>1, <2>2, <2>3
  <2> QED
    BY <1>1, <2>4 DEF FInv, Paired
<1>11. PastFork' /\ InBandNeverRegisters'
  BY <1>1 DEF FInv, PastFork, InBandNeverRegisters
<1>12. RefreshDue'
  <2>1. /\ \A q \in Elems(pending) : q \notin ctl
        /\ Elems(children) \subseteq seen \/ (attachedNew /\ stale)
    BY <1>1 DEF FInv, RefreshDue
  <2> QED
    BY <1>1, <1>4, <2>1 DEF RefreshDue
<1>13. NamespaceByPosition'
  BY <1>1 DEF NamespaceByPosition
<1> QED
  BY <1>8, <1>9, <1>10, <1>11, <1>12, <1>13 DEF FInv

LEMMA RetireKeeps ==
    ASSUME FInv, Retire
    PROVE  FInv'
<1>1. CASE Retireable(idx)
  BY <1>1, RetireOneKeeps
<1>2. CASE ~Retireable(idx)
  <2>1. /\ idx' = idx + 1 /\ pc = "retire"
        /\ UNCHANGED <<proc, parent, ctl, ring, pending, since, children, empty, open, stale,
                       seen, warned, pc, todo, hadPending, attachedNew, got, cut, waited,
                       quiet, ns, inband, dropped>>
    BY <1>2 DEF Retire, os
  <2>2. idx' \in Nat \ {0}
    BY <2>1 DEF FInv, TypeOK
  <2>3. TypeOK'
    BY <2>1, <2>2 DEF FInv, TypeOK, Elems
  <2>4. Once' /\ Paired' /\ PastFork' /\ NamespaceByPosition' /\ InBandNeverRegisters'
    BY <2>1 DEF FInv, Once, Paired, PastFork, NamespaceByPosition,
                InBandNeverRegisters, Elems
  <2>5. RefreshDue'
    BY <2>1 DEF FInv, RefreshDue, Elems
  <2> QED
    BY <2>3, <2>4, <2>5 DEF FInv
<1> QED
  BY <1>1, <1>2

(* The shared regions are refreshed when a child is outside the last       *)
(* refresh, and shared_regions_stale is only cleared when no pending pid   *)
(* has a control ring.                                                     *)
LEMMA EndDiscoverKeeps ==
    ASSUME FInv, EndDiscover
    PROVE  FInv'
<1>1. /\ pc = "retire" /\ pc' = "loop" /\ idx' = 1
      /\ open' = open \cup {p \in Elems(children) : ring[p] # <<>>}
      /\ UNCHANGED <<proc, parent, ctl, ring, pending, since, children, empty, warned, todo,
                     hadPending, attachedNew, got, cut, waited, quiet, ns, inband, dropped>>
  BY DEF EndDiscover, os, history
<1>2. Once' /\ Paired' /\ PastFork' /\ NamespaceByPosition' /\ InBandNeverRegisters'
  BY <1>1 DEF FInv, Once, Paired, PastFork, NamespaceByPosition, InBandNeverRegisters, Elems
<1>3. /\ \A q \in Elems(pending) : q \notin ctl
      /\ Elems(children) \subseteq seen \/ (attachedNew /\ stale)
  BY <1>1 DEF FInv, RefreshDue
<1>4. Elems(children) \subseteq Pids /\ (children = <<>> => Elems(children) = {})
  BY VectorShapes DEF FInv, Elems
<1>5. /\ seen' \subseteq Pids \cup {Root} /\ Elems(children) \subseteq seen'
      /\ stale' \in BOOLEAN
  <2>1. CASE NeedsRefresh
    <3>1. seen' = RefreshedPids /\ stale' = FALSE
      BY <2>1 DEF EndDiscover
    <3>2. seen' \subseteq Pids \cup {Root} /\ Elems(children) \subseteq seen'
      BY <1>4, <3>1 DEF RefreshedPids
    <3> QED
      BY <3>1, <3>2
  <2>2. CASE ~NeedsRefresh
    <3>1. seen' = seen /\ stale' = stale
      BY <2>2 DEF EndDiscover
    <3> QED
      BY <1>3, <2>2, <3>1 DEF NeedsRefresh, FInv, TypeOK
  <2> QED
    BY <2>1, <2>2
<1>6. open' \subseteq Elems(children')
  BY <1>1 DEF FInv, TypeOK
<1>7. TypeOK'
  BY <1>1, <1>5, <1>6 DEF FInv, TypeOK
<1>8. RefreshDue'
  BY <1>1, <1>3, <1>5 DEF RefreshDue
<1> QED
  BY <1>2, <1>7, <1>8 DEF FInv

-----------------------------------------------------------------------------
(* batch_drain of the children                                             *)

LEMMA StartEndDrainKeeps ==
    ASSUME FInv, StartDrain \/ EndDrain
    PROVE  FInv'
<1>1. /\ pc \in {"loop", "drain"} /\ pc' \in {"loop", "drain"} /\ idx' = 1
      /\ UNCHANGED <<proc, parent, ctl, ring, pending, since, children, empty, open, stale,
                     seen, warned, todo, hadPending, attachedNew, waited, quiet, ns, inband,
                     dropped>>
  BY DEF StartDrain, EndDrain, os, tracker, history
<1>2. got' \in Nat
  BY DEF StartDrain, EndDrain, FInv, TypeOK
<1>3. cut' \in BOOLEAN
  <2>1. CASE StartDrain
    BY <2>1 DEF StartDrain
  <2>2. CASE EndDrain
    BY <2>2 DEF EndDrain
  <2> QED
    BY <2>1, <2>2
<1>4. TypeOK'
  BY <1>1, <1>2, <1>3 DEF FInv, TypeOK, Elems
<1>5. Once' /\ Paired' /\ PastFork' /\ NamespaceByPosition' /\ InBandNeverRegisters'
  BY <1>1 DEF FInv, Once, Paired, PastFork, NamespaceByPosition, InBandNeverRegisters, Elems
<1>6. RefreshDue'
  BY <1>1 DEF FInv, RefreshDue, Elems
<1> QED
  BY <1>4, <1>5, <1>6 DEF FInv

(* A position that has a namespace of its own.                             *)
LEMMA NamespaceIsPosition ==
    ASSUME NEW i \in Nat \ {0}, ~Overflows(i)
    PROVE  i \in 0 .. (NsSpace - 1) /\ Namespace(i) = i
<1>1. i < NsSpace /\ NsSpace \in Nat
  BY BoundsAssumption DEF Overflows
<1> QED
  BY <1>1, SMT DEF Namespace

(* One child is drained: it is attached, so its FORK registers nothing.    *)
LEMMA DrainChildKeeps ==
    ASSUME FInv, DrainChild
    PROVE  FInv'
<1> DEFINE p == children[idx]
           n == IF p \in open THEN Least(Len(ring[p]), Limit - got) ELSE 0
<1>1. /\ pc = "drain" /\ idx \in 1 .. Len(children) /\ got < Limit
      /\ DOMAIN children = 1 .. Len(children) /\ Len(children) \in Nat
      /\ p \in Pids /\ p \in Elems(children) /\ Refused(p)
      /\ empty \in Seq(0 .. EmptyLimit) /\ Len(empty) = Len(children)
  <2>1. pc = "drain" /\ idx <= Len(children) /\ got < Limit
    BY DEF DrainChild
  <2> QED
    BY <2>1, VectorShapes, ElemsOf DEF FInv, TypeOK, Refused, Attached
<1>2. n \in Nat /\ n <= Len(ring[p]) /\ ring[p] \in Seq({"FORK", "WRITE"})
      /\ Len(ring[p]) \in Nat
  <2>1. ring[p] \in Seq({"FORK", "WRITE"}) /\ Len(ring[p]) \in Nat
    BY <1>1 DEF FInv, TypeOK
  <2>2. got \in Nat /\ Limit \in Nat /\ got < Limit
    BY <1>1, BoundsAssumption DEF FInv, TypeOK
  <2> QED
    BY <2>1, <2>2 DEF Least
<1>3. /\ ring' = [ring EXCEPT ![p] = SubSeq(@, n + 1, Len(@))]
      /\ empty' = [empty EXCEPT ![idx] = EmptyTicks(@, n)]
      /\ quiet' = [quiet EXCEPT ![p] = IF n = 0 THEN Least(@ + 1, EmptyLimit) ELSE 0]
      /\ got' = got + n
      /\ ns' = IF n = 0 THEN ns ELSE [ns EXCEPT ![Namespace(idx)] = @ \cup {p}]
      /\ warned' = (warned \/ (n > 0 /\ Overflows(idx)))
      /\ idx' = idx + 1
      /\ UNCHANGED <<proc, parent, ctl, children, open, seen, pc, todo, hadPending,
                     attachedNew, cut, dropped>>
  BY DEF DrainChild
<1>4. UNCHANGED <<pending, since, stale, waited, inband>>
  BY <1>1 DEF DrainChild, RegisterFork
<1> HIDE DEF p, n
<1>5. ring' \in [Pids -> Seq({"FORK", "WRITE"})]
  <2>1. SubSeq(ring[p], n + 1, Len(ring[p])) \in Seq({"FORK", "WRITE"})
    BY <1>2
  <2> QED
    BY <1>1, <1>3, <2>1 DEF FInv, TypeOK
<1>6. /\ quiet' \in [Pids -> 0 .. EmptyLimit] /\ quiet \in [Pids -> 0 .. EmptyLimit]
      /\ \A q \in Pids : q # p => quiet'[q] = quiet[q]
      /\ quiet'[p] = EmptyTicks(quiet[p], n)
  <2>1. \A t \in 0 .. EmptyLimit :
           (IF n = 0 THEN Least(t + 1, EmptyLimit) ELSE 0) \in 0 .. EmptyLimit
    BY BoundsAssumption DEF Least
  <2> QED
    BY <1>1, <1>3, <2>1 DEF FInv, TypeOK, EmptyTicks
<1>7. /\ empty' \in Seq(0 .. EmptyLimit) /\ Len(empty') = Len(children)
      /\ \A i \in 1 .. Len(children) :
            empty'[i] = IF i = idx THEN EmptyTicks(empty[idx], n) ELSE empty[i]
  <2>1. EmptyTicks(empty[idx], n) \in 0 .. EmptyLimit
    BY <1>1, BoundsAssumption DEF Least, EmptyTicks
  <2> QED
    BY <1>1, <1>3, <2>1
<1>8. ns' \in [0 .. (NsSpace - 1) -> SUBSET (Pids \cup {Root})]
  BY <1>1, <1>3 DEF FInv, TypeOK
<1>9. idx' \in Nat \ {0} /\ got' \in Nat
  BY <1>1, <1>2, <1>3 DEF FInv, TypeOK
<1>10. warned' \in BOOLEAN
  BY <1>3
<1>11. TypeOK'
  <2>1. Elems(children') = Elems(children)
    BY <1>3
  <2> QED
    BY <1>3, <1>4, <1>5, <1>6, <1>7, <1>8, <1>9, <1>10, <2>1 DEF FInv, TypeOK
<1>12. Once' /\ PastFork' /\ InBandNeverRegisters'
  BY <1>3, <1>4 DEF FInv, Once, PastFork, InBandNeverRegisters, Elems
<1>13. RefreshDue'
  BY <1>1, <1>3, <1>4 DEF FInv, RefreshDue, Elems
<1>14. Paired'
  <2>1. \A i \in 1 .. Len(children) :
           empty[i] = quiet[children[i]] /\ children[i] \in Pids /\ (children[i] = p => i = idx)
    BY <1>1, VectorShapes DEF FInv, Paired, Once, Distinct, p
  <2>2. \A i \in 1 .. Len(children) : empty'[i] = quiet'[children[i]]
    BY <1>1, <1>6, <1>7, <2>1 DEF p
  <2> QED
    BY <1>1, <1>3, <1>4, <2>2 DEF FInv, Paired
<1>15. NamespaceByPosition'
  <2> SUFFICES ASSUME dropped' = {}, ~warned', NEW m \in 0 .. (NsSpace - 1), NEW q \in ns'[m]
               PROVE  IF m = 0 THEN q = Root ELSE m \in DOMAIN children /\ q = children[m]
    BY <1>3 DEF NamespaceByPosition
  <2>1. q \in ns[m] => IF m = 0 THEN q = Root ELSE m \in DOMAIN children /\ q = children[m]
    BY <1>3 DEF FInv, NamespaceByPosition
  <2>2. CASE n = 0
    BY <1>3, <2>1, <2>2
  <2>3. CASE n # 0
    <3>1. ~Overflows(idx)
      <4>1. n > 0
        BY <1>2, <2>3
      <4> QED
        BY <1>3, <4>1
    <3>2. idx \in 0 .. (NsSpace - 1) /\ Namespace(idx) = idx /\ idx # 0
      BY <1>1, <3>1, NamespaceIsPosition
    <3>3. ns' = [ns EXCEPT ![idx] = @ \cup {p}]
      BY <1>3, <2>3, <3>2
    <3>4. q \in ns[m] \/ (m = idx /\ q = p)
      BY <3>2, <3>3 DEF FInv, TypeOK
    <3> QED
      BY <1>1, <2>1, <3>2, <3>4 DEF p
  <2> QED
    BY <2>2, <2>3
<1> QED
  BY <1>11, <1>12, <1>13, <1>14, <1>15 DEF FInv

-----------------------------------------------------------------------------
(* The theorems                                                            *)

LEMMA StepKeepsFInv ==
    ASSUME FInv, [Next]_vars
    PROVE  FInv'
<1>1. CASE Processes
  BY <1>1, ProcessesKeep
<1>2. CASE DiscoverStep
  BY <1>2, DiscoverKeeps, ScanPidKeeps, ScanDoneKeeps, ExpireKeeps, AttachKeeps, RetireKeeps,
     EndDiscoverKeeps DEF DiscoverStep
<1>3. CASE DrainStep
  BY <1>3, StartEndDrainKeeps, DrainChildKeeps DEF DrainStep
<1>4. CASE UNCHANGED vars
  <2>1. UNCHANGED <<proc, parent, ctl, ring, pending, since, children, empty, open, stale, seen,
                    warned, pc, idx, todo, hadPending, attachedNew, got, cut, waited, quiet, ns,
                    inband, dropped>>
    BY <1>4 DEF vars, os, tracker, engine, history
  <2>2. Elems(pending') = Elems(pending) /\ Elems(children') = Elems(children)
    BY <2>1
  <2>3. TypeOK'
    BY <2>1, <2>2 DEF FInv, TypeOK
  <2>4. Once' /\ Paired' /\ PastFork' /\ NamespaceByPosition' /\ InBandNeverRegisters'
    BY <2>1, <2>2 DEF FInv, Once, Paired, PastFork, NamespaceByPosition, InBandNeverRegisters
  <2>5. RefreshDue'
    BY <2>1, <2>2 DEF FInv, RefreshDue
  <2> QED
    BY <2>3, <2>4, <2>5 DEF FInv
<1> QED
  BY <1>1, <1>2, <1>3, <1>4 DEF Next

(* FInv holds in every reachable state.                                    *)
THEOREM ForkInductive == Spec => []FInv
BY ForkInit_FInv, StepKeepsFInv, PTL DEF Spec

(* What the tracker keeps in several places agrees, for any number of      *)
(* processes and in any order of forks, scans, exits and FORK events: no   *)
(* process is tracked twice, no FORK event registers its own process, and  *)
(* between two rounds of discover every child was part of the last refresh *)
(* of the shared regions (ChildProcessTracker).                            *)
THEOREM TrackerAlwaysConsistent == Spec => []TrackerConsistent
<1>1. FInv => TrackerConsistent
  <2> SUFFICES ASSUME FInv PROVE TrackerConsistent
    OBVIOUS
  <2>1. TrackedOnce
    BY VectorShapes, DistinctCardinality DEF FInv, Once, TrackedOnce
  <2>2. ChildrenRefreshed
    BY DEF FInv, RefreshDue, ChildrenRefreshed
  <2> QED
    BY <2>1, <2>2 DEF FInv, TrackerConsistent
<1> QED
  BY <1>1, ForkInductive, PTL

(* Two processes share a thread-id namespace only after a child was        *)
(* dropped or the overflow was reported (namespace_child_tid).             *)
THEOREM AliasAlwaysExplained == Spec => []AliasExplained
<1>1. FInv => AliasExplained
  <2> SUFFICES ASSUME FInv, dropped = {}, ~warned, NEW n \in DOMAIN ns
               PROVE  Cardinality(ns[n]) <= 1
    BY DEF AliasExplained
  <2>1. n \in 0 .. (NsSpace - 1)
    BY DEF FInv, TypeOK
  <2>2. PICK x : \A q \in ns[n] : q = x
    <3>1. CASE n = 0
      BY <2>1, <3>1 DEF FInv, NamespaceByPosition
    <3>2. CASE n # 0
      BY <2>1, <3>2 DEF FInv, NamespaceByPosition
    <3> QED
      BY <3>1, <3>2
  <2>3. ns[n] \subseteq {x} /\ IsFiniteSet({x}) /\ Cardinality({x}) = 1
    BY <2>2, FS_Singleton
  <2> QED
    BY <2>3, FS_Subset
<1> QED
  BY <1>1, ForkInductive, PTL

(* discover gives up only pids that waited too long themselves and drops   *)
(* only children that are dead and were silent themselves: no swap_remove  *)
(* ever separates a pid from its own age or its own count of empty drains. *)
THEOREM ForgetsRightOne == Spec => ForgetsTheRightOne
<1> DEFINE A == /\ \A p \in Elems(pending) \ (Elems(pending') \cup Elems(children')) :
                       waited[p] > TTL
                /\ \A p \in Elems(children) \ Elems(children') :
                       proc[p] = "gone" /\ quiet[p] >= EmptyLimit
<1>1. ASSUME FInv, Next PROVE A
  <2>0. /\ pending \in Seq(Pids) /\ children \in Seq(Pids)
        /\ DOMAIN pending = 1 .. Len(pending) /\ DOMAIN children = 1 .. Len(children)
        /\ idx \in Nat \ {0} /\ Len(pending) \in Nat /\ Len(children) \in Nat
    BY <1>1, VectorShapes DEF FInv, TypeOK
  <2>1. CASE \/ pending' = pending /\ children' = children
             \/ \E p \in Pids : pending' = Append(pending, p) /\ children' = children
    <3>1. Elems(pending) \subseteq Elems(pending') /\ Elems(children') = Elems(children)
      <4>1. CASE pending' = pending /\ children' = children
        BY <4>1
      <4>2. ASSUME NEW p \in Pids, pending' = Append(pending, p), children' = children
            PROVE  Elems(pending) \subseteq Elems(pending') /\ Elems(children') = Elems(children)
        BY <2>0, <4>2, AppendDistinct
      <4> QED
        BY <2>1, <4>1, <4>2
    <3> QED
      BY <3>1
  <2>2. CASE Expire
    <3>1. CASE idx <= Len(pending) /\ since[idx] > TTL
      <4>1. ForgetPending(idx) /\ children' = children /\ idx \in 1 .. Len(pending)
        BY <2>0, <2>2, <3>1 DEF Expire
      <4>2. Elems(pending') = Elems(pending) \ {pending[idx]}
        BY <1>1, <4>1, ForgetPendingEffect
      <4>3. waited[pending[idx]] > TTL
        BY <1>1, <2>0, <3>1, <4>1 DEF FInv, Paired
      <4> QED
        BY <4>1, <4>2, <4>3
    <3>2. CASE ~(idx <= Len(pending) /\ since[idx] > TTL)
      BY <2>0, <2>1, <2>2, <3>2 DEF Expire
    <3> QED
      BY <3>1, <3>2
  <2>3. CASE Attach
    <3>1. CASE idx <= Len(pending) /\ pending[idx] \in ctl
      <4>1. /\ ForgetPending(idx) /\ children' = Append(children, pending[idx])
            /\ idx \in 1 .. Len(pending) /\ pending[idx] \in Pids
        BY <2>0, <2>3, <3>1 DEF Attach
      <4>2. Elems(pending') = Elems(pending) \ {pending[idx]}
        BY <1>1, <4>1, ForgetPendingEffect
      <4>3. Elems(children') = Elems(children) \cup {pending[idx]}
        BY <2>0, <4>1, AppendDistinct
      <4> QED
        BY <4>2, <4>3
    <3>2. CASE ~(idx <= Len(pending) /\ pending[idx] \in ctl)
      BY <2>0, <2>1, <2>3, <3>2 DEF Attach
    <3> QED
      BY <3>1, <3>2
  <2>4. CASE Retire
    <3>1. CASE Retireable(idx)
      <4>1. /\ children' = SwapRemove(children, idx) /\ pending' = pending
            /\ idx \in 1 .. Len(children)
        BY <2>0, <2>4, <3>1 DEF Retire, RetireOne
      <4>2. Elems(children') = Elems(children) \ {children[idx]}
        BY <1>1, <2>0, <4>1, SwapRemoveElems DEF FInv, Once
      <4>3. proc[children[idx]] = "gone" /\ quiet[children[idx]] >= EmptyLimit
        BY <1>1, <2>0, <3>1, <4>1 DEF FInv, Paired, Retireable
      <4> QED
        BY <4>1, <4>2, <4>3
    <3>2. CASE ~Retireable(idx)
      BY <2>1, <2>4, <3>2 DEF Retire
    <3> QED
      BY <3>1, <3>2
  <2>5. CASE Processes \/ Discover \/ ScanDone \/ EndDiscover \/ StartDrain \/ EndDrain
    <3>1. pending' = pending /\ children' = children
      BY <2>5 DEF Processes, Fork, MapCtlRing, ForkInit, Write, Exit, Kill, tracker, Discover,
                  ScanDone, EndDiscover, StartDrain, EndDrain
    <3> QED
      BY <2>1, <3>1
  <2>6. CASE \E p \in Pids : ScanPid(p)
    BY <2>1, <2>6 DEF ScanPid, RegisterFork
  <2>7. CASE DrainChild
    <3>1. children[idx] \in Pids
      BY <2>0, <2>7 DEF DrainChild
    <3> QED
      BY <2>1, <2>7, <3>1 DEF DrainChild, RegisterFork
  <2> QED
    BY <1>1, <2>2, <2>3, <2>4, <2>5, <2>6, <2>7 DEF Next, DiscoverStep, DrainStep
<1>2. ASSUME FInv, [Next]_vars PROVE [A]_vars
  BY <1>1, <1>2
<1> QED
  BY <1>2, ForkInductive, PTL DEF Spec, ForgetsTheRightOne

=============================================================================
