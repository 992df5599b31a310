------------------------ MODULE TrackerSafety_proofs ------------------------
(***************************************************************************)
(* Theorems about three trackers of process_event: the shadow registers    *)
(* (RtmapRegs), the hazard reports (RtmapHazards) and the address index    *)
(* with the shadow stacks (RtmapFrames).                                   *)
(***************************************************************************)
EXTENDS RtmapRegs, RtmapHazards, RtmapFrames, Lists_proofs, FiniteSetTheorems

-----------------------------------------------------------------------------
(* The registers.  The value of a load depends on the bytes loaded alone.  *)

LEMMA ValueLocal ==
    ASSUME NEW m1, NEW m2, NEW a \in Nat, NEW n \in Nat,
           \A b \in Within(a, n) : m1[b] = m2[b]
    PROVE  Value(m1, a, n) = Value(m2, a, n)
<1> DEFINE Step1(g, i) == IF i = 0 THEN 0 ELSE Base * g[i - 1] + m1[a + n - i]
           Step2(g, i) == IF i = 0 THEN 0 ELSE Base * g[i - 1] + m2[a + n - i]
<1>1. \A i \in 0..n : i # 0 => m1[a + n - i] = m2[a + n - i]
  <2> SUFFICES ASSUME NEW i \in 0..n, i # 0 PROVE m1[a + n - i] = m2[a + n - i]
    OBVIOUS
  <2>1. a + n - i \in Within(a, n)
    BY DEF Within
  <2> QED
    BY <2>1
<1>2. \A g : [i \in 0..n |-> Step1(g, i)] = [i \in 0..n |-> Step2(g, i)]
    BY <1>1
<1>3. (CHOOSE g : g = [i \in 0..n |-> Step1(g, i)]) = (CHOOSE g : g = [i \in 0..n |-> Step2(g, i)])
  <2> HIDE DEF Step1, Step2
  <2> QED
    BY <1>2, Zenon
<1> QED
    BY <1>3, Zenon DEF Value

(* A register: a confidence, a source that was loaded, and the two history *)
(* marks.  Values are whatever the bytes make.                             *)
IsReg(x) ==
    /\ x = [val |-> x.val, conf |-> x.conf, src |-> x.src, size |-> x.size,
            missed |-> x.missed, hit |-> x.hit]
    /\ x.conf \in 0..6 /\ x.missed \in BOOLEAN /\ x.hit \in BOOLEAN
    /\ x.src \in Nat
    /\ x.src # 0 => x.size \in LoadSizes /\ Within(x.src, x.size) \subseteq Bytes

(* What CoherenceExplained says of one register, of a file or saved.       *)
Coherent(m, x) ==
    /\ x.src # 0 /\ x.conf > Stale /\ ~x.missed => x.val = Value(m, x.src, x.size)
    /\ x.conf = Stale => x.hit

File(m, rs) == rs = [r \in Regs |-> rs[r]] /\ \A r \in Regs : IsReg(rs[r]) /\ Coherent(m, rs[r])

(* The registers a CALL saved come back with its RETURN, so they have to   *)
(* stay coherent while they are away.                                      *)
CInv ==
    /\ mem \in [Bytes -> 0..(Base - 1)]
    /\ File(mem, regs)
    /\ \E S : callStack \in Seq(S)
    /\ \A i \in 1..Len(callStack) : File(mem, callStack[i])

USE RegsAssumption

LEMMA SetCoherent ==
    ASSUME NEW m, NEW v, NEW c \in {Unknown, Speculative, AbiInferred, Observed}
    PROVE  IsReg(Set(v, c)) /\ Coherent(m, Set(v, c))
BY DEF IsReg, Coherent, Set, Unknown, Stale, Speculative, AbiInferred, Observed

(* Overlapping is touching, for accesses of at least a byte.               *)
LEMMA OverlapTouches ==
    ASSUME NEW a \in Nat, NEW n \in Nat \ {0}, NEW x, IsReg(x), x.src # 0
    PROVE  Overlap(a, n, x.src, x.size) <=> Touches(a, n, x)
<1>1. x.src \in Nat /\ x.size \in Nat \ {0}
    BY DEF IsReg
<1>2. ASSUME Overlap(a, n, x.src, x.size) PROVE Touches(a, n, x)
  <2> DEFINE m == IF a < x.src THEN x.src ELSE a
  <2>1. m \in Within(a, n) /\ m \in Within(x.src, x.size)
    BY <1>1, <1>2 DEF Overlap, Within
  <2> QED
    BY <2>1 DEF Touches
<1>3. ASSUME Touches(a, n, x) PROVE Overlap(a, n, x.src, x.size)
  <2>1. PICK m : m \in Within(a, n) /\ m \in Within(x.src, x.size)
    BY <1>3 DEF Touches
  <2> QED
    BY <1>1, <2>1 DEF Overlap, Within
<1> QED
    BY <1>2, <1>3

(* A store of n equal bytes at a.                                          *)
Stored(a, n, byte) ==
    /\ a \in Nat /\ n \in StoreSizes /\ Within(a, n) \subseteq Bytes
    /\ mem' = [b \in Bytes |-> IF b \in Within(a, n) THEN byte ELSE mem[b]]

LEMMA UntouchedValue ==
    ASSUME NEW a, NEW n, NEW byte, Stored(a, n, byte), NEW x, IsReg(x), x.src # 0,
           ~Touches(a, n, x)
    PROVE  Value(mem', x.src, x.size) = Value(mem, x.src, x.size)
<1>1. x.src \in Nat /\ x.size \in Nat /\ Within(x.src, x.size) \subseteq Bytes
    BY DEF IsReg
<1>2. \A b \in Within(x.src, x.size) : mem'[b] = mem[b]
    BY <1>1 DEF Stored, Touches
<1> QED
    BY <1>1, <1>2, ValueLocal

(* A write that is not checked: a touched register is marked.              *)
LEMMA PassedCoherent ==
    ASSUME NEW a, NEW n, NEW byte, Stored(a, n, byte), NEW x, IsReg(x), Coherent(mem, x)
    PROVE  IsReg(Passed(x, a, n)) /\ Coherent(mem', Passed(x, a, n))
<1> DEFINE y == Passed(x, a, n)
<1>1. /\ y = [x EXCEPT !.missed = x.missed \/ Touches(a, n, x)]
      /\ Touches(a, n, x) \in BOOLEAN
    BY DEF Passed, Touches
<1>2. /\ y.val = x.val /\ y.conf = x.conf /\ y.src = x.src /\ y.size = x.size /\ y.hit = x.hit
      /\ y.missed = (x.missed \/ Touches(a, n, x))
      /\ y = [val |-> y.val, conf |-> y.conf, src |-> y.src, size |-> y.size,
              missed |-> y.missed, hit |-> y.hit]
    BY <1>1 DEF IsReg
<1>3. IsReg(y)
    BY <1>1, <1>2 DEF IsReg
<1>4. y.src # 0 /\ y.conf > Stale /\ ~y.missed => y.val = Value(mem', y.src, y.size)
    BY <1>2, UntouchedValue DEF Coherent
<1> QED
    BY <1>2, <1>3, <1>4 DEF Coherent

(* A write that is checked: a register whose source has changed becomes    *)
(* stale, but for a part of the source, which is marked.                   *)
LEMMA CheckedCoherent ==
    ASSUME NEW a, NEW n, NEW byte, Stored(a, n, byte), NEW x, IsReg(x), Coherent(mem, x)
    PROVE  LET val == Value(mem', a, IF n < Word THEN n ELSE Word)
           IN IsReg(Checked(x, a, n, val)) /\ Coherent(mem', Checked(x, a, n, val))
<1> DEFINE val == Value(mem', a, IF n < Word THEN n ELSE Word)
           y == Checked(x, a, n, val)
           touched == Touches(a, n, x)
           part == touched /\ n <= Word /\ <<a, n>> # <<x.src, x.size>>
           stale == /\ x.src # 0 /\ Overlap(a, n, x.src, x.size)
                    /\ (n > Word \/ x.val # val) /\ x.conf > Stale
<1>0. /\ touched \in BOOLEAN /\ part \in BOOLEAN /\ stale \in BOOLEAN
      /\ x.conf \in 0..6 /\ x.hit \in BOOLEAN /\ x.missed \in BOOLEAN
    BY DEF Touches, IsReg
<1>1. y = [x EXCEPT !.hit = x.hit \/ touched, !.missed = x.missed \/ part,
                    !.conf = IF stale THEN Stale ELSE x.conf]
    BY DEF Checked
<1>2. /\ y.val = x.val /\ y.src = x.src /\ y.size = x.size
      /\ y.conf = (IF stale THEN Stale ELSE x.conf)
      /\ y.hit = (x.hit \/ touched) /\ y.missed = (x.missed \/ part)
      /\ y = [val |-> y.val, conf |-> y.conf, src |-> y.src, size |-> y.size,
              missed |-> y.missed, hit |-> y.hit]
  <2> HIDE DEF touched, part, stale, y
  <2> QED
    BY <1>1 DEF IsReg
<1>3. stale => touched
    BY OverlapTouches DEF Stored
<1>4. IsReg(y)
  <2> HIDE DEF touched, part, stale, y
  <2>1. Stale \in 0..6
    BY DEF Stale
  <2>2. y.conf \in 0..6 /\ y.missed \in BOOLEAN /\ y.hit \in BOOLEAN
    BY <1>0, <1>2, <2>1
  <2> QED
    BY <1>2, <2>2 DEF IsReg
<1>5. y.conf = Stale => y.hit
    BY <1>0, <1>2, <1>3 DEF Coherent
<1>6. ASSUME y.src # 0, y.conf > Stale, ~y.missed PROVE y.val = Value(mem', y.src, y.size)
  <2>1. x.src # 0 /\ ~stale /\ x.conf > Stale /\ ~x.missed /\ ~part
    BY <1>0, <1>2, <1>6 DEF Stale
  <2>2. CASE ~touched
    BY <1>2, <2>1, <2>2, UntouchedValue DEF Coherent
  <2>3. CASE touched
    <3>1. Overlap(a, n, x.src, x.size)
        BY <2>1, <2>3, OverlapTouches DEF Stored
    <3>2. ~(n > Word) /\ x.val = val
        BY <2>1, <3>1
    <3>3. n <= Word /\ a = x.src /\ n = x.size
        BY <2>1, <2>3, <3>2 DEF Stored
    <3>4. (IF n < Word THEN n ELSE Word) = n
      <4>1. n \in Nat
        BY DEF Stored
      <4> QED
        BY <3>3, <4>1
    <3> QED
        BY <1>2, <3>2, <3>3, <3>4
  <2> QED
    BY <2>2, <2>3
<1> QED
    BY <1>4, <1>5, <1>6 DEF Coherent

-----------------------------------------------------------------------------
(* The steps.                                                              *)

LEMMA CInvInit == RegInit => CInv
<1> SUFFICES ASSUME RegInit PROVE CInv
    OBVIOUS
<1>1. mem \in [Bytes -> 0..(Base - 1)]
    BY DEF RegInit
<1>2. File(mem, regs)
    BY SetCoherent DEF RegInit, File
<1>3. callStack \in Seq({}) /\ Len(callStack) = 0
    BY DEF RegInit
<1> QED
    BY <1>1, <1>2, <1>3 DEF CInv

(* While memory stays, the files need no second look.                      *)
LEMMA SameMemory ==
    ASSUME CInv, mem' = mem, File(mem, regs'),
           \E S : callStack' \in Seq(S),
           \A i \in 1..Len(callStack') : File(mem, callStack'[i])
    PROVE  CInv'
BY DEF CInv

LEMMA SnapshotCInv ==
    ASSUME CInv, Snapshot PROVE CInv'
<1>1. PICK v : regs' = [r \in Regs |-> Set(v, Observed)]
    BY DEF Snapshot
<1>2. File(mem, regs')
    BY <1>1, SetCoherent DEF File
<1>3. mem' = mem /\ callStack' = callStack
    BY DEF Snapshot
<1> QED
    BY <1>2, <1>3, SameMemory DEF CInv

LEMMA RegCallCInv ==
    ASSUME CInv, RegCall PROVE CInv'
<1>1. /\ mem' = mem /\ callStack' = Append(callStack, regs) /\ regs' = AfterCall(regs)
      /\ File(mem, regs)
    BY DEF RegCall, CInv
<1>2. File(mem, regs')
  <2>1. ASSUME NEW r \in Regs PROVE IsReg(regs'[r]) /\ Coherent(mem, regs'[r])
    <3>1. regs'[r] \in {Set(0, Observed), Set(regs[r].val, AbiInferred),
                        Set(regs[r].val, Speculative), regs[r]}
        BY <1>1 DEF AfterCall
    <3> QED
        BY <1>1, <3>1, SetCoherent DEF File
  <2> QED
    BY <1>1, <2>1 DEF File, AfterCall
<1>3. PICK S : callStack \in Seq(S)
    BY DEF CInv
<1>4. /\ callStack' \in Seq(S \cup {regs})
      /\ Len(callStack') = Len(callStack) + 1 /\ Len(callStack) \in Nat
      /\ \A i \in 1..Len(callStack) : callStack'[i] = callStack[i]
      /\ callStack'[Len(callStack) + 1] = regs
  <2>1. callStack \in Seq(S \cup {regs}) /\ regs \in S \cup {regs}
    BY <1>3
  <2> HIDE <1>3
  <2> QED
    BY <1>1, <2>1
<1>5. \A i \in 1..Len(callStack') : File(mem, callStack'[i])
  <2> SUFFICES ASSUME NEW i \in 1..Len(callStack') PROVE File(mem, callStack'[i])
    OBVIOUS
  <2>1. i \in 1..Len(callStack) \/ i = Len(callStack) + 1
    BY <1>4
  <2> QED
    BY <1>1, <1>4, <2>1 DEF CInv
<1> QED
    BY <1>1, <1>2, <1>4, <1>5, SameMemory

LEMMA RegReturnCInv ==
    ASSUME CInv, RegReturn PROVE CInv'
<1>0. mem' = mem
    BY DEF RegReturn
<1>1. CASE callStack = <<>>
    BY <1>0, <1>1, SameMemory DEF RegReturn, CInv
<1>2. CASE callStack # <<>>
  <2> DEFINE n == Len(callStack)
             back == AfterReturn(regs, callStack[n])
  <2>1. PICK S : callStack \in Seq(S)
    BY DEF CInv
  <2>2. n \in Nat \ {0}
    BY <1>2, <2>1
  <2>3. File(mem, regs) /\ File(mem, callStack[n])
    BY <2>2 DEF CInv
  <2>4. /\ regs' = (IF cfi THEN Verified(back) ELSE back)
        /\ callStack' = SubSeq(callStack, 1, n - 1)
    BY <1>2 DEF RegReturn
  <2>5. ASSUME NEW r \in Regs PROVE IsReg(back[r]) /\ Coherent(mem, back[r])
    <3>1. back[r] \in {Set(regs[r].val, Speculative), callStack[n][r], regs[r]}
        BY DEF AfterReturn
    <3> QED
        BY <2>3, <2>5, <3>1, SetCoherent DEF File
  <2>6. ASSUME NEW r \in Regs PROVE IsReg(Verified(back)[r]) /\ Coherent(mem, Verified(back)[r])
    <3> DEFINE x == back[r]
               y == [x EXCEPT !.conf = CfiVerified]
    <3>1. IsReg(x) /\ Coherent(mem, x)
        BY <2>5
    <3>2. \/ Verified(back)[r] = x
          \/ x.conf >= Speculative /\ Verified(back)[r] = y
        BY DEF Verified
    <3> HIDE DEF x, back
    <3>3. ASSUME x.conf >= Speculative PROVE IsReg(y) /\ Coherent(mem, y)
      <4>1. /\ y = [val |-> x.val, conf |-> CfiVerified, src |-> x.src, size |-> x.size,
                    missed |-> x.missed, hit |-> x.hit]
            /\ x.conf \in 0..6 /\ x.conf > Stale /\ CfiVerified \in 0..6 /\ CfiVerified > Stale
          BY <3>1, <3>3 DEF IsReg, CfiVerified, Stale, Speculative
      <4> HIDE DEF y
      <4>2. IsReg(y)
          BY <3>1, <4>1 DEF IsReg
      <4>3. Coherent(mem, y)
          BY <3>1, <4>1 DEF Coherent, CfiVerified, Stale
      <4> QED
          BY <4>2, <4>3
    <3> QED
        BY <3>1, <3>2, <3>3
  <2>7. File(mem, regs')
    <3>1. back = [r \in Regs |-> back[r]] /\ Verified(back) = [r \in Regs |-> Verified(back)[r]]
        BY DEF AfterReturn, Verified
    <3> HIDE DEF back
    <3> QED
        BY <2>4, <2>5, <2>6, <3>1 DEF File
  <2>8. /\ callStack' \in Seq(S) /\ Len(callStack') = n - 1
        /\ \A i \in 1..(n - 1) : callStack'[i] = callStack[i]
    <3> HIDE DEF back
    <3>1. n - 1 \in Nat /\ n - 1 <= n /\ callStack' = SubSeq(callStack, 1, n - 1)
        BY <2>2, <2>4
    <3>2. Len(callStack) = n
        OBVIOUS
    <3> HIDE DEF n
    <3> QED
        BY <2>1, <2>2, <3>1, <3>2, SubSeqProperties
  <2>9. \A i \in 1..Len(callStack') : File(mem, callStack'[i])
    BY <2>2, <2>8 DEF CInv
  <2> QED
    BY <1>0, <2>7, <2>8, <2>9, SameMemory
<1> QED
    BY <1>1, <1>2

LEMMA ReloadCInv ==
    ASSUME CInv, NEW r0 \in CalleeSaved \cup CallerSaved, NEW a \in Bytes, NEW n \in LoadSizes,
           Reload(r0, a, n)
    PROVE  CInv'
<1> DEFINE v == Value(mem, a, n)
           x == [Set(v, Observed) EXCEPT !.src = a, !.size = n]
<1>1. /\ mem' = mem /\ callStack' = callStack /\ regs' = [regs EXCEPT ![r0] = x]
      /\ Within(a, n) \subseteq Bytes /\ File(mem, regs)
    BY DEF Reload, CInv
<1>2. x = [val |-> v, conf |-> Observed, src |-> a, size |-> n, missed |-> FALSE, hit |-> FALSE]
  <2> DEFINE y == Set(v, Observed)
             no == FALSE
  <2>1. y = [val |-> v, conf |-> Observed, src |-> 0, size |-> 0, missed |-> no, hit |-> no]
    BY DEF Set
  <2>2. x = [y EXCEPT !.src = a, !.size = n]
    OBVIOUS
  <2> HIDE DEF v, y, x, no
  <2>3. x = [val |-> v, conf |-> Observed, src |-> a, size |-> n, missed |-> no, hit |-> no]
    BY <2>1, <2>2
  <2> QED
    BY <2>3 DEF no
<1>3. IsReg(x) /\ Coherent(mem, x)
  <2>1. x.val = v /\ x.conf = 6 /\ x.src = a /\ x.size = n /\ x.missed = FALSE /\ x.hit = FALSE
    <3> HIDE DEF v, x
    <3> QED
        BY <1>2 DEF Observed
  <2>2. IsReg(x)
    <3> HIDE DEF v, x
    <3> QED
        BY <1>1, <1>2, <2>1 DEF IsReg, Observed
  <2>3. Coherent(mem, x)
    <3> HIDE DEF x
    <3> QED
        BY <2>1 DEF Coherent, Stale
  <2> QED
    BY <2>2, <2>3
<1>4. File(mem, regs')
  <2> HIDE DEF x
  <2>1. r0 \in Regs
    BY DEF Regs
  <2> QED
    BY <1>1, <1>3, <2>1 DEF File
<1> QED
    BY <1>1, <1>4, SameMemory DEF CInv

LEMMA RegWriteCInv ==
    ASSUME CInv, NEW t \in RegThreads, NEW a \in Bytes, NEW n \in StoreSizes,
           NEW byte \in 0..(Base - 1), NEW tr \in BOOLEAN, RegWrite(t, a, n, byte, tr)
    PROVE  CInv'
<1> DEFINE val == Value(mem', a, IF n < Word THEN n ELSE Word)
<1>1. Stored(a, n, byte)
    BY DEF RegWrite, Stored
<1>2. \/ regs' = [r \in Regs |-> Checked(regs[r], a, n, val)]
      \/ regs' = [r \in Regs |-> Passed(regs[r], a, n)]
  <2>1. mem' = [b \in Bytes |-> IF b \in Within(a, n) THEN byte ELSE mem[b]]
    BY DEF RegWrite
  <2>2. \E checked \in BOOLEAN :
           regs' = [r \in Regs |-> IF checked THEN Checked(regs[r], a, n, val)
                                   ELSE Passed(regs[r], a, n)]
    BY <2>1 DEF RegWrite
  <2> HIDE DEF val
  <2> QED
    BY <2>2
<1>3. callStack' = [i \in DOMAIN callStack |-> [r \in Regs |-> Passed(callStack[i][r], a, n)]]
    BY DEF RegWrite
<1> HIDE DEF val
<1>4. mem' \in [Bytes -> 0..(Base - 1)]
    BY <1>1 DEF Stored, CInv
<1>5. ASSUME NEW rs, File(mem, rs)
      PROVE  File(mem', [r \in Regs |-> Passed(rs[r], a, n)])
  <2>1. \A r \in Regs : /\ IsReg(Passed(rs[r], a, n))
                        /\ Coherent(mem', Passed(rs[r], a, n))
    BY <1>1, <1>5, PassedCoherent DEF File
  <2> QED
    BY <2>1 DEF File
<1>6. File(mem', regs')
  <2>1. \A r \in Regs : IsReg(regs[r]) /\ Coherent(mem, regs[r])
    BY DEF CInv, File
  <2>2. \A r \in Regs : /\ IsReg(Checked(regs[r], a, n, val))
                        /\ Coherent(mem', Checked(regs[r], a, n, val))
    BY <1>1, <2>1, CheckedCoherent DEF val
  <2>3. CASE regs' = [r \in Regs |-> Checked(regs[r], a, n, val)]
    BY <2>2, <2>3 DEF File
  <2>4. CASE regs' = [r \in Regs |-> Passed(regs[r], a, n)]
    BY <1>5, <2>4 DEF CInv
  <2> QED
    BY <1>2, <2>3, <2>4
<1>7. PICK S : callStack \in Seq(S)
    BY DEF CInv
<1>8. DOMAIN callStack = 1..Len(callStack) /\ Len(callStack) \in Nat
    BY <1>7
<1>9. /\ \A i \in 1..Len(callStack) : File(mem', callStack'[i])
      /\ Len(callStack') = Len(callStack)
      /\ \E T : callStack' \in Seq(T)
  <2>1. \A i \in 1..Len(callStack) : callStack'[i] = [r \in Regs |-> Passed(callStack[i][r], a, n)]
    BY <1>3, <1>8
  <2>2. \A i \in 1..Len(callStack) : File(mem', callStack'[i])
    <3> SUFFICES ASSUME NEW i \in 1..Len(callStack) PROVE File(mem', callStack'[i])
        OBVIOUS
    <3>1. File(mem, callStack[i])
        BY DEF CInv
    <3>2. File(mem', [r \in Regs |-> Passed(callStack[i][r], a, n)])
        BY <1>5, <3>1, Zenon
    <3> QED
        BY <2>1, <3>2
  <2> DEFINE T == {callStack'[i] : i \in 1..Len(callStack)}
  <2>3. callStack' \in [1..Len(callStack) -> T]
    BY <1>3, <1>8
  <2>4. callStack' \in Seq(T)
    BY <1>8, <2>3, SeqDef
  <2>5. Len(callStack') = Len(callStack)
    BY <1>3, <1>8, <2>4
  <2> QED
    BY <2>2, <2>4, <2>5
<1> QED
    BY <1>4, <1>6, <1>9 DEF CInv

LEMMA CInvNext == CInv /\ [RegNext]_regVars => CInv'
<1> SUFFICES ASSUME CInv, [RegNext]_regVars PROVE CInv'
    OBVIOUS
<1>1. CASE Snapshot
    BY <1>1, SnapshotCInv
<1>2. CASE RegCall
    BY <1>2, RegCallCInv
<1>3. CASE RegReturn
    BY <1>3, RegReturnCInv
<1>4. CASE Tick
    BY <1>4, SameMemory DEF Tick, CInv
<1>5. CASE \E a \in Bytes, n \in LoadSizes, r \in CalleeSaved \cup CallerSaved : Reload(r, a, n)
    BY <1>5, ReloadCInv
<1>6. CASE \E t \in RegThreads, a \in Bytes, n \in StoreSizes, byte \in 0..(Base - 1), tr \in BOOLEAN :
              RegWrite(t, a, n, byte, tr)
    BY <1>6, RegWriteCInv
<1>7. CASE UNCHANGED regVars
    BY <1>7, SameMemory DEF regVars, CInv
<1> QED
    BY <1>1, <1>2, <1>3, <1>4, <1>5, <1>6, <1>7 DEF RegNext

(* A register that was loaded from memory and is trusted has the value its *)
(* source has now, unless a write to the source was one that the WRITE     *)
(* handler does not check, and a stale one was overwritten by another      *)
(* thread: for every size of memory, access and line, through calls that   *)
(* save and returns that restore.                                          *)
THEOREM RegistersCoherent == RegSpec => []CoherenceExplained
<1>1. CInv => CoherenceExplained
    BY DEF CInv, File, Coherent, CoherenceExplained
<1> QED
    BY <1>1, CInvInit, CInvNext, PTL DEF RegSpec

-----------------------------------------------------------------------------
(* The hazard reports.                                                     *)
(*                                                                         *)
(* The engine takes the rings in any order, so its table of blocks is in   *)
(* general no heap that ever was.  What can be said is said of words that  *)
(* one thread alone has used: for them the table is the heap of that       *)
(* thread as it was before its pending events.                             *)

Blocks == [base : Words, size : BlockSizes]
Events ==
    [kind : {"alloc"}, addr : Words, size : BlockSizes]
      \cup [kind : {"free"}, addr : Words, size : {0}]
      \cup [kind : {"write"}, addr : Words, size : WriteSizes, hit : SUBSET Blocks]
      \cup [kind : {"call"}, addr : StackPtrs, size : {0}]

In(w, b) == w \in WordsOf(b.base, b.size)
Own(t, w) == w \in Words /\ users[w] \subseteq {t}

HTypes ==
    /\ users \in [Words -> SUBSET Workers]
    /\ rings \in [Workers -> Seq(Events)]
    /\ DOMAIN blocks \subseteq Words /\ DOMAIN allocs \subseteq Words /\ DOMAIN stamps \subseteq Words
    /\ \A b \in DOMAIN blocks : blocks[b] \in BlockSizes
    /\ \A b \in DOMAIN allocs : allocs[b] \in BlockSizes
    /\ stackLo \in [Workers -> Nat] /\ stackHi \in [Workers -> Nat]
    /\ hazards \in Seq([kind : {"OOB", "HOLE"}, addr : Words]) /\ Len(hazards) <= HazardCap
    /\ violations \in Seq(Words)

(* The blocks of the target do not overlap, and somebody used their words. *)
Heap ==
    /\ \A b \in DOMAIN blocks : \A w \in WordsOf(b, blocks[b]) : w \in Words /\ users[w] # {}
    /\ \A b, c \in DOMAIN blocks :
          b # c => WordsOf(b, blocks[b]) \cap WordsOf(c, blocks[c]) = {}

(* A thread has used what its event names.                                 *)
UsedAt(us, t, e) ==
    /\ e.kind \in {"alloc", "free", "write"} => t \in us[e.addr]
    /\ e.kind = "alloc" => \A w \in WordsOf(e.addr, e.size) : w \in Words /\ t \in us[w]
    /\ e.kind = "write" =>
          \A b \in e.hit : In(e.addr, b) /\ \A w \in WordsOf(b.base, b.size) : w \in Words /\ us[w] # {}
UsedBy(t, e) == UsedAt(users, t, e)

EventUse == \A t \in Workers : \A k \in 1..Len(rings[t]) : UsedBy(t, rings[t][k])

(* The shadow types are a part of the table, and all of it at an address   *)
(* that one thread alone has used.                                         *)
StampSync ==
    /\ \A b \in DOMAIN stamps : b \in DOMAIN allocs /\ stamps[b] = allocs[b]
    /\ \A t \in Workers : \A b \in DOMAIN allocs : Own(t, b) => b \in DOMAIN stamps

(* What a thread's event does to the blocks the thread holds.              *)
After(u, e) ==
    CASE e.kind = "alloc" -> {b \in u : b.base # e.addr} \cup {[base |-> e.addr, size |-> e.size]}
      [] e.kind = "free" -> {b \in u : b.base # e.addr}
      [] OTHER -> u

(* U[t][k]: the blocks t had allocated and not freed itself before its     *)
(* k-th pending event.                                                     *)
Steps(U) ==
    \A t \in Workers : \A k \in 1..Len(rings[t]) : U[t][k + 1] = After(U[t][k], rings[t][k])

TableSync(U) ==
    \A t \in Workers :
        /\ \A b \in U[t][1] : Own(t, b.base) => b.base \in DOMAIN allocs /\ allocs[b.base] = b.size
        /\ \A q \in DOMAIN allocs : \A w \in WordsOf(q, allocs[q]) :
              Own(t, w) => [base |-> q, size |-> allocs[q]] \in U[t][1]

HeapSync(U) ==
    \A t \in Workers : \A b \in Blocks : \A w \in WordsOf(b.base, b.size) :
        Own(t, w) =>
            (b \in U[t][Len(rings[t]) + 1] <=> b.base \in DOMAIN blocks /\ blocks[b.base] = b.size)

Apart(U) ==
    \A t \in Workers : \A k \in 1..(Len(rings[t]) + 1) : \A b, c \in U[t][k] :
        \A w \in Words : Own(t, w) /\ In(w, b) /\ In(w, c) => b = c

WriteSync(U) ==
    \A t \in Workers : \A k \in 1..Len(rings[t]) :
        rings[t][k].kind = "write" =>
            \A b \in rings[t][k].hit :
                (\A w \in WordsOf(b.base, b.size) : Own(t, w)) => b \in U[t][k]

Held == [Workers -> [Nat -> SUBSET Blocks]]
Views(U) == Steps(U) /\ TableSync(U) /\ HeapSync(U) /\ Apart(U) /\ WriteSync(U)

InHeap(b) == b.base \in DOMAIN blocks /\ blocks[b.base] = b.size

LEMMA Sizes ==
    /\ Words \subseteq Nat \ {0} /\ BlockSizes \subseteq Nat \ {0} /\ WriteSizes \subseteq Nat \ {0}
    /\ StackPtrs \subseteq Nat /\ StackSpan \in Nat
    /\ HazardCap \in Nat /\ ViolationCap \in Nat \ {0}
BY HazardsAssumption

USE Sizes

-----------------------------------------------------------------------------
(* Words, events and rings.                                                *)

LEMMA WordFacts ==
    ASSUME NEW b \in Blocks
    PROVE  /\ b.base \in Words /\ b.size \in BlockSizes /\ b.base \in Nat /\ b.size \in Nat \ {0}
           /\ b = [base |-> b.base, size |-> b.size]
           /\ b.base \in WordsOf(b.base, b.size)
<1>1. /\ b.base \in Words /\ b.size \in BlockSizes
      /\ b = [base |-> b.base, size |-> b.size]
    BY DEF Blocks
<1>2. b.base \in Nat /\ b.size \in Nat \ {0}
    BY <1>1
<1>3. \A x \in Nat, n \in Nat \ {0} : x \in WordsOf(x, n)
    BY DEF WordsOf
<1> QED
    BY <1>1, <1>2, <1>3

LEMMA EventFacts ==
    ASSUME NEW e \in Events
    PROVE  /\ e.kind \in {"alloc", "free", "write", "call"}
           /\ e.kind \in {"alloc", "free", "write"} => e.addr \in Words /\ e.addr \in Nat
           /\ e.kind = "alloc" => /\ e.size \in BlockSizes
                                  /\ [base |-> e.addr, size |-> e.size] \in Blocks
           /\ e.kind = "write" => e.size \in WriteSizes /\ e.hit \in SUBSET Blocks
           /\ e.kind = "call" => e.addr \in StackPtrs
BY DEF Events, Blocks

LEMMA AfterHeld ==
    ASSUME NEW u \in SUBSET Blocks, NEW e \in Events
    PROVE  After(u, e) \in SUBSET Blocks
BY EventFacts DEF After

LEMMA RingAppend ==
    ASSUME HTypes, NEW t \in Workers, NEW e \in Events,
           rings' = [rings EXCEPT ![t] = Append(@, e)]
    PROVE  /\ \A s \in Workers : rings[s] \in Seq(Events) /\ Len(rings[s]) \in Nat
           /\ rings' \in [Workers -> Seq(Events)]
           /\ \A s \in Workers : s # t => rings'[s] = rings[s]
           /\ Len(rings'[t]) = Len(rings[t]) + 1
           /\ rings'[t][Len(rings[t]) + 1] = e
           /\ \A k \in 1..Len(rings[t]) : rings'[t][k] = rings[t][k]
<1>1. /\ rings \in [Workers -> Seq(Events)] /\ rings[t] \in Seq(Events)
      /\ rings'[t] = Append(rings[t], e)
      /\ \A s \in Workers : s # t => rings'[s] = rings[s]
    BY DEF HTypes
<1>2. Append(rings[t], e) \in Seq(Events)
    BY <1>1
<1>3. rings' \in [Workers -> Seq(Events)]
    BY <1>1, <1>2
<1>4. /\ Len(rings'[t]) = Len(rings[t]) + 1
      /\ rings'[t][Len(rings[t]) + 1] = e
      /\ \A k \in 1..Len(rings[t]) : rings'[t][k] = rings[t][k]
    BY <1>1
<1> QED
    BY <1>1, <1>3, <1>4

LEMMA RingTail ==
    ASSUME HTypes, NEW t \in Workers, rings[t] # <<>>,
           rings' = [rings EXCEPT ![t] = Tail(@)]
    PROVE  /\ \A s \in Workers : rings[s] \in Seq(Events) /\ Len(rings[s]) \in Nat
           /\ rings' \in [Workers -> Seq(Events)]
           /\ \A s \in Workers : s # t => rings'[s] = rings[s]
           /\ Len(rings[t]) >= 1 /\ Head(rings[t]) = rings[t][1] /\ Head(rings[t]) \in Events
           /\ Len(rings'[t]) = Len(rings[t]) - 1
           /\ \A k \in 1..Len(rings'[t]) : rings'[t][k] = rings[t][k + 1]
<1>1. /\ rings \in [Workers -> Seq(Events)] /\ rings[t] \in Seq(Events)
      /\ rings'[t] = Tail(rings[t])
      /\ \A s \in Workers : s # t => rings'[s] = rings[s]
    BY DEF HTypes
<1>2. /\ Len(rings[t]) >= 1 /\ Head(rings[t]) = rings[t][1] /\ Head(rings[t]) \in Events
      /\ Tail(rings[t]) \in Seq(Events) /\ Len(Tail(rings[t])) = Len(rings[t]) - 1
      /\ \A k \in 1..Len(Tail(rings[t])) : Tail(rings[t])[k] = rings[t][k + 1]
    BY <1>1, HeadTailProperties
<1>3. rings' \in [Workers -> Seq(Events)]
    BY <1>1, <1>2
<1> QED
    BY <1>1, <1>2, <1>3

-----------------------------------------------------------------------------
(* The target adds an event to a ring.                                     *)

LEMMA EmitViews ==
    ASSUME HTypes, NEW U \in Held, Views(U), NEW t \in Workers, NEW e \in Events,
           rings' = [rings EXCEPT ![t] = Append(@, e)], allocs' = allocs, Heap',
           \A w \in Words : users[w] \subseteq users'[w],
           \A s \in Workers : \A b \in Blocks : \A w \in WordsOf(b.base, b.size) :
               Own(s, w)' =>
                   (b \in (IF s = t THEN After(U[t][Len(rings[t]) + 1], e)
                           ELSE U[s][Len(rings[s]) + 1]) <=> InHeap(b)'),
           e.kind = "write" =>
               \A b \in e.hit : (\A w \in WordsOf(b.base, b.size) : Own(t, w)') =>
                   b \in U[t][Len(rings[t]) + 1]
    PROVE  \E U2 \in Held : Views(U2)'
<1> DEFINE L == Len(rings[t])
<1>1. /\ \A s \in Workers : Len(rings[s]) \in Nat
      /\ \A s \in Workers : s # t => rings'[s] = rings[s]
      /\ Len(rings'[t]) = L + 1 /\ rings'[t][L + 1] = e
      /\ \A k \in 1..L : rings'[t][k] = rings[t][k]
      /\ L \in Nat
    BY RingAppend
<1>2. \A s \in Workers : \A w : Own(s, w)' => Own(s, w)
    BY DEF Own
<1> DEFINE last == After(U[t][L + 1], e)
           more == [k \in Nat |-> IF k = L + 2 THEN last ELSE U[t][k]]
<1>3. PICK U2 : U2 = [U EXCEPT ![t] = more]
    OBVIOUS
<1>4. U2 \in Held
  <2>1. U[t] \in [Nat -> SUBSET Blocks] /\ U[t][L + 1] \in SUBSET Blocks
    BY <1>1 DEF Held
  <2>2. last \in SUBSET Blocks
    BY <2>1, AfterHeld
  <2> HIDE DEF last
  <2>3. more \in [Nat -> SUBSET Blocks]
    BY <2>1, <2>2
  <2> HIDE DEF more
  <2> QED
    BY <1>3, <2>3 DEF Held
<1>5. /\ \A s \in Workers : s # t => U2[s] = U[s]
      /\ \A k \in 1..(L + 1) : U2[t][k] = U[t][k]
      /\ U2[t][L + 2] = last
  <2>1. U2[t] = more /\ \A s \in Workers : s # t => U2[s] = U[s]
    BY <1>3 DEF Held
  <2> HIDE DEF last
  <2>2. \A k \in 1..(L + 1) : k \in Nat /\ k # L + 2
    BY <1>1
  <2>3. L + 2 \in Nat
    BY <1>1
  <2> QED
    BY <2>1, <2>2, <2>3
<1> HIDE DEF last, more
<1>6. Steps(U2)'
  <2> SUFFICES ASSUME NEW s \in Workers, NEW k \in 1..Len(rings'[s])
               PROVE  U2[s][k + 1] = After(U2[s][k], rings'[s][k])
    BY DEF Steps, After
  <2>1. CASE s # t
    BY <1>1, <1>5, <2>1 DEF Views, Steps
  <2>2. CASE s = t /\ k \in 1..L
    <3>1. k \in 1..(L + 1) /\ k + 1 \in 1..(L + 1)
        BY <1>1, <2>2
    <3>2. U[t][k + 1] = After(U[t][k], rings[t][k])
        BY <2>2 DEF Views, Steps
    <3> QED
        BY <1>1, <1>5, <2>2, <3>1, <3>2
  <2>3. CASE s = t /\ k = L + 1
    <3>1. k \in 1..(L + 1) /\ k + 1 = L + 2
        BY <1>1, <2>3
    <3> QED
        BY <1>1, <1>5, <2>3, <3>1 DEF last
  <2>4. s = t => k \in 1..L \/ k = L + 1
    BY <1>1
  <2> QED
    BY <2>1, <2>2, <2>3, <2>4
<1>7. TableSync(U2)'
  <2>1. \A s \in Workers : U2[s][1] = U[s][1]
    BY <1>1, <1>5
  <2> QED
    BY <1>2, <2>1 DEF Views, TableSync
<1>8. \A s \in Workers : U2[s][Len(rings'[s]) + 1] =
             IF s = t THEN last ELSE U[s][Len(rings[s]) + 1]
  <2>1. Len(rings'[t]) + 1 = L + 2
    BY <1>1
  <2> QED
    BY <1>1, <1>5, <2>1
<1>9. HeapSync(U2)'
  <2> SUFFICES ASSUME NEW s \in Workers, NEW b \in Blocks, NEW w \in WordsOf(b.base, b.size),
                      Own(s, w)'
               PROVE  b \in U2[s][Len(rings'[s]) + 1] <=> InHeap(b)'
    BY DEF HeapSync, InHeap
  <2> QED
    BY <1>8 DEF last
<1>10. Apart(U2)'
  <2> SUFFICES ASSUME NEW s \in Workers, NEW k \in 1..(Len(rings'[s]) + 1),
                      NEW b \in U2[s][k], NEW c \in U2[s][k],
                      NEW w \in Words, Own(s, w)', In(w, b), In(w, c)
               PROVE  b = c
    BY DEF Apart, In, WordsOf
  <2>1. Own(s, w)
    BY <1>2
  <2>2. CASE s # t
    BY <1>1, <1>5, <2>1, <2>2 DEF Views, Apart
  <2>3. CASE s = t /\ k \in 1..(L + 1)
    BY <1>1, <1>5, <2>1, <2>3 DEF Views, Apart
  <2>4. CASE s = t /\ k = L + 2
    <3>1. k = Len(rings'[s]) + 1
        BY <1>1, <2>4
    <3>2. L + 2 \in Nat
        BY <1>1
    <3>3. b \in Blocks /\ c \in Blocks
        BY <1>4, <2>4, <3>2 DEF Held
    <3>4. InHeap(b)' /\ InHeap(c)'
        BY <1>9, <3>1, <3>3 DEF HeapSync, In, InHeap
    <3>5. b.base = c.base
        BY <3>4 DEF Heap, In, InHeap
    <3> QED
        BY <3>3, <3>4, <3>5, WordFacts DEF InHeap
  <2>5. s = t => k \in 1..(L + 1) \/ k = L + 2
    BY <1>1
  <2> QED
    BY <2>2, <2>3, <2>4, <2>5
<1>11. WriteSync(U2)'
  <2> SUFFICES ASSUME NEW s \in Workers, NEW k \in 1..Len(rings'[s]),
                      rings'[s][k].kind = "write", NEW b \in rings'[s][k].hit,
                      \A w \in WordsOf(b.base, b.size) : Own(s, w)'
               PROVE  b \in U2[s][k]
    BY DEF WriteSync, WordsOf
  <2>1. \A w \in WordsOf(b.base, b.size) : Own(s, w)
    BY <1>2
  <2>2. CASE s # t
    BY <1>1, <1>5, <2>1, <2>2 DEF Views, WriteSync
  <2>3. CASE s = t /\ k \in 1..L
    <3>1. k \in 1..(L + 1)
        BY <1>1, <2>3
    <3>2. rings'[t][k] = rings[t][k] /\ U2[t][k] = U[t][k]
        BY <1>1, <1>5, <2>3, <3>1
    <3>3. b \in U[t][k]
        BY <2>1, <2>3, <3>2 DEF Views, WriteSync
    <3> QED
        BY <2>3, <3>2, <3>3
  <2>4. CASE s = t /\ k = L + 1
    <3>1. k \in 1..(L + 1)
        BY <1>1, <2>4
    <3> QED
        BY <1>1, <1>5, <2>4, <3>1
  <2>5. s = t => k \in 1..L \/ k = L + 1
    BY <1>1
  <2> QED
    BY <2>2, <2>3, <2>4, <2>5
<1> QED
    BY <1>4, <1>6, <1>7, <1>9, <1>10, <1>11 DEF Views

-----------------------------------------------------------------------------
(* The engine takes the first event of a ring: what it does to the table.  *)

TableStep(e) ==
    /\ e.kind = "alloc" => allocs' = Put(allocs, e.addr, e.size)
    /\ e.kind = "free" => allocs' = Minus(allocs, {e.addr})
    /\ e.kind \in {"write", "call"} => allocs' = allocs

LEMMA TableEffect ==
    ASSUME NEW e \in Events, TableStep(e)
    PROVE  /\ \A q \in DOMAIN allocs' :
                 \/ e.kind = "alloc" /\ q = e.addr /\ allocs'[q] = e.size
                 \/ q \in DOMAIN allocs /\ allocs'[q] = allocs[q]
                    /\ (e.kind \in {"alloc", "free"} => q # e.addr)
           /\ \A q \in DOMAIN allocs : (e.kind \in {"alloc", "free"} => q # e.addr) =>
                 q \in DOMAIN allocs' /\ allocs'[q] = allocs[q]
           /\ e.kind = "alloc" => e.addr \in DOMAIN allocs' /\ allocs'[e.addr] = e.size
           /\ e.kind = "free" => e.addr \notin DOMAIN allocs'
<1>1. CASE e.kind = "alloc"
  <2>1. allocs' = [y \in DOMAIN allocs \cup {e.addr} |-> IF y = e.addr THEN e.size ELSE allocs[y]]
    BY <1>1 DEF TableStep, Put
  <2> QED
    BY <1>1, <2>1
<1>2. CASE e.kind = "free"
  <2>1. allocs' = [y \in DOMAIN allocs \ {e.addr} |-> allocs[y]]
    BY <1>2 DEF TableStep, Minus
  <2> QED
    BY <1>2, <2>1
<1>3. CASE e.kind \in {"write", "call"}
    BY <1>3 DEF TableStep
<1> QED
    BY <1>1, <1>2, <1>3, EventFacts

LEMMA TakeViews ==
    ASSUME HTypes, EventUse, NEW U \in Held, Views(U), NEW t \in Workers, rings[t] # <<>>,
           rings' = [rings EXCEPT ![t] = Tail(@)], UNCHANGED <<blocks, users>>,
           TableStep(Head(rings[t]))
    PROVE  \E U2 \in Held : Views(U2)'
<1> DEFINE L == Len(rings[t])
           e == Head(rings[t])
<1>1. /\ \A s \in Workers : Len(rings[s]) \in Nat
      /\ \A s \in Workers : s # t => rings'[s] = rings[s]
      /\ L >= 1 /\ e = rings[t][1] /\ e \in Events /\ UsedBy(t, e)
      /\ Len(rings'[t]) = L - 1
      /\ \A k \in 1..(L - 1) : rings'[t][k] = rings[t][k + 1]
      /\ L \in Nat
  <2>1. /\ \A s \in Workers : Len(rings[s]) \in Nat
        /\ \A s \in Workers : s # t => rings'[s] = rings[s]
        /\ L >= 1 /\ e = rings[t][1] /\ e \in Events
        /\ Len(rings'[t]) = L - 1
        /\ \A k \in 1..Len(rings'[t]) : rings'[t][k] = rings[t][k + 1]
    BY RingTail
  <2>2. UsedBy(t, rings[t][1])
    BY <2>1 DEF EventUse
  <2> HIDE DEF e
  <2> QED
    BY <2>1, <2>2
<1>2. \A s \in Workers : \A w : Own(s, w)' <=> Own(s, w)
    BY DEF Own
<1> DEFINE less == [k \in Nat |-> U[t][k + 1]]
<1>3. PICK U2 : U2 = [U EXCEPT ![t] = less]
    OBVIOUS
<1>4. U2 \in Held
  <2>1. U[t] \in [Nat -> SUBSET Blocks]
    BY DEF Held
  <2>2. less \in [Nat -> SUBSET Blocks]
    BY <2>1
  <2> HIDE DEF less
  <2> QED
    BY <1>3, <2>2 DEF Held
<1>5. /\ \A s \in Workers : s # t => U2[s] = U[s]
      /\ \A k \in Nat : U2[t][k] = U[t][k + 1]
  <2>1. U2[t] = less /\ \A s \in Workers : s # t => U2[s] = U[s]
    BY <1>3 DEF Held
  <2> QED
    BY <2>1
<1>a. U2[t][1] = After(U[t][1], e)
  <2>1. U[t][1 + 1] = After(U[t][1], rings[t][1])
    BY <1>1 DEF Views, Steps
  <2> HIDE DEF e
  <2> QED
    BY <1>1, <1>5, <2>1
<1> HIDE DEF less, e
<1>6. Steps(U2)'
  <2> SUFFICES ASSUME NEW s \in Workers, NEW k \in 1..Len(rings'[s])
               PROVE  U2[s][k + 1] = After(U2[s][k], rings'[s][k])
    BY DEF Steps, After
  <2>1. CASE s # t
    <3>1. k \in 1..Len(rings[s]) /\ rings'[s][k] = rings[s][k] /\ U2[s] = U[s]
        BY <1>1, <1>5, <2>1
    <3>2. U[s][k + 1] = After(U[s][k], rings[s][k])
        BY <3>1 DEF Views, Steps
    <3> QED
        BY <3>1, <3>2
  <2>2. CASE s = t
    <3>1. k \in 1..(L - 1) /\ k + 1 \in 1..L /\ k \in Nat /\ k + 1 \in Nat
        BY <1>1, <2>2
    <3>2. U[t][(k + 1) + 1] = After(U[t][k + 1], rings[t][k + 1])
        BY <3>1 DEF Views, Steps
    <3> QED
        BY <1>1, <1>5, <2>2, <3>1, <3>2
  <2> QED
    BY <2>1, <2>2
<1>7. TableSync(U2)'
  <2>0. /\ \A q \in DOMAIN allocs' :
              \/ e.kind = "alloc" /\ q = e.addr /\ allocs'[q] = e.size
              \/ q \in DOMAIN allocs /\ allocs'[q] = allocs[q]
                 /\ (e.kind \in {"alloc", "free"} => q # e.addr)
        /\ \A q \in DOMAIN allocs : (e.kind \in {"alloc", "free"} => q # e.addr) =>
              q \in DOMAIN allocs' /\ allocs'[q] = allocs[q]
        /\ e.kind = "alloc" => e.addr \in DOMAIN allocs' /\ allocs'[e.addr] = e.size
    BY <1>1, TableEffect DEF e
  <2>1. ASSUME NEW s \in Workers, NEW b \in U2[s][1], Own(s, b.base)
        PROVE  b.base \in DOMAIN allocs' /\ allocs'[b.base] = b.size
    <3>1. CASE s # t
      <4>1. b \in U[s][1]
          BY <1>5, <2>1, <3>1
      <4>2. b.base \in DOMAIN allocs /\ allocs[b.base] = b.size
          BY <2>1, <4>1 DEF Views, TableSync
      <4>3. e.kind \in {"alloc", "free"} => b.base # e.addr
          BY <1>1, <2>1, <3>1 DEF UsedBy, UsedAt, Own
      <4> QED
          BY <2>0, <4>2, <4>3
    <3>2. CASE s = t
      <4>1. \/ e.kind = "alloc" /\ b = [base |-> e.addr, size |-> e.size]
            \/ b \in U[t][1] /\ (e.kind \in {"alloc", "free"} => b.base # e.addr)
          BY <1>a, <2>1, <3>2 DEF After
      <4>2. ASSUME b \in U[t][1] PROVE b.base \in DOMAIN allocs /\ allocs[b.base] = b.size
          BY <2>1, <3>2, <4>2 DEF Views, TableSync
      <4> QED
          BY <2>0, <4>1, <4>2
    <3> QED
        BY <3>1, <3>2
  <2>2. ASSUME NEW s \in Workers, NEW q \in DOMAIN allocs', NEW w \in WordsOf(q, allocs'[q]),
               Own(s, w)
        PROVE  [base |-> q, size |-> allocs'[q]] \in U2[s][1]
    <3>1. CASE e.kind = "alloc" /\ q = e.addr /\ allocs'[q] = e.size
      <4>1. t \in users[w]
          BY <1>1, <2>2, <3>1 DEF UsedBy, UsedAt
      <4>2. s = t
          BY <2>2, <4>1 DEF Own
      <4> QED
          BY <1>a, <3>1, <4>2 DEF After
    <3>2. CASE /\ q \in DOMAIN allocs /\ allocs'[q] = allocs[q]
               /\ (e.kind \in {"alloc", "free"} => q # e.addr)
      <4>1. [base |-> q, size |-> allocs[q]] \in U[s][1]
          BY <2>2, <3>2 DEF Views, TableSync
      <4>2. CASE s # t
          BY <1>5, <3>2, <4>1, <4>2
      <4>3. CASE s = t
        <5> DEFINE b == [base |-> q, size |-> allocs[q]]
        <5>1. b.base = q /\ b \in U[t][1]
            BY <4>1, <4>3
        <5> HIDE DEF b
        <5>2. b \in After(U[t][1], e)
            BY <3>2, <5>1 DEF After
        <5> QED
            BY <1>a, <3>2, <4>3, <5>2 DEF b
      <4> QED
          BY <4>2, <4>3
    <3> QED
        BY <2>0, <3>1, <3>2
  <2> QED
    BY <1>2, <2>1, <2>2 DEF TableSync
<1>8. HeapSync(U2)'
  <2>1. \A s \in Workers : U2[s][Len(rings'[s]) + 1] = U[s][Len(rings[s]) + 1]
    <3>1. Len(rings'[t]) + 1 = L /\ L \in Nat
        BY <1>1
    <3>2. U2[t][L] = U[t][L + 1]
        BY <1>5, <3>1
    <3> QED
        BY <1>1, <1>5, <3>1, <3>2
  <2> QED
    BY <1>2, <2>1 DEF Views, HeapSync
<1>9. Apart(U2)'
  <2> SUFFICES ASSUME NEW s \in Workers, NEW k \in 1..(Len(rings'[s]) + 1),
                      NEW b \in U2[s][k], NEW c \in U2[s][k],
                      NEW w \in Words, Own(s, w), In(w, b), In(w, c)
               PROVE  b = c
    BY <1>2 DEF Apart, In, WordsOf
  <2>1. CASE s # t
    BY <1>1, <1>5, <2>1 DEF Views, Apart
  <2>2. CASE s = t
    <3>1. k + 1 \in 1..(L + 1) /\ k \in Nat
        BY <1>1, <2>2
    <3>2. b \in U[t][k + 1] /\ c \in U[t][k + 1]
        BY <1>5, <2>2, <3>1
    <3> QED
        BY <2>2, <3>1, <3>2 DEF Views, Apart
  <2> QED
    BY <2>1, <2>2
<1>10. WriteSync(U2)'
  <2> SUFFICES ASSUME NEW s \in Workers, NEW k \in 1..Len(rings'[s]),
                      rings'[s][k].kind = "write", NEW b \in rings'[s][k].hit,
                      \A w \in WordsOf(b.base, b.size) : Own(s, w)
               PROVE  b \in U2[s][k]
    BY <1>2 DEF WriteSync, WordsOf
  <2>1. CASE s # t
    BY <1>1, <1>5, <2>1 DEF Views, WriteSync
  <2>2. CASE s = t
    <3>1. k \in 1..(L - 1) /\ k + 1 \in 1..L /\ k \in Nat
        BY <1>1, <2>2
    <3>2. b \in U[t][k + 1]
        BY <1>1, <2>2, <3>1 DEF Views, WriteSync
    <3> QED
        BY <1>5, <2>2, <3>1, <3>2
  <2> QED
    BY <2>1, <2>2
<1> QED
    BY <1>4, <1>6, <1>7, <1>8, <1>9, <1>10 DEF Views

-----------------------------------------------------------------------------
(* Verdicts.                                                               *)

DisjointFields ==
    \A n \in BlockSizes : \A i, k \in DOMAIN Layout[n] :
        i # k => \/ Layout[n][i].off + Layout[n][i].size <= Layout[n][k].off
                 \/ Layout[n][k].off + Layout[n][k].size <= Layout[n][i].off

At(fields, x) == \E f \in Range(fields) : f.off <= x /\ x < f.off + f.size

(* What is said of a write that began in block b, if its thread alone used *)
(* the words of b.                                                         *)
Bounded(j, b) ==
    IF j.event.addr + j.event.size <= b.base + b.size
    THEN j.kind = "none"
    ELSE \/ \E h \in Range(hazards) : h.addr = j.event.addr
         \/ Len(hazards) = HazardCap \/ ~IsHeap(j.event.addr)

Typed(j, b) ==
    LET off == j.event.addr - b.base
        end == off + j.event.size
    IN /\ DisjointFields /\ At(Layout[b.size], off) /\ At(Layout[b.size], end - 1) => ~j.wrong
       /\ /\ DisjointFields
          /\ end > b.size + Tolerance(j.event.size) /\ IsHeap(j.event.addr) /\ Layout[b.size] # <<>>
          => j.wrong

JudgedRight(t, j) ==
    /\ j.event \in Events /\ j.event.kind = "write" /\ UsedBy(t, j.event)
    /\ \A b \in j.event.hit :
          (\A w \in WordsOf(b.base, b.size) : Own(t, w)) => Bounded(j, b) /\ Typed(j, b)

JInv == \A j \in Range(judged) : \E t \in Workers : JudgedRight(t, j)

HInv ==
    /\ HTypes /\ Heap /\ EventUse /\ StampSync /\ JInv
    /\ \E U \in Held : Views(U)

LEMMA HInvInit == HazInit => HInv
<1> SUFFICES ASSUME HazInit PROVE HInv
    OBVIOUS
<1>1. HTypes
    BY DEF HazInit, HTypes
<1>2. Heap /\ EventUse /\ StampSync /\ JInv
    BY DEF HazInit, Heap, EventUse, StampSync, JInv, Range
<1>3. PICK U : U = [t \in Workers |-> [k \in Nat |-> {}]]
    OBVIOUS
<1>4. U \in Held /\ \A t \in Workers : \A k \in Nat : U[t][k] = {}
    BY <1>3 DEF Held
<1>5. \A t \in Workers : Len(rings[t]) = 0
    BY DEF HazInit
<1>6. DOMAIN allocs = {} /\ DOMAIN blocks = {}
    BY DEF HazInit
<1>7. Steps(U) /\ WriteSync(U)
    BY <1>5 DEF Steps, WriteSync
<1>8. TableSync(U) /\ HeapSync(U) /\ Apart(U)
    BY <1>4, <1>5, <1>6 DEF TableSync, HeapSync, Apart
<1> QED
    BY <1>1, <1>2, <1>4, <1>7, <1>8 DEF HInv, Views

-----------------------------------------------------------------------------
(* The steps of the target.                                                *)

UsersGrow == \A w \in Words : users[w] \subseteq users'[w]

LEMMA UseFacts ==
    ASSUME HTypes, NEW t \in Workers, NEW as, Use(t, as)
    PROVE  /\ users' \in [Words -> SUBSET Workers] /\ UsersGrow
           /\ \A w \in as \cap Words : t \in users'[w]
BY DEF HTypes, Use, UsersGrow

LEMMA UsedByGrows ==
    ASSUME UsersGrow, NEW s \in Workers, NEW e \in Events, UsedBy(s, e)
    PROVE  UsedAt(users', s, e)
<1>1. e.kind \in {"alloc", "free", "write"} => s \in users'[e.addr]
  BY EventFacts DEF UsersGrow, UsedBy, UsedAt
<1>2. e.kind = "alloc" => \A w \in WordsOf(e.addr, e.size) : w \in Words /\ s \in users'[w]
  BY DEF UsersGrow, UsedBy, UsedAt
<1>3. e.kind = "write" =>
          \A b \in e.hit : In(e.addr, b) /\ \A w \in WordsOf(b.base, b.size) : w \in Words /\ users'[w] # {}
  BY DEF UsersGrow, UsedBy, UsedAt
<1> QED
  BY <1>1, <1>2, <1>3 DEF UsedBy, UsedAt, In, WordsOf

(* What EmitViews asks of the views.                                       *)
HeldAfter(U, t, e) ==
    /\ \A s \in Workers : \A b \in Blocks : \A w \in WordsOf(b.base, b.size) :
          Own(s, w)' =>
              (b \in (IF s = t THEN After(U[t][Len(rings[t]) + 1], e)
                      ELSE U[s][Len(rings[s]) + 1]) <=> InHeap(b)')
    /\ e.kind = "write" =>
          \A b \in e.hit : (\A w \in WordsOf(b.base, b.size) : Own(t, w)') =>
              b \in U[t][Len(rings[t]) + 1]

LEMMA EmitHInv ==
    ASSUME HInv, NEW t \in Workers, NEW e \in Events, Emit(t, e),
           users' \in [Words -> SUBSET Workers], UsersGrow,
           DOMAIN blocks' \subseteq Words, \A b \in DOMAIN blocks' : blocks'[b] \in BlockSizes,
           UsedAt(users', t, e), Heap',
           \A U \in Held : Views(U) => HeldAfter(U, t, e)
    PROVE  HInv'
<1>1. /\ HTypes /\ EventUse /\ StampSync /\ JInv
      /\ rings' = [rings EXCEPT ![t] = Append(@, e)]
      /\ UNCHANGED <<allocs, stamps, stackLo, stackHi, since, hazards, violations, judged>>
  BY DEF HInv, Emit
<1>2. \A s \in Workers : \A w : Own(s, w)' => Own(s, w)
  BY DEF Own, UsersGrow
<1>3. HTypes'
  BY <1>1, RingAppend DEF HTypes
<1>4. EventUse'
  <2> SUFFICES ASSUME NEW s \in Workers, NEW k \in 1..Len(rings'[s])
               PROVE  UsedAt(users', s, rings'[s][k])
    BY DEF EventUse, UsedBy, UsedAt
  <2>1. CASE s = t /\ k = Len(rings[t]) + 1
    <3>1. rings'[s][k] = e
      BY <1>1, <2>1, RingAppend
    <3> QED
      BY <2>1, <3>1 DEF UsedBy, UsedAt
  <2>2. CASE k \in 1..Len(rings[s])
    <3>1. rings'[s][k] = rings[s][k]
      BY <1>1, <2>2, RingAppend
    <3>2. rings[s][k] \in Events
      <4>1. rings[s] \in Seq(Events)
        BY <1>1 DEF HTypes
      <4> QED
        BY <2>2, <4>1
    <3>3. UsedBy(s, rings[s][k])
      BY <1>1, <2>2 DEF EventUse
    <3>4. ASSUME NEW x \in Events, UsedBy(s, x) PROVE UsedAt(users', s, x)
      BY <3>4, UsedByGrows
    <3>5. UsedBy(s, rings'[s][k])
      BY <3>1, <3>3
    <3>6. \A x \in Events : UsedBy(s, x) => UsedAt(users', s, x)
      BY <3>4
    <3> QED
      BY <3>1, <3>2, <3>5, <3>6 DEF UsedBy, UsedAt
  <2> QED
    BY <1>1, <2>1, <2>2, RingAppend
<1>5. StampSync'
  BY <1>1, <1>2 DEF StampSync
<1>6. JInv'
  <2> SUFFICES ASSUME NEW j \in Range(judged) PROVE \E s \in Workers : JudgedRight(s, j)'
    BY <1>1 DEF JInv, JudgedRight
  <2>1. PICK s \in Workers : JudgedRight(s, j)
    BY <1>1 DEF JInv
  <2>2. UsedAt(users', s, j.event)
    BY <2>1, UsedByGrows DEF JudgedRight, UsedBy, UsedAt
  <2>3. \A b : (Bounded(j, b)' <=> Bounded(j, b)) /\ (Typed(j, b)' <=> Typed(j, b))
    BY <1>1 DEF Bounded, Typed, IsHeap
  <2>4. \A b \in j.event.hit :
          (\A w \in WordsOf(b.base, b.size) : Own(s, w)') => Bounded(j, b)' /\ Typed(j, b)'
    BY <1>2, <2>1, <2>3 DEF JudgedRight
  <2> QED
    BY <2>1, <2>2, <2>4 DEF JudgedRight, UsedBy, WordsOf
<1>7. \E U \in Held : Views(U)'
  <2>1. PICK U \in Held : Views(U)
    BY DEF HInv
  <2>2. HeldAfter(U, t, e)
    BY <2>1
  <2> QED
    BY <1>1, <2>1, <2>2, EmitViews DEF HeldAfter, UsersGrow
<1> QED
  BY <1>3, <1>4, <1>5, <1>6, <1>7 DEF HInv

LEMMA TargetAllocHInv ==
    ASSUME HInv, NEW t \in Workers, NEW p \in Words, NEW n \in BlockSizes, TargetAlloc(t, p, n)
    PROVE  HInv'
<1> DEFINE e == [kind |-> "alloc", addr |-> p, size |-> n]
<1>1. /\ HTypes /\ Heap /\ Emit(t, e) /\ Use(t, WordsOf(p, n)) /\ WordsOf(p, n) \subseteq Words
      /\ \A b \in DOMAIN blocks : WordsOf(b, blocks[b]) \cap WordsOf(p, n) = {}
      /\ blocks' = [y \in DOMAIN blocks \cup {p} |-> IF y = p THEN n ELSE blocks[y]]
  BY DEF HInv, TargetAlloc, Put
<1>2. /\ users' \in [Words -> SUBSET Workers] /\ UsersGrow
      /\ \A w \in WordsOf(p, n) : t \in users'[w]
  BY <1>1, UseFacts
<1>3. e \in Events
  BY DEF Events
<1>4. p \in WordsOf(p, n)
  <2>1. p \in Nat /\ n \in Nat \ {0}
    OBVIOUS
  <2> QED
    BY <2>1 DEF WordsOf
<1>5. \A b \in DOMAIN blocks : blocks[b] \in BlockSizes /\ b \in Words
  BY <1>1 DEF HTypes
<1>6. p \notin DOMAIN blocks
  <2>1. \A m \in BlockSizes : p \in WordsOf(p, m)
    <3>1. p \in Nat /\ \A m \in BlockSizes : m \in Nat \ {0}
      OBVIOUS
    <3> QED
      BY <3>1 DEF WordsOf
  <2> QED
    BY <1>1, <1>4, <1>5, <2>1
<1>7. /\ DOMAIN blocks' \subseteq Words /\ \A b \in DOMAIN blocks' : blocks'[b] \in BlockSizes
      /\ \A b \in DOMAIN blocks : b # p /\ b \in DOMAIN blocks' /\ blocks'[b] = blocks[b]
      /\ \A b \in DOMAIN blocks' : b = p \/ b \in DOMAIN blocks
      /\ p \in DOMAIN blocks' /\ blocks'[p] = n
  BY <1>1, <1>5, <1>6
<1>8. UsedAt(users', t, e)
  BY <1>1, <1>2, <1>4 DEF UsedBy, UsedAt, WordsOf
<1>9. Heap'
  <2>1. ASSUME NEW b \in DOMAIN blocks', NEW w \in WordsOf(b, blocks'[b])
        PROVE  w \in Words /\ users'[w] # {}
    BY <1>1, <1>2, <1>7, <2>1 DEF Heap, UsersGrow
  <2>2. ASSUME NEW b \in DOMAIN blocks', NEW c \in DOMAIN blocks', b # c
        PROVE  WordsOf(b, blocks'[b]) \cap WordsOf(c, blocks'[c]) = {}
    BY <1>1, <1>7, <2>2 DEF Heap
  <2> QED
    BY <2>1, <2>2 DEF Heap, WordsOf
<1>10. ASSUME NEW U \in Held, Views(U) PROVE HeldAfter(U, t, e)
  <2>1. ASSUME NEW s \in Workers, NEW b \in Blocks, NEW w \in WordsOf(b.base, b.size), Own(s, w)'
        PROVE  b \in (IF s = t THEN After(U[t][Len(rings[t]) + 1], e)
                      ELSE U[s][Len(rings[s]) + 1]) <=> InHeap(b)'
    <3>1. b \in U[s][Len(rings[s]) + 1] <=> InHeap(b)
      BY <1>2, <1>10, <2>1 DEF Views, HeapSync, InHeap, Own, UsersGrow
    <3>2. b.base # p => (InHeap(b)' <=> InHeap(b))
      BY <1>7 DEF InHeap
    <3>3. b.base = p => ~InHeap(b) /\ (InHeap(b)' <=> b = [base |-> p, size |-> n])
      BY <1>6, <1>7, WordFacts DEF InHeap
    <3>4. CASE s = t
      <4>1. b \in After(U[t][Len(rings[t]) + 1], e) <=>
              \/ b \in U[t][Len(rings[t]) + 1] /\ b.base # p
              \/ b = [base |-> p, size |-> n]
        BY DEF After
      <4> QED
        BY <3>1, <3>2, <3>3, <3>4, <4>1
    <3>5. CASE s # t
      <4>1. b # [base |-> p, size |-> n]
        BY <1>2, <2>1, <3>5 DEF Own
      <4> QED
        BY <3>1, <3>2, <3>3, <3>5, <4>1
    <3> QED
      BY <3>4, <3>5
  <2> QED
    BY <2>1 DEF HeldAfter
<1> HIDE DEF e
<1> QED
  BY <1>1, <1>2, <1>3, <1>7, <1>8, <1>9, <1>10, EmitHInv

LEMMA TargetFreeHInv ==
    ASSUME HInv, NEW t \in Workers, NEW p \in Words, TargetFree(t, p)
    PROVE  HInv'
<1> DEFINE e == [kind |-> "free", addr |-> p, size |-> 0]
<1>1. /\ HTypes /\ Heap /\ Emit(t, e) /\ Use(t, WordsOf(p, blocks[p])) /\ p \in DOMAIN blocks
      /\ blocks' = [y \in DOMAIN blocks \ {p} |-> blocks[y]]
  BY DEF HInv, TargetFree, Minus
<1>2. /\ users' \in [Words -> SUBSET Workers] /\ UsersGrow
      /\ \A w \in WordsOf(p, blocks[p]) : t \in users'[w]
  BY <1>1, UseFacts DEF Heap
<1>3. e \in Events
  BY DEF Events
<1>4. p \in WordsOf(p, blocks[p])
  <2>1. p \in Nat /\ blocks[p] \in Nat \ {0}
    BY <1>1 DEF HTypes
  <2> QED
    BY <2>1 DEF WordsOf
<1>5. /\ DOMAIN blocks' \subseteq Words /\ \A b \in DOMAIN blocks' : blocks'[b] \in BlockSizes
      /\ \A b \in DOMAIN blocks' : b # p /\ b \in DOMAIN blocks /\ blocks'[b] = blocks[b]
      /\ \A b \in DOMAIN blocks : b # p => b \in DOMAIN blocks'
  BY <1>1 DEF HTypes
<1>6. UsedAt(users', t, e)
  BY <1>2, <1>4 DEF UsedBy, UsedAt
<1>7. Heap'
  BY <1>1, <1>2, <1>5 DEF Heap, UsersGrow, WordsOf
<1>8. ASSUME NEW U \in Held, Views(U) PROVE HeldAfter(U, t, e)
  <2>1. ASSUME NEW s \in Workers, NEW b \in Blocks, NEW w \in WordsOf(b.base, b.size), Own(s, w)'
        PROVE  b \in (IF s = t THEN After(U[t][Len(rings[t]) + 1], e)
                      ELSE U[s][Len(rings[s]) + 1]) <=> InHeap(b)'
    <3>1. b \in U[s][Len(rings[s]) + 1] <=> InHeap(b)
      BY <1>2, <1>8, <2>1 DEF Views, HeapSync, InHeap, Own, UsersGrow
    <3>2. InHeap(b)' <=> InHeap(b) /\ b.base # p
      BY <1>5 DEF InHeap
    <3>3. CASE s = t
      <4>1. b \in After(U[t][Len(rings[t]) + 1], e) <=>
              b \in U[t][Len(rings[t]) + 1] /\ b.base # p
        BY DEF After
      <4> QED
        BY <3>1, <3>2, <3>3, <4>1
    <3>4. CASE s # t
      <4>1. ~(InHeap(b) /\ b.base = p)
        BY <1>2, <2>1, <3>4 DEF Own, InHeap
      <4> QED
        BY <3>1, <3>2, <3>4, <4>1
    <3> QED
      BY <3>3, <3>4
  <2> QED
    BY <2>1 DEF HeldAfter
<1> HIDE DEF e
<1> QED
  BY <1>1, <1>2, <1>3, <1>5, <1>6, <1>7, <1>8, EmitHInv

LEMMA TargetWriteHInv ==
    ASSUME HInv, NEW t \in Workers, NEW a \in Words, NEW n \in WriteSizes, TargetWrite(t, a, n)
    PROVE  HInv'
<1> DEFINE begins == {b \in DOMAIN blocks : a \in WordsOf(b, blocks[b])}
           hit == {[base |-> b, size |-> blocks[b]] : b \in begins}
           e == [kind |-> "write", addr |-> a, size |-> n, hit |-> hit]
<1>1. /\ HTypes /\ Heap /\ Emit(t, e) /\ Use(t, WordsOf(a, n) \cap Words) /\ blocks' = blocks
  BY DEF HInv, TargetWrite
<1>2. /\ users' \in [Words -> SUBSET Workers] /\ UsersGrow
      /\ \A w \in WordsOf(a, n) \cap Words : t \in users'[w]
  BY <1>1, UseFacts
<1>3. \A b \in hit : b \in Blocks /\ InHeap(b) /\ In(a, b)
  <2> SUFFICES ASSUME NEW x \in DOMAIN blocks, a \in WordsOf(x, blocks[x])
               PROVE  LET b == [base |-> x, size |-> blocks[x]]
                      IN b \in Blocks /\ InHeap(b) /\ In(a, b)
    OBVIOUS
  <2>1. x \in Words /\ blocks[x] \in BlockSizes
    BY <1>1 DEF HTypes
  <2> QED
    BY <2>1 DEF Blocks, InHeap, In
<1> HIDE DEF hit
<1>4. e \in Events
  BY <1>3 DEF Events
<1>5. a \in WordsOf(a, n)
  <2>1. a \in Nat /\ n \in Nat \ {0}
    OBVIOUS
  <2> QED
    BY <2>1 DEF WordsOf
<1>6. Heap'
  BY <1>1, <1>2 DEF Heap, UsersGrow, WordsOf
<1>7. UsedAt(users', t, e)
  <2>1. \A b \in hit : In(a, b) /\ \A w \in WordsOf(b.base, b.size) : w \in Words /\ users'[w] # {}
    BY <1>1, <1>2, <1>3 DEF Heap, InHeap, UsersGrow
  <2> QED
    BY <1>2, <1>5, <2>1 DEF UsedBy, UsedAt, In, WordsOf
<1>8. ASSUME NEW U \in Held, Views(U) PROVE HeldAfter(U, t, e)
  <2>1. \A s \in Workers : \A b \in Blocks : \A w \in WordsOf(b.base, b.size) :
            Own(s, w)' => (b \in U[s][Len(rings[s]) + 1] <=> InHeap(b))
    BY <1>2, <1>8 DEF Views, HeapSync, InHeap, Own, UsersGrow
  <2>2. \A u : After(u, e) = u
    BY DEF After
  <2>3. \A b : InHeap(b)' <=> InHeap(b)
    BY <1>1 DEF InHeap
  <2>4. \A b \in hit : (\A w \in WordsOf(b.base, b.size) : Own(t, w)') => b \in U[t][Len(rings[t]) + 1]
    BY <1>3, <2>1, WordFacts
  <2> QED
    BY <2>1, <2>2, <2>3, <2>4 DEF HeldAfter
<1>9. DOMAIN blocks' \subseteq Words /\ \A b \in DOMAIN blocks' : blocks'[b] \in BlockSizes
  BY <1>1 DEF HTypes
<1> HIDE DEF e
<1> QED
  BY <1>1, <1>2, <1>4, <1>6, <1>7, <1>8, <1>9, EmitHInv

LEMMA TargetCallHInv ==
    ASSUME HInv, NEW t \in Workers, NEW sp \in StackPtrs, TargetCall(t, sp)
    PROVE  HInv'
<1> DEFINE e == [kind |-> "call", addr |-> sp, size |-> 0]
<1>1. HTypes /\ Heap /\ Emit(t, e) /\ blocks' = blocks /\ users' = users
  BY DEF HInv, TargetCall
<1>2. e \in Events
  BY DEF Events
<1>3. /\ users' \in [Words -> SUBSET Workers] /\ UsersGrow
      /\ DOMAIN blocks' \subseteq Words /\ \A b \in DOMAIN blocks' : blocks'[b] \in BlockSizes
      /\ Heap'
  BY <1>1 DEF HTypes, Heap, UsersGrow
<1>4. UsedAt(users', t, e)
  BY DEF UsedBy, UsedAt
<1>5. ASSUME NEW U \in Held, Views(U) PROVE HeldAfter(U, t, e)
  <2>1. \A s \in Workers : \A b \in Blocks : \A w \in WordsOf(b.base, b.size) :
            Own(s, w)' => (b \in U[s][Len(rings[s]) + 1] <=> InHeap(b))
    BY <1>1, <1>5 DEF Views, HeapSync, InHeap, Own
  <2>2. \A u : After(u, e) = u
    BY DEF After
  <2>3. \A b : InHeap(b)' <=> InHeap(b)
    BY <1>1 DEF InHeap
  <2> QED
    BY <2>1, <2>2, <2>3 DEF HeldAfter
<1> HIDE DEF e
<1> QED
  BY <1>1, <1>2, <1>3, <1>4, <1>5, EmitHInv

-----------------------------------------------------------------------------
(* The steps of the engine.                                                *)

(* Two blocks of the table do not share a word that one thread alone used. *)
LEMMA TableApart ==
    ASSUME HTypes, NEW U \in Held, Views(U), NEW s \in Workers, NEW p \in DOMAIN allocs,
           NEW q \in DOMAIN allocs, NEW w, Own(s, w),
           w \in WordsOf(p, allocs[p]), w \in WordsOf(q, allocs[q])
    PROVE  p = q
<1> DEFINE b == [base |-> p, size |-> allocs[p]]
           c == [base |-> q, size |-> allocs[q]]
<1>1. b \in U[s][1] /\ c \in U[s][1]
    BY DEF Views, TableSync
<1>2. In(w, b) /\ In(w, c) /\ w \in Words
    BY DEF In, Own
<1>3. 1 \in 1..(Len(rings[s]) + 1)
  <2>1. rings[s] \in Seq(Events)
    BY DEF HTypes
  <2> QED
    BY <2>1
<1>4. b.base = p /\ c.base = q
    OBVIOUS
<1> HIDE DEF b, c
<1>5. b = c
    BY <1>1, <1>2, <1>3 DEF Views, Apart
<1> QED
    BY <1>4, <1>5

LEMMA TableWords ==
    ASSUME HTypes, NEW p \in DOMAIN allocs
    PROVE  /\ p \in Words /\ p \in Nat /\ allocs[p] \in BlockSizes /\ allocs[p] \in Nat \ {0}
           /\ p \in WordsOf(p, allocs[p])
<1>1. p \in Nat /\ allocs[p] \in Nat \ {0}
    BY DEF HTypes
<1>2. \A x \in Nat, n \in Nat \ {0} : x \in WordsOf(x, n)
    BY DEF WordsOf
<1> QED
    BY <1>1, <1>2 DEF HTypes

(* A purge of the projections in one block passes the bases of the others  *)
(* that one thread alone has used.                                         *)
LEMMA PurgeKeeps ==
    ASSUME HTypes, NEW U \in Held, Views(U), NEW s \in Workers, NEW p \in DOMAIN allocs,
           NEW b \in DOMAIN allocs, b # p, Own(s, b)
    PROVE  b \notin WordsOf(p, allocs[p])
BY TableApart, TableWords

LEMMA TakeHInv ==
    ASSUME HInv, NEW t \in Workers, NEW kind, Take(t, kind), TableStep(Head(rings[t])),
           StampSync', JInv',
           stackLo' \in [Workers -> Nat], stackHi' \in [Workers -> Nat],
           hazards' \in Seq([kind : {"OOB", "HOLE"}, addr : Words]), Len(hazards') <= HazardCap,
           violations' \in Seq(Words)
    PROVE  HInv'
<1> DEFINE e == Head(rings[t])
<1>1. /\ HTypes /\ Heap /\ EventUse /\ rings[t] # <<>> /\ e \in Events
      /\ rings' = [rings EXCEPT ![t] = Tail(@)] /\ UNCHANGED <<blocks, users, steps>>
    BY RingTail DEF HInv, Take
<1>2. HTypes'
  <2>1. DOMAIN allocs' \subseteq Words /\ \A b \in DOMAIN allocs' : allocs'[b] \in BlockSizes
    <3>1. /\ e.kind = "alloc" => e.addr \in Words /\ e.size \in BlockSizes
          /\ \A b \in DOMAIN allocs : b \in Words /\ allocs[b] \in BlockSizes
        BY <1>1, EventFacts, TableWords
    <3>2. \A q \in DOMAIN allocs' :
              \/ e.kind = "alloc" /\ q = e.addr /\ allocs'[q] = e.size
              \/ q \in DOMAIN allocs /\ allocs'[q] = allocs[q]
        BY <1>1, TableEffect
    <3> QED
        BY <3>1, <3>2
  <2>2. DOMAIN stamps' \subseteq Words
    BY <2>1 DEF StampSync
  <2>3. rings' \in [Workers -> Seq(Events)]
    BY <1>1, RingTail
  <2> QED
    BY <1>1, <2>1, <2>2, <2>3 DEF HTypes
<1>3. Heap'
    BY <1>1 DEF Heap
<1>4. EventUse'
  <2> SUFFICES ASSUME NEW s \in Workers, NEW k \in 1..Len(rings'[s])
               PROVE  UsedAt(users', s, rings'[s][k])
    BY DEF EventUse, UsedBy
  <2> SUFFICES UsedBy(s, rings'[s][k])
    BY <1>1 DEF UsedBy
  <2>1. CASE s # t
    BY <1>1, <2>1, RingTail DEF EventUse
  <2>2. CASE s = t
    <3>1. /\ rings'[s][k] = rings[s][k + 1] /\ Len(rings'[s]) = Len(rings[s]) - 1
          /\ Len(rings[s]) \in Nat
        BY <1>1, <2>2, RingTail
    <3>2. k + 1 \in 1..Len(rings[s])
        BY <3>1
    <3> QED
        BY <3>1, <3>2, <1>1 DEF EventUse
  <2> QED
    BY <2>1, <2>2
<1>5. \E U \in Held : Views(U)'
  <2>1. PICK U \in Held : Views(U)
    BY DEF HInv
  <2> HIDE DEF e
  <2> QED
    BY <1>1, <2>1, TakeViews
<1> QED
    BY <1>2, <1>3, <1>4, <1>5 DEF HInv

(* What was said of earlier writes stands.                                 *)
LEMMA JudgedStays ==
    ASSUME NEW j, NEW s \in Workers, JudgedRight(s, j), UNCHANGED users,
           \A h \in Range(hazards) : h \in Range(hazards'),
           Len(hazards) = HazardCap => Len(hazards') = HazardCap,
           \A a \in Nat : IsHeap(a)' => IsHeap(a)
    PROVE  JudgedRight(s, j)'
<1>1. j.event.addr \in Nat
    BY EventFacts DEF JudgedRight
<1>2. \A b : Bounded(j, b) => Bounded(j, b)'
  <2> SUFFICES ASSUME NEW b, Bounded(j, b) PROVE Bounded(j, b)'
    OBVIOUS
  <2>1. IsHeap(j.event.addr)' => IsHeap(j.event.addr)
    BY <1>1
  <2> QED
    BY <2>1 DEF Bounded, IsHeap
<1>3. \A b : Typed(j, b) => Typed(j, b)'
  <2> SUFFICES ASSUME NEW b, Typed(j, b) PROVE Typed(j, b)'
    OBVIOUS
  <2>1. IsHeap(j.event.addr)' => IsHeap(j.event.addr)
    BY <1>1
  <2> QED
    BY <2>1 DEF Typed, IsHeap
<1>4. UsedAt(users', s, j.event)
    BY DEF JudgedRight, UsedBy
<1>5. \A w : Own(s, w)' <=> Own(s, w)
    BY DEF Own
<1>6. \A b \in j.event.hit :
          (\A w \in WordsOf(b.base, b.size) : Own(s, w)') => Bounded(j, b)' /\ Typed(j, b)'
    BY <1>2, <1>3, <1>5 DEF JudgedRight
<1> QED
    BY <1>4, <1>6 DEF JudgedRight, UsedBy, WordsOf

LEMMA VerdictsStay ==
    ASSUME HInv, UNCHANGED <<users, judged, hazards>>, \A a \in Nat : IsHeap(a)' => IsHeap(a)
    PROVE  JInv'
<1> SUFFICES ASSUME NEW j \in Range(judged) PROVE \E s \in Workers : JudgedRight(s, j)'
    BY DEF JInv, JudgedRight
<1>1. PICK s \in Workers : JudgedRight(s, j)
    BY DEF HInv, JInv
<1> QED
    BY <1>1, JudgedStays

LEMMA OnAllocHInv ==
    ASSUME HInv, NEW t \in Workers, OnAlloc(t)
    PROVE  HInv'
<1> DEFINE e == Head(rings[t])
           resized == e.addr \in DOMAIN allocs /\ allocs[e.addr] # e.size
           gone == IF resized THEN WordsOf(e.addr, allocs[e.addr]) ELSE {}
<1>1. /\ HTypes /\ StampSync /\ Take(t, "alloc") /\ e.kind = "alloc"
      /\ allocs' = Put(allocs, e.addr, e.size)
      /\ UNCHANGED <<users, stackLo, stackHi, hazards, violations, judged>>
    BY DEF HInv, OnAlloc, Take
<1>2. /\ DOMAIN stamps' = (DOMAIN stamps \ gone) \cup {e.addr}
      /\ \A y \in DOMAIN stamps' : stamps'[y] = IF y = e.addr THEN e.size ELSE stamps[y]
  <2>1. stamps' = Put(IF resized THEN Minus(stamps, WordsOf(e.addr, allocs[e.addr])) ELSE stamps,
                      e.addr, e.size)
    BY DEF OnAlloc
  <2> HIDE DEF e
  <2>2. CASE resized
    BY <2>1, <2>2 DEF Put, Minus
  <2>3. CASE ~resized
    BY <2>1, <2>3 DEF Put
  <2> QED
    BY <2>2, <2>3
<1>3. /\ DOMAIN allocs' = DOMAIN allocs \cup {e.addr}
      /\ \A y \in DOMAIN allocs' : allocs'[y] = IF y = e.addr THEN e.size ELSE allocs[y]
    BY <1>1 DEF Put
<1>4. PICK U \in Held : Views(U)
    BY DEF HInv
<1>5. \A s \in Workers : \A b \in DOMAIN allocs : b # e.addr /\ Own(s, b) => b \notin gone
  <2> HIDE DEF e
  <2> QED
    BY <1>1, <1>4, PurgeKeeps
<1>6. StampSync'
  <2>1. \A s \in Workers : \A w : Own(s, w)' <=> Own(s, w)
    BY <1>1 DEF Own
  <2> HIDE DEF e, gone
  <2> QED
    BY <1>1, <1>2, <1>3, <1>5, <2>1 DEF StampSync
<1>7. JInv'
  <2>1. \A a \in Nat : IsHeap(a)' => IsHeap(a)
    BY <1>1 DEF IsHeap
  <2> QED
    BY <1>1, <2>1, VerdictsStay
<1>8. TableStep(e)
    BY <1>1 DEF TableStep
<1>9. /\ stackLo' \in [Workers -> Nat] /\ stackHi' \in [Workers -> Nat]
      /\ hazards' \in Seq([kind : {"OOB", "HOLE"}, addr : Words]) /\ Len(hazards') <= HazardCap
      /\ violations' \in Seq(Words)
    BY <1>1 DEF HTypes
<1> QED
    BY <1>1, <1>6, <1>7, <1>8, <1>9, TakeHInv

LEMMA OnFreeHInv ==
    ASSUME HInv, NEW t \in Workers, OnFree(t)
    PROVE  HInv'
<1> DEFINE e == Head(rings[t])
           p == e.addr
<1>1. /\ HTypes /\ StampSync /\ Take(t, "free") /\ e.kind = "free"
      /\ allocs' = Minus(allocs, {p})
      /\ UNCHANGED <<users, stackLo, stackHi, hazards, violations, judged>>
    BY DEF HInv, OnFree, Take
<1>2. stamps' = IF p \in DOMAIN allocs THEN Minus(stamps, WordsOf(p, allocs[p]))
                ELSE IF p \in DOMAIN stamps THEN Minus(stamps, WordsOf(p, stamps[p])) ELSE stamps
    BY DEF OnFree
<1> HIDE DEF p
<1>3. /\ DOMAIN allocs' = DOMAIN allocs \ {p}
      /\ \A y \in DOMAIN allocs' : allocs'[y] = allocs[y]
    BY <1>1 DEF Minus
<1>4. PICK U \in Held : Views(U)
    BY DEF HInv
<1>5. StampSync'
  <2>0. \A s \in Workers : \A w : Own(s, w)' <=> Own(s, w)
    BY <1>1 DEF Own
  <2>1. CASE p \in DOMAIN allocs
    <3>1. /\ DOMAIN stamps' = DOMAIN stamps \ WordsOf(p, allocs[p])
          /\ \A y \in DOMAIN stamps' : stamps'[y] = stamps[y]
        BY <1>2, <2>1 DEF Minus
    <3>2. p \in WordsOf(p, allocs[p])
        BY <1>1, <2>1, TableWords
    <3>3. \A s \in Workers : \A b \in DOMAIN allocs : b # p /\ Own(s, b) => b \notin WordsOf(p, allocs[p])
        BY <1>1, <1>4, <2>1, PurgeKeeps
    <3> QED
        BY <1>1, <1>3, <2>0, <3>1, <3>2, <3>3 DEF StampSync
  <2>2. CASE p \notin DOMAIN allocs
    <3>1. stamps' = stamps
        BY <1>1, <1>2, <2>2 DEF StampSync
    <3> QED
        BY <1>1, <1>3, <2>0, <2>2, <3>1 DEF StampSync
  <2> QED
    BY <2>1, <2>2
<1>6. JInv'
  <2>1. \A a \in Nat : IsHeap(a)' => IsHeap(a)
    BY <1>1 DEF IsHeap
  <2> QED
    BY <1>1, <2>1, VerdictsStay
<1>7. TableStep(e)
    BY <1>1 DEF TableStep, p
<1>8. /\ stackLo' \in [Workers -> Nat] /\ stackHi' \in [Workers -> Nat]
      /\ hazards' \in Seq([kind : {"OOB", "HOLE"}, addr : Words]) /\ Len(hazards') <= HazardCap
      /\ violations' \in Seq(Words)
    BY <1>1 DEF HTypes
<1> QED
    BY <1>1, <1>5, <1>6, <1>7, <1>8, TakeHInv

(* What was taken for stack once stays so.                                 *)
LEMMA OnCallHInv ==
    ASSUME HInv, NEW t \in Workers, OnCall(t)
    PROVE  HInv'
<1> DEFINE e == Head(rings[t])
           sp == e.addr
           new == stackLo[t] > stackHi[t]
           lo == IF new \/ sp < stackLo[t] THEN sp ELSE stackLo[t]
           hi == IF new \/ stackHi[t] < sp + StackSpan THEN sp + StackSpan ELSE stackHi[t]
<1>1. /\ HTypes /\ StampSync /\ Take(t, "call") /\ e.kind = "call" /\ e \in Events
      /\ UNCHANGED <<users, allocs, stamps, hazards, violations, judged>>
    BY RingTail DEF HInv, OnCall, Take
<1>2. sp \in Nat /\ stackLo[t] \in Nat /\ stackHi[t] \in Nat
  <2>1. sp \in StackPtrs
    BY <1>1, EventFacts
  <2> QED
    BY <1>1, <2>1 DEF HTypes
<1>3. stackLo' = [stackLo EXCEPT ![t] = lo] /\ stackHi' = [stackHi EXCEPT ![t] = hi]
  <2>1. stackHi' = [stackHi EXCEPT ![t] = hi]
    BY DEF OnCall
  <2>2. stackLo' = [stackLo EXCEPT ![t] = IF new THEN sp
                                          ELSE IF stackLo[t] < sp THEN stackLo[t] ELSE sp]
    BY DEF OnCall
  <2>3. (IF new THEN sp ELSE IF stackLo[t] < sp THEN stackLo[t] ELSE sp) = lo
    BY <1>2
  <2> QED
    BY <2>1, <2>2, <2>3
<1>4. lo \in Nat /\ hi \in Nat
    BY <1>2
<1>5. /\ stackLo' \in [Workers -> Nat] /\ stackHi' \in [Workers -> Nat]
      /\ \A s \in Workers : s # t => stackLo'[s] = stackLo[s] /\ stackHi'[s] = stackHi[s]
      /\ stackLo'[t] = lo /\ stackHi'[t] = hi
  <2> HIDE DEF lo, hi
  <2> QED
    BY <1>1, <1>3, <1>4 DEF HTypes
<1>6. \A a \in Nat : IsHeap(a)' => IsHeap(a)
  <2>1. \A a \in Nat : stackLo[t] <= a /\ a < stackHi[t] => lo <= a /\ a < hi
    BY <1>2
  <2> HIDE DEF lo, hi
  <2> QED
    BY <1>5, <2>1 DEF IsHeap
<1>7. StampSync' /\ JInv'
    BY <1>1, <1>6, VerdictsStay DEF StampSync, Own
<1>8. TableStep(e)
    BY <1>1 DEF TableStep
<1>9. /\ hazards' \in Seq([kind : {"OOB", "HOLE"}, addr : Words]) /\ Len(hazards') <= HazardCap
      /\ violations' \in Seq(Words)
    BY <1>1 DEF HTypes
<1> QED
    BY <1>1, <1>5, <1>7, <1>8, <1>9, TakeHInv

-----------------------------------------------------------------------------
(* A verdict on a write to a struct of n words.                            *)

LEMMA VerdictFacts ==
    ASSUME DisjointFields, NEW n \in BlockSizes, NEW off \in Nat, NEW m \in Nat \ {0}
    PROVE  /\ At(Layout[n], off) /\ At(Layout[n], off + m - 1) => ~Violates(Layout[n], n, off, m)
           /\ off + m > n + Tolerance(m) /\ Layout[n] # <<>> => Violates(Layout[n], n, off, m)
<1> DEFINE F == Layout[n]
           I == {i \in DOMAIN F : F[i].off <= off /\ off < F[i].off + F[i].size}
           end == off + m
<1>1. /\ n \in Nat
      /\ \A i \in DOMAIN F : /\ i \in Nat /\ F[i].off \in Nat /\ F[i].size \in Nat \ {0}
                              /\ F[i].off + F[i].size <= n
      /\ \A f \in Range(F) : \E i \in DOMAIN F : f = F[i]
      /\ \A i \in DOMAIN F : F[i] \in Range(F)
  <2>1. /\ F \in Seq(Range(F))
        /\ \A f \in Range(F) : f.off \in Nat /\ f.size \in Nat \ {0} /\ f.off + f.size <= n
    BY HazardsAssumption
  <2>2. DOMAIN F \subseteq Nat
    BY <2>1
  <2>3. /\ \A f \in Range(F) : \E i \in DOMAIN F : f = F[i]
        /\ \A i \in DOMAIN F : F[i] \in Range(F)
    BY DEF Range
  <2> QED
    BY <2>1, <2>2, <2>3
<1>2. \A i, k \in DOMAIN F :
          i # k => F[i].off + F[i].size <= F[k].off \/ F[k].off + F[k].size <= F[i].off
    BY DEF DisjointFields
<1>3. Violates(F, n, off, m) <=>
          /\ F # <<>>
          /\ IF I = {} THEN end > n
             ELSE \E i \in I :
                    /\ \A k \in I : i <= k
                    /\ end > F[i].off + F[i].size
                    /\ ~Coalesced(F, F[i], end)
                    /\ ~(n < end /\ end <= n + Tolerance(m))
    BY DEF Violates
<1>4. Tolerance(m) \in Nat
    BY DEF Tolerance
<1> HIDE DEF F
<1>5. \A i, k \in I : i = k
    BY <1>1, <1>2
<1>6. ASSUME At(F, off), At(F, end - 1) PROVE ~Violates(F, n, off, m)
  <2>1. PICK f \in DOMAIN F : f \in I
    BY <1>1, <1>6 DEF At
  <2>2. PICK g \in DOMAIN F : F[g].off <= end - 1 /\ end - 1 < F[g].off + F[g].size
    BY <1>1, <1>6 DEF At
  <2>3. end \in Nat /\ end - 1 >= off
    OBVIOUS
  <2>4. end <= F[g].off + F[g].size
    BY <1>1, <2>2, <2>3
  <2>5. ASSUME end > F[f].off + F[f].size PROVE Coalesced(F, F[f], end)
    <3>1. g # f
        BY <2>4, <2>5, <1>1
    <3>2. ~(F[g].off + F[g].size <= F[f].off)
        BY <1>1, <2>1, <2>3, <2>4
    <3>3. F[f].off + F[f].size <= F[g].off
        BY <1>2, <3>1, <3>2
    <3>4. F[g] \in Range(F) /\ F[g].off >= F[f].off + F[f].size
        BY <1>1, <3>3
    <3> QED
        BY <2>4, <3>4 DEF Coalesced
  <2> HIDE DEF I
  <2> QED
    BY <1>3, <1>5, <2>1, <2>5
<1>7. ASSUME end > n + Tolerance(m), F # <<>> PROVE Violates(F, n, off, m)
  <2>1. end > n /\ end \in Nat /\ ~(end <= n + Tolerance(m))
    BY <1>1, <1>4, <1>7
  <2>2. CASE I = {}
    BY <1>3, <1>7, <2>1, <2>2
  <2>3. CASE I # {}
    <3>1. PICK i \in DOMAIN F : i \in I
        BY <2>3
    <3>2. \A k \in I : i <= k
        BY <1>1, <1>5, <3>1
    <3>3. end > F[i].off + F[i].size
        BY <1>1, <2>1
    <3>4. ~Coalesced(F, F[i], end)
      <4> SUFFICES ASSUME NEW g \in Range(F), end <= g.off + g.size PROVE FALSE
          BY DEF Coalesced
      <4>1. PICK k \in DOMAIN F : g = F[k]
          BY <1>1
      <4> QED
          BY <1>1, <2>1, <4>1
    <3> HIDE DEF I
    <3> QED
        BY <1>3, <1>7, <2>1, <2>3, <3>1, <3>2, <3>3, <3>4
  <2> QED
    BY <2>2, <2>3
<1> QED
    BY <1>6, <1>7 DEF F

(* When the engine takes a write, the table and the shadow types have the  *)
(* block that the write began in, and nothing between its base and there.  *)
LEMMA BlockKnown ==
    ASSUME HInv, NEW t \in Workers, rings[t] # <<>>, Head(rings[t]).kind = "write",
           NEW b \in Head(rings[t]).hit, \A w \in WordsOf(b.base, b.size) : Own(t, w)
    PROVE  LET a == Head(rings[t]).addr
           IN /\ b \in Blocks /\ In(a, b) /\ a \in Nat
              /\ allocs[b.base] = b.size /\ stamps[b.base] = b.size
              /\ Containing(a) = {b.base} /\ CoveringStamp(a) = {b.base}
<1> DEFINE e == Head(rings[t])
           a == e.addr
<1>1. /\ HTypes /\ StampSync /\ e \in Events /\ e = rings[t][1] /\ Len(rings[t]) \in Nat
      /\ Len(rings[t]) >= 1 /\ UsedBy(t, e)
  <2>1. HTypes /\ EventUse /\ StampSync
    BY DEF HInv
  <2>2. /\ e \in Events /\ e = rings[t][1] /\ Len(rings[t]) \in Nat /\ Len(rings[t]) >= 1
    <3>1. rings[t] \in Seq(Events)
        BY <2>1 DEF HTypes
    <3> QED
        BY <3>1, HeadTailProperties
  <2>3. UsedBy(t, rings[t][1])
    BY <2>1, <2>2 DEF EventUse
  <2> HIDE DEF e
  <2> QED
    BY <2>1, <2>2, <2>3
<1> HIDE DEF e
<1>2. b \in Blocks /\ In(a, b) /\ a \in Nat
    BY <1>1, EventFacts DEF UsedBy, UsedAt, e
<1>3. PICK U \in Held : Views(U)
    BY DEF HInv
<1>4. b \in U[t][1]
  <2>1. 1 \in 1..Len(rings[t]) /\ rings[t][1].kind = "write" /\ b \in rings[t][1].hit
    BY <1>1 DEF e
  <2> QED
    BY <1>3, <2>1 DEF Views, WriteSync
<1>5. /\ b.base \in Nat /\ b.size \in Nat \ {0} /\ Own(t, b.base)
      /\ b.base <= a /\ a < b.base + b.size
      /\ \A c \in Nat : b.base <= c /\ c <= a => c \in WordsOf(b.base, b.size)
    BY <1>2, WordFacts DEF In, WordsOf
<1>6. b.base \in DOMAIN allocs /\ allocs[b.base] = b.size
    BY <1>3, <1>4, <1>5 DEF Views, TableSync
<1>7. b.base \in DOMAIN stamps /\ stamps[b.base] = b.size
    BY <1>1, <1>5, <1>6 DEF StampSync
<1>8. \A c \in DOMAIN allocs : c \in Nat /\ (c <= a => c <= b.base)
  <2> SUFFICES ASSUME NEW c \in DOMAIN allocs, c <= a, ~(c <= b.base) PROVE FALSE
    BY <1>1, TableWords
  <2>1. c \in Nat /\ c \in WordsOf(c, allocs[c])
    BY <1>1, TableWords
  <2>2. c \in WordsOf(b.base, b.size)
    BY <1>5, <2>1
  <2>3. Own(t, c)
    BY <2>2
  <2>4. c = b.base
    BY <1>1, <1>3, <1>6, <2>1, <2>2, <2>3, TableApart
  <2> QED
    BY <1>5, <2>4
<1>9. Containing(a) = {b.base}
  <2> DEFINE below == {c \in DOMAIN allocs : c <= a}
  <2>1. b.base \in below /\ \A c \in below : c \in Nat /\ c <= b.base
    BY <1>5, <1>6, <1>8
  <2>2. a < b.base + allocs[b.base]
    BY <1>5, <1>6
  <2>3. Containing(a) = {c \in below : (\A d \in below : d <= c) /\ a < c + allocs[c]}
    BY DEF Containing
  <2> HIDE DEF below
  <2> QED
    BY <1>5, <2>1, <2>2, <2>3
<1>10. CoveringStamp(a) = {b.base}
  <2> DEFINE below == {c \in DOMAIN stamps : c <= a}
             near == {x \in below : Cardinality({c \in below : c > x}) < 2 /\ a < x + stamps[x]}
  <2>1. b.base \in below /\ \A c \in below : c \in Nat /\ c <= b.base
    BY <1>1, <1>5, <1>7, <1>8 DEF StampSync
  <2>2. a < b.base + stamps[b.base]
    BY <1>5, <1>7
  <2>3. CoveringStamp(a) = {x \in near : \A c \in near : c <= x}
    BY DEF CoveringStamp
  <2> HIDE DEF below
  <2>4. {c \in below : c > b.base} = {}
    BY <1>5, <2>1
  <2>5. Cardinality({c \in below : c > b.base}) = 0
    BY <2>4, FS_EmptySet
  <2>6. near \subseteq below
    OBVIOUS
  <2>7. Cardinality({c \in below : c > b.base}) < 2
    BY <2>5
  <2>8. b.base \in near
    BY <2>1, <2>2, <2>7, Zenon
  <2> HIDE DEF near
  <2> QED
    BY <1>5, <2>1, <2>3, <2>6, <2>8
<1> QED
    BY <1>2, <1>6, <1>7, <1>9, <1>10 DEF e

LEMMA OnWriteHInv ==
    ASSUME HInv, NEW t \in Workers, OnWrite(t)
    PROVE  HInv'
<1> DEFINE e == Head(rings[t])
           a == e.addr
           heap == IsHeap(a)
           wrong == heap /\ \E x \in CoveringStamp(a) : Violates(Layout[stamps[x]], stamps[x], a - x, e.size)
           kind == IF ~heap \/ Len(hazards) >= HazardCap THEN "none" ELSE Bounds(a, e.size)
           elapsed == since + 1
           reported == /\ kind # "none" /\ ~(kind = "HOLE" /\ elapsed < Grace)
                       /\ ~\E h \in Range(hazards) : h.addr = a
           new == [event |-> e, kind |-> IF reported THEN kind ELSE "none", wrong |-> wrong]
           hazard == [kind |-> kind, addr |-> a]
<1>1. /\ HTypes /\ StampSync /\ EventUse /\ Take(t, "write") /\ e.kind = "write" /\ rings[t] # <<>>
      /\ UNCHANGED <<blocks, users, allocs, stamps, stackLo, stackHi>>
    BY DEF HInv, OnWrite, Take
<1>2. /\ violations' = IF wrong /\ Len(violations) < ViolationCap
                       THEN Append(violations, a) ELSE violations
      /\ hazards' = IF reported THEN Append(hazards, hazard) ELSE hazards
      /\ judged' = <<new>>
    BY DEF OnWrite
<1>3. /\ e \in Events /\ e.addr \in Words /\ e.addr \in Nat /\ e.size \in Nat \ {0} /\ UsedBy(t, e)
  <2>1. /\ e \in Events /\ e = rings[t][1] /\ Len(rings[t]) \in Nat /\ Len(rings[t]) >= 1
    <3>1. rings[t] \in Seq(Events)
        BY <1>1 DEF HTypes
    <3> QED
        BY <1>1, <3>1, HeadTailProperties
  <2>2. UsedBy(t, rings[t][1])
    BY <1>1, <2>1 DEF EventUse
  <2>3. e.kind = "write"
    BY <1>1
  <2> HIDE DEF e
  <2> QED
    BY <2>1, <2>2, <2>3, EventFacts
<1> HIDE DEF e
<1>4. kind \in {"none", "OOB", "HOLE"}
    BY DEF Bounds
<1>5. /\ hazards' \in Seq([kind : {"OOB", "HOLE"}, addr : Words]) /\ Len(hazards') <= HazardCap
      /\ reported => Len(hazards) < HazardCap
      /\ \A h \in Range(hazards) : h \in Range(hazards')
      /\ reported => hazard \in Range(hazards')
      /\ Len(hazards) = HazardCap => Len(hazards') = HazardCap
      /\ Len(hazards) \in Nat /\ Len(hazards) <= HazardCap
  <2> DEFINE K == [kind : {"OOB", "HOLE"}, addr : Words]
  <2>1. hazards \in Seq(K) /\ Len(hazards) \in Nat /\ Len(hazards) <= HazardCap
    BY <1>1 DEF HTypes
  <2>2. reported => kind # "none" /\ Len(hazards) < HazardCap
    BY <2>1
  <2>3. reported => hazard \in K
    BY <1>3, <1>4, <2>2
  <2> HIDE DEF kind, reported, hazard, K
  <2>4. CASE ~reported
    <3>1. hazards' = hazards
        BY <1>2, <2>4
    <3> QED
        BY <2>1, <2>4, <3>1 DEF K
  <2>5. CASE reported
    <3>1. hazards' = Append(hazards, hazard)
        BY <1>2, <2>5
    <3>2. /\ hazards' \in Seq(K) /\ Len(hazards') = Len(hazards) + 1
          /\ \A k \in 1..Len(hazards) : hazards'[k] = hazards[k]
          /\ hazards'[Len(hazards) + 1] = hazard
        BY <2>1, <2>3, <2>5, <3>1
    <3>3. DOMAIN hazards = 1..Len(hazards) /\ DOMAIN hazards' = 1..(Len(hazards) + 1)
        BY <2>1, <3>2
    <3>4. \A h \in Range(hazards) : h \in Range(hazards')
      <4> SUFFICES ASSUME NEW k \in DOMAIN hazards PROVE hazards[k] \in Range(hazards')
          BY DEF Range
      <4>1. k \in DOMAIN hazards' /\ hazards'[k] = hazards[k]
          BY <2>1, <3>2, <3>3
      <4> QED
          BY <4>1 DEF Range
    <3>5. hazard \in Range(hazards')
      <4>1. Len(hazards) + 1 \in DOMAIN hazards'
          BY <2>1, <3>3
      <4> QED
          BY <3>2, <4>1 DEF Range
    <3> QED
        BY <2>1, <2>2, <2>5, <3>2, <3>4, <3>5 DEF K
  <2> QED
    BY <2>4, <2>5
<1>6. violations' \in Seq(Words)
  <2>1. violations \in Seq(Words) /\ a \in Words
    BY <1>1, <1>3 DEF HTypes
  <2> HIDE DEF wrong
  <2> QED
    BY <1>2, <2>1
<1>7. PICK j : j = new
    OBVIOUS
<1>8. j.event = e /\ j.kind = (IF reported THEN kind ELSE "none") /\ j.wrong = wrong
    BY <1>7
<1> HIDE DEF new
<1>9. ASSUME NEW b \in e.hit, \A w \in WordsOf(b.base, b.size) : Own(t, w)
      PROVE  Bounded(j, b)' /\ Typed(j, b)'
  <2>1. /\ b \in Blocks /\ In(a, b) /\ a \in Nat
        /\ allocs[b.base] = b.size /\ stamps[b.base] = b.size
        /\ Containing(a) = {b.base} /\ CoveringStamp(a) = {b.base}
    BY <1>1, <1>9, BlockKnown DEF e
  <2>2. /\ b.base \in Nat /\ b.size \in BlockSizes /\ b.size \in Nat
        /\ b.base <= a /\ a < b.base + b.size
    BY <2>1, WordFacts DEF In, WordsOf
  <2>3. Bounds(a, e.size) = IF a + e.size > b.base + b.size THEN "OOB" ELSE "none"
    BY <2>1 DEF Bounds, Overruns
  <2>4. IsHeap(j.event.addr)' <=> heap
    <3>1. IsHeap(j.event.addr)' <=> IsHeap(j.event.addr)
        BY <1>1 DEF IsHeap
    <3> QED
        BY <1>8, <3>1
  <2>5. wrong <=> heap /\ Violates(Layout[b.size], b.size, a - b.base, e.size)
    BY <2>1
  <2>6. IF a + e.size <= b.base + b.size THEN j.kind = "none"
        ELSE \/ \E h \in Range(hazards') : h.addr = a
             \/ Len(hazards') = HazardCap \/ ~heap
    <3>1. CASE a + e.size <= b.base + b.size
      <4>1. kind = "none"
          BY <1>3, <2>2, <2>3, <3>1
      <4> HIDE DEF kind
      <4> QED
          BY <1>8, <3>1, <4>1
    <3>2. CASE ~(a + e.size <= b.base + b.size)
      <4>1. Bounds(a, e.size) = "OOB"
          BY <1>3, <2>2, <2>3, <3>2
      <4> DEFINE seen == \E h \in Range(hazards) : h.addr = a
      <4>2. heap /\ Len(hazards) < HazardCap /\ ~seen => reported
          BY <1>5, <4>1
      <4>3. hazard.addr = a
          OBVIOUS
      <4> HIDE DEF reported, hazard, kind, heap
      <4> QED
          BY <1>5, <3>2, <4>2, <4>3
    <3> QED
        BY <3>1, <3>2
  <2> HIDE DEF wrong, heap, reported, kind
  <2>7. Bounded(j, b)'
    BY <1>8, <2>4, <2>6 DEF Bounded, IsHeap
  <2>8. Typed(j, b)'
    <3> DEFINE off == j.event.addr - b.base
               end == off + j.event.size
               struct == Layout[b.size]
    <3>1. off \in Nat /\ off = a - b.base /\ j.event.size = e.size
        BY <1>8, <2>1, <2>2
    <3>2. /\ DisjointFields /\ At(struct, off) /\ At(struct, end - 1) => ~j.wrong
          /\ DisjointFields /\ end > b.size + Tolerance(j.event.size) /\ heap /\ struct # <<>> => j.wrong
      <4> HIDE DEF off
      <4>0. DisjointFields =>
              /\ At(struct, off) /\ At(struct, off + e.size - 1) => ~Violates(struct, b.size, off, e.size)
              /\ off + e.size > b.size + Tolerance(e.size) /\ struct # <<>>
                     => Violates(struct, b.size, off, e.size)
          BY <1>3, <2>2, <3>1, VerdictFacts, SMTT(30)
      <4>a. end = off + e.size
          BY <3>1
      <4> HIDE DEF end, struct
      <4>1. DisjointFields =>
              /\ At(struct, off) /\ At(struct, end - 1) => ~Violates(struct, b.size, off, e.size)
              /\ end > b.size + Tolerance(e.size) /\ struct # <<>> => Violates(struct, b.size, off, e.size)
          BY <1>3, <3>1, <4>0, <4>a
      <4>2. wrong <=> heap /\ Violates(struct, b.size, off, e.size)
          BY <2>5, <3>1 DEF struct
      <4> QED
          BY <1>8, <3>1, <4>1, <4>2
    <3> QED
        BY <2>4, <3>2 DEF Typed, IsHeap
  <2> QED
    BY <2>7, <2>8
<1>10. JInv'
  <2>1. Range(judged') = {j}
    <3>1. judged' = <<j>>
        BY <1>2, <1>7
    <3> QED
        BY <3>1 DEF Range
  <2>2. UsedAt(users', t, j.event)
    BY <1>1, <1>3, <1>8 DEF UsedBy
  <2>3. \A b \in j.event.hit :
          (\A w \in WordsOf(b.base, b.size) : Own(t, w)') => Bounded(j, b)' /\ Typed(j, b)'
    BY <1>1, <1>8, <1>9 DEF Own
  <2>4. j.event \in Events /\ j.event.kind = "write"
    BY <1>1, <1>3, <1>8 DEF e
  <2>5. JudgedRight(t, j)'
    BY <2>2, <2>3, <2>4 DEF JudgedRight, UsedBy, WordsOf
  <2> QED
    BY <2>1, <2>5 DEF JInv
<1>11. StampSync'
    BY <1>1 DEF StampSync, Own
<1>12. TableStep(e)
    BY <1>1 DEF TableStep, e
<1>13. stackLo' \in [Workers -> Nat] /\ stackHi' \in [Workers -> Nat]
    BY <1>1 DEF HTypes
<1> QED
    BY <1>1, <1>5, <1>6, <1>10, <1>11, <1>12, <1>13, TakeHInv DEF e

LEMMA HInvNext == HInv /\ [HazNext]_hazVars => HInv'
<1> SUFFICES ASSUME HInv, [HazNext]_hazVars PROVE HInv'
    OBVIOUS
<1>1. ASSUME NEW t \in Workers, NEW p \in Words, TargetFree(t, p) PROVE HInv'
    BY <1>1, TargetFreeHInv
<1>2. ASSUME NEW t \in Workers, NEW p \in Words, NEW n \in BlockSizes, TargetAlloc(t, p, n) PROVE HInv'
    BY <1>2, TargetAllocHInv
<1>3. ASSUME NEW t \in Workers, NEW a \in Words, NEW n \in WriteSizes, TargetWrite(t, a, n) PROVE HInv'
    BY <1>3, TargetWriteHInv
<1>4. ASSUME NEW t \in Workers, NEW sp \in StackPtrs, TargetCall(t, sp) PROVE HInv'
    BY <1>4, TargetCallHInv
<1>5. ASSUME NEW t \in Workers, OnAlloc(t) \/ OnFree(t) \/ OnCall(t) \/ OnWrite(t) PROVE HInv'
    BY <1>5, OnAllocHInv, OnFreeHInv, OnCallHInv, OnWriteHInv
<1>6. CASE UNCHANGED hazVars
  <2>1. /\ UNCHANGED <<blocks, users, rings, steps, allocs, stamps>>
        /\ UNCHANGED <<stackLo, stackHi, since, hazards, violations, judged>>
    BY <1>6 DEF hazVars
  <2>2. HTypes' /\ Heap'
    BY <2>1 DEF HInv, HTypes, Heap
  <2>3. EventUse' /\ StampSync'
    BY <2>1 DEF HInv, EventUse, UsedBy, StampSync, Own
  <2>4. JInv'
    BY <2>1, VerdictsStay DEF IsHeap
  <2>5. PICK U \in Held : Views(U)
    BY DEF HInv
  <2>6. \A s \in Workers : \A w : Own(s, w)' <=> Own(s, w)
    BY <2>1 DEF Own
  <2>7. Steps(U)' /\ TableSync(U)'
    BY <2>1, <2>5, <2>6 DEF Views, Steps, TableSync
  <2>8. HeapSync(U)' /\ Apart(U)'
    BY <2>1, <2>5, <2>6 DEF Views, HeapSync, Apart
  <2>9. WriteSync(U)'
    BY <2>1, <2>5, <2>6 DEF Views, WriteSync
  <2> QED
    BY <2>2, <2>3, <2>4, <2>5, <2>7, <2>8, <2>9 DEF HInv, Views
<1> QED
    BY <1>1, <1>2, <1>3, <1>4, <1>5, <1>6 DEF HazNext

(* A block that one thread alone has used is used by the thread whose      *)
(* write began in it.                                                      *)
LEMMA PrivateOwn ==
    ASSUME HInv, NEW j, NEW t \in Workers, JudgedRight(t, j), NEW b \in j.event.hit, Private(b)
    PROVE  \A w \in WordsOf(b.base, b.size) : Own(t, w)
<1>1. /\ In(j.event.addr, b) /\ t \in users[j.event.addr]
      /\ \A w \in WordsOf(b.base, b.size) : w \in Words
    BY DEF JudgedRight, UsedBy, UsedAt
<1>2. PICK s \in Workers : users[j.event.addr] = {s}
    BY <1>1 DEF Private, In
<1>3. users[j.event.addr] = {t}
    BY <1>1, <1>2
<1>4. \A w \in WordsOf(b.base, b.size) : users[w] = users[j.event.addr]
    BY <1>1 DEF Private, In
<1> QED
    BY <1>1, <1>3, <1>4 DEF Own

(* However the engine interleaves the rings of the threads, a write inside *)
(* a block whose memory one thread alone ever used is not reported as out  *)
(* of bounds, and one over the end of the block is, unless the list of     *)
(* hazards is full or the address is taken for stack: for any number of    *)
(* threads, blocks, sizes and events that wait.                            *)
THEOREM HazardsAlwaysExact == HazSpec => []HazardsExact
<1>1. HInv => HazardsExact
  <2> SUFFICES ASSUME HInv, NEW j \in Range(judged), NEW b \in j.event.hit, Private(b)
               PROVE  Bounded(j, b)
    BY DEF HazardsExact, Bounded
  <2>1. PICK t \in Workers : JudgedRight(t, j)
    BY DEF HInv, JInv
  <2> QED
    BY <2>1, PrivateOwn DEF JudgedRight
<1> QED
  BY <1>1, HInvInit, HInvNext, PTL DEF HazSpec

(* Such a write is judged by the type of its own block, for every layout   *)
(* whose fields are apart: inside a field, or from one field into another, *)
(* it is no violation, and past the tolerance behind the struct it is one. *)
THEOREM StabilityJudgedRight ==
    ASSUME DisjointFields
    PROVE  HazSpec => []StabilitySound
<1>1. HInv => StabilitySound
  <2> SUFFICES ASSUME HInv, NEW j \in Range(judged), NEW b \in j.event.hit, Private(b)
               PROVE  Typed(j, b)
    BY DEF StabilitySound, Typed, At
  <2>1. PICK t \in Workers : JudgedRight(t, j)
    BY DEF HInv, JInv
  <2> QED
    BY <2>1, PrivateOwn DEF JudgedRight
<1> QED
  BY <1>1, HInvInit, HInvNext, PTL DEF HazSpec

-----------------------------------------------------------------------------
(* The address index.  First what it is built from: the intervals of       *)
(* globals, whose fields come from a recursive function of the depth.      *)

LEMMA FlattenType ==
    ASSUME NEW S, NEW n \in Nat, NEW c, \A i \in 1..n : c[i] \in Seq(S)
    PROVE  FlattenSeq([i \in 1..n |-> c[i]]) \in Seq(S)
<1>1. Parts(c, n, S)
  BY DEF Parts
<1>2. Cat(c, n) \in Seq(S)
  BY <1>1, CatStep DEF CatLaws
<1> QED
  BY <1>2 DEF Cat

Field == [off : Nat, size : Nat, ptr : BOOLEAN]
TypeField == [off : Nat, size : Nat, ptr : BOOLEAN, type : DOMAIN Types]
GlobalVar == [addr : Nat, size : Nat, ptr : BOOLEAN, type : DOMAIN Types]
StaticNids == {GlobalNode(i) : i \in Nat} \cup {FieldNode(i, j) : i \in Nat, j \in Nat}
StaticIv == [lo : Nat, hi : Nat, nid : StaticNids, ptr : BOOLEAN]

LEMMA FieldWithType ==
    ASSUME NEW f \in TypeField, NEW inner \in Seq(Field)
    PROVE  FieldWith(f, inner) \in Seq(Field)
<1> DEFINE own == [off |-> f.off, size |-> f.size, ptr |-> f.ptr]
           moved == [j \in DOMAIN inner |-> [inner[j] EXCEPT !.off = @ + f.off]]
<1>1. own \in Field /\ f.off \in Nat
  BY DEF Field, TypeField
<1>2. <<own>> \in Seq(Field) /\ <<>> \in Seq(Field)
  <2> HIDE DEF own
  <2> QED
    BY <1>1
<1>3. moved \in Seq(Field)
  <2>1. DOMAIN inner = 1..Len(inner) /\ Len(inner) \in Nat /\ \A j \in 1..Len(inner) : inner[j] \in Field
    BY ElementOfSeq
  <2>2. \A j \in 1..Len(inner) : [inner[j] EXCEPT !.off = @ + f.off] \in Field
    <3> TAKE j \in 1..Len(inner)
    <3> DEFINE x == inner[j]
    <3>1. x \in Field
      BY <2>1
    <3> HIDE DEF x
    <3>3. [x EXCEPT !.off = @ + f.off] = [off |-> x.off + f.off, size |-> x.size, ptr |-> x.ptr]
      <4> DEFINE o == x.off + f.off
                 z == x.size
                 w == x.ptr
      <4>1. x = [off |-> x.off, size |-> z, ptr |-> w]
        BY <3>1 DEF Field
      <4> HIDE DEF z, w
      <4>2. [x EXCEPT !.off = o] = [off |-> o, size |-> z, ptr |-> w]
        <5> HIDE DEF o
        <5> QED
          BY <4>1
      <4> QED
        BY <4>2 DEF z, w
    <3>4. x.off + f.off \in Nat /\ x.size \in Nat /\ x.ptr \in BOOLEAN
      BY <1>1, <3>1 DEF Field
    <3>2. [x EXCEPT !.off = @ + f.off] \in Field
      BY <3>3, <3>4 DEF Field
    <3> QED
      BY <3>2 DEF x
  <2> QED
    BY <2>1, <2>2, IsASeq
<1>4. <<own>> \o moved \in Seq(Field)
  <2> HIDE DEF own, moved
  <2> QED
    BY <1>2, <1>3, ConcatProperties
<1> QED
  BY <1>2, <1>4 DEF FieldWith

(* The recursion of FieldsOf: the fields at one depth from those below.    *)
FieldBody(g, d) ==
    [ty \in DOMAIN Types |->
        IF d > FieldDepth THEN <<>>
        ELSE FlattenSeq([i \in DOMAIN Types[ty] |->
            LET f == Types[ty][i]
            IN FieldWith(f, IF f.ptr \/ f.size <= 1 THEN <<>> ELSE g[d + 1][f.type])])]

LEMMA FieldBodySame ==
    ASSUME NEW g, NEW h, NEW d, g[d + 1] = h[d + 1]
    PROVE  FieldBody(g, d) = FieldBody(h, d)
BY Zenon DEF FieldBody

LEMMA FieldsRecursion ==
    /\ DOMAIN FieldsOf = 0..(FieldDepth + 1)
    /\ \A d \in 0..(FieldDepth + 1) : FieldsOf[d] = FieldBody(FieldsOf, d)
<1> DEFINE N == FieldDepth + 1
           Def(g) == g = [d \in 0..N |-> FieldBody(g, d)]
           From(g, k) == g = [d \in (N - k)..N |-> FieldBody(g, d)]
           T == {k \in Nat : k <= N => \E g : From(g, k)}
<1>1. N \in Nat
  BY FramesAssumption
<1>2. FieldsOf = CHOOSE g : Def(g)
  BY Zenon DEF FieldsOf, FieldBody
<1> HIDE DEF N
<1>3. 0 \in T
  <2> DEFINE g == [d \in (N - 0)..N |-> FieldBody(<<>>, d)]
             h == [d \in (N - 0)..N |-> FieldBody(g, d)]
  <2>1. ASSUME NEW d \in (N - 0)..N PROVE FieldBody(<<>>, d) = FieldBody(g, d)
    <3>1. d > FieldDepth
      BY <1>1, FramesAssumption DEF N
    <3> HIDE DEF g
    <3> QED
      BY <3>1, Zenon DEF FieldBody
  <2>2. g = h
    BY <2>1
  <2>3. From(g, 0)
    BY <2>2
  <2> HIDE DEF From, g
  <2> QED
    BY <2>3
<1>4. ASSUME NEW k \in Nat, k \in T PROVE k + 1 \in T
  <2> SUFFICES ASSUME k + 1 <= N PROVE \E h : From(h, k + 1)
    OBVIOUS
  <2>1. PICK g : From(g, k)
    BY <1>1, <1>4
  <2> DEFINE m == N - (k + 1)
             h == [d \in m..N |-> IF d = m THEN FieldBody(g, d) ELSE g[d]]
             h2 == [d \in m..N |-> FieldBody(h, d)]
  <2>2. m \in Nat /\ m + 1 = N - k /\ m < N
    BY <1>1
  <2>3. ASSUME NEW d \in m..N PROVE h[d] = FieldBody(h, d)
    <3>1. CASE d = N
      <4>1. d > FieldDepth /\ d # m /\ d \in (N - k)..N
        BY <1>1, <2>2, <3>1, FramesAssumption DEF N
      <4>2. h[d] = FieldBody(g, d)
        BY <2>1, <4>1
      <4>3. FieldBody(g, d) = FieldBody(h, d)
        <5> HIDE DEF h
        <5> QED
          BY <4>1, Zenon DEF FieldBody
      <4> QED
        BY <4>2, <4>3
    <3>2. CASE d # N
      <4>1. d + 1 \in m..N /\ d + 1 # m /\ (d # m => d \in (N - k)..N)
        BY <1>1, <2>2, <3>2
      <4>2. h[d + 1] = g[d + 1]
        BY <4>1
      <4>3. h[d] = FieldBody(g, d)
        BY <2>1, <4>1
      <4>4. FieldBody(g, d) = FieldBody(h, d)
        <5> HIDE DEF h
        <5> QED
          BY <4>2, FieldBodySame
      <4> QED
        BY <4>3, <4>4
    <3> QED
      BY <3>1, <3>2
  <2>4. h = h2
    <3>1. h = [d \in m..N |-> h[d]]
      OBVIOUS
    <3> HIDE DEF h
    <3> QED
      BY <2>3, <3>1
  <2>5. From(h, k + 1)
    BY <2>4
  <2> HIDE DEF From, h
  <2> QED
    BY <2>5
<1>5. \E g : Def(g)
  <2>1. N \in T
    <3> HIDE DEF T
    <3> QED
      BY <1>1, <1>3, <1>4, NatByInduction
  <2>2. PICK g : From(g, N)
    BY <1>1, <2>1
  <2>3. N - N = 0
    BY <1>1
  <2> QED
    BY <2>2, <2>3
<1> HIDE DEF Def
<1>6. Def(FieldsOf)
  BY <1>2, <1>5
<1>7. FieldsOf = [d \in 0..N |-> FieldBody(FieldsOf, d)]
  BY <1>6 DEF Def
<1> QED
  BY <1>7, Zenon DEF N

LEMMA FieldsType ==
    ASSUME NEW ty \in DOMAIN Types
    PROVE  FieldsOf[0][ty] \in Seq(Field)
<1> DEFINE N == FieldDepth + 1
           Fine(d) == \A x \in DOMAIN Types : FieldsOf[d][x] \in Seq(Field)
           T == {k \in Nat : k <= N => Fine(N - k)}
<1>1. N \in Nat /\ N > FieldDepth /\ \A d \in 0..N : d # N => ~(d > FieldDepth)
  BY FramesAssumption
<1>2. ASSUME NEW d \in 0..N, NEW x \in DOMAIN Types
      PROVE  FieldsOf[d][x] = IF d > FieldDepth THEN <<>>
                ELSE FlattenSeq([i \in DOMAIN Types[x] |->
                    FieldWith(Types[x][i], IF Types[x][i].ptr \/ Types[x][i].size <= 1 THEN <<>>
                                           ELSE FieldsOf[d + 1][Types[x][i].type])])
  BY FieldsRecursion DEF FieldBody
<1> HIDE DEF N
<1>3. 0 \in T
  <2>1. N - 0 = N /\ N \in 0..N
    BY <1>1
  <2>2. Fine(N)
    BY <1>1, <1>2, <2>1, EmptySeq
  <2> HIDE DEF Fine
  <2> QED
    BY <2>1, <2>2
<1>4. ASSUME NEW k \in Nat, k \in T PROVE k + 1 \in T
  <2> SUFFICES ASSUME k + 1 <= N PROVE Fine(N - (k + 1))
    OBVIOUS
  <2> DEFINE d == N - (k + 1)
  <2>1. d \in 0..N /\ d + 1 = N - k /\ ~(d > FieldDepth) /\ k <= N
    BY <1>1
  <2>2. \A y \in DOMAIN Types : FieldsOf[d + 1][y] \in Seq(Field)
    BY <1>4, <2>1
  <2> SUFFICES ASSUME NEW x \in DOMAIN Types PROVE FieldsOf[d][x] \in Seq(Field)
    OBVIOUS
  <2> HIDE DEF T, d
  <2> DEFINE t == Types[x]
             c == [i \in DOMAIN t |->
                    FieldWith(t[i], IF t[i].ptr \/ t[i].size <= 1 THEN <<>> ELSE FieldsOf[d + 1][t[i].type])]
  <2>3. t \in Seq(TypeField) /\ DOMAIN t = 1..Len(t) /\ Len(t) \in Nat /\ \A i \in 1..Len(t) : t[i] \in TypeField
    <3>1. t \in Seq(TypeField)
      BY FieldTypesAssumption DEF TypeField
    <3> HIDE DEF t
    <3> QED
      BY <3>1, ElementOfSeq
  <2>4. FieldsOf[d][x] = FlattenSeq(c)
    BY <1>2, <2>1
  <2>5. \A i \in 1..Len(t) : c[i] \in Seq(Field)
    <3> TAKE i \in 1..Len(t)
    <3>1. t[i] \in TypeField /\ t[i].type \in DOMAIN Types
      BY <2>3 DEF TypeField
    <3>2. c[i] = FieldWith(t[i], IF t[i].ptr \/ t[i].size <= 1 THEN <<>> ELSE FieldsOf[d + 1][t[i].type])
      BY <2>3
    <3>3. (IF t[i].ptr \/ t[i].size <= 1 THEN <<>> ELSE FieldsOf[d + 1][t[i].type]) \in Seq(Field)
      BY <2>2, <3>1, EmptySeq
    <3> HIDE DEF c, t
    <3> QED
      BY <3>1, <3>2, <3>3, FieldWithType
  <2>6. c = [i \in 1..Len(t) |-> c[i]]
    BY <2>3
  <2> DEFINE n == Len(t)
  <2> HIDE DEF c, t, n
  <2>7. FlattenSeq([i \in 1..n |-> c[i]]) \in Seq(Field)
    <3>1. n \in Nat /\ \A i \in 1..n : c[i] \in Seq(Field)
      BY <2>3, <2>5 DEF n
    <3> QED
      BY <3>1, FlattenType
  <2> QED
    BY <2>4, <2>6, <2>7 DEF n
<1>5. N \in T
  <2> HIDE DEF T
  <2> QED
    BY <1>1, <1>3, <1>4, NatByInduction
<1>6. N - N = 0 /\ N <= N
  BY <1>1
<1> QED
  BY <1>5, <1>6

(* The least and the greatest of finitely many numbers.                    *)
LEMMA MinSpec ==
    ASSUME NEW S, S \subseteq Nat, S # {}
    PROVE  Min(S) \in S /\ \A x \in S : Min(S) <= x
BY LeastElement DEF Min

LEMMA MinTwo ==
    ASSUME NEW a \in Nat, NEW b \in Nat
    PROVE  Min({a, b}) = IF a <= b THEN a ELSE b
<1>1. Min({a, b}) \in {a, b} /\ \A x \in {a, b} : Min({a, b}) <= x
  BY MinSpec
<1> QED
  BY <1>1

LEMMA GlobalIntervalsType ==
    ASSUME NEW g \in GlobalVar, NEW gi \in Nat
    PROVE  GlobalIntervals(g, gi) \in Seq(StaticIv)
<1> DEFINE all == IF g.ptr THEN <<>> ELSE FieldsOf[0][g.type]
           n == Min({FieldCap, Len(all)})
           fields == SubSeq(all, 1, n)
           own == [lo |-> g.addr, hi |-> g.addr + g.size, nid |-> GlobalNode(gi), ptr |-> g.ptr]
           iv(fi) == [lo |-> g.addr + fields[fi].off, hi |-> g.addr + fields[fi].off + fields[fi].size,
                      nid |-> FieldNode(gi, fi), ptr |-> fields[fi].ptr]
           rest == [fi \in DOMAIN fields |-> iv(fi)]
           first == IF g.size = 0 THEN <<>> ELSE <<own>>
<1>1. g.addr \in Nat /\ g.size \in Nat /\ g.ptr \in BOOLEAN /\ g.type \in DOMAIN Types
  BY DEF GlobalVar
<1>2. all \in Seq(Field)
  BY <1>1, FieldsType, EmptySeq
<1> HIDE DEF all
<1>3. n \in Nat /\ n <= Len(all) /\ Len(all) \in Nat
  <2>1. Len(all) \in Nat /\ FieldCap \in Nat
    BY <1>2, FramesAssumption
  <2>2. n = IF FieldCap <= Len(all) THEN FieldCap ELSE Len(all)
    BY <2>1, MinTwo
  <2> QED
    BY <2>1, <2>2
<1> HIDE DEF n
<1>4. fields \in Seq(Field)
  <2>1. n \in Int /\ 1 \in Int /\ \A i \in 1..n : all[i] \in Field
    BY <1>2, <1>3, ElementOfSeq
  <2> QED
    BY <1>2, <2>1, SubSeqProperties
<1> HIDE DEF fields
<1>5. DOMAIN fields = 1..Len(fields) /\ Len(fields) \in Nat /\ \A i \in 1..Len(fields) : fields[i] \in Field
  BY <1>4, ElementOfSeq
<1>6. \A fi \in 1..Len(fields) : iv(fi) \in StaticIv
  <2> TAKE fi \in 1..Len(fields)
  <2>1. fields[fi].off \in Nat /\ fields[fi].size \in Nat /\ fields[fi].ptr \in BOOLEAN /\ fi \in Nat
    BY <1>5 DEF Field
  <2>2. FieldNode(gi, fi) \in StaticNids
    BY <2>1 DEF StaticNids
  <2>3. g.addr + fields[fi].off \in Nat /\ g.addr + fields[fi].off + fields[fi].size \in Nat
    <3> DEFINE a == g.addr
               b == fields[fi].off
               e == fields[fi].size
    <3>1. a \in Nat /\ b \in Nat /\ e \in Nat
      BY <1>1, <2>1
    <3> HIDE DEF a, b, e
    <3>2. a + b \in Nat /\ a + b + e \in Nat
      BY <3>1
    <3> QED
      BY <3>2 DEF a, b, e
  <2> QED
    BY <2>1, <2>2, <2>3 DEF StaticIv
<1>7. own \in StaticIv
  <2>1. GlobalNode(gi) \in StaticNids
    BY DEF StaticNids
  <2> QED
    BY <1>1, <2>1 DEF StaticIv
<1>8. rest \in Seq(StaticIv)
  <2> HIDE DEF iv
  <2> QED
    BY <1>5, <1>6, IsASeq
<1>9. first \in Seq(StaticIv)
  <2> HIDE DEF own
  <2> QED
    BY <1>7, EmptySeq
<1>10. GlobalIntervals(g, gi) = first \o rest
  BY DEF GlobalIntervals, all, n, fields
<1> HIDE DEF first, rest
<1> QED
  BY <1>8, <1>9, <1>10, ConcatProperties

LEMMA IntervalsType ==
    ASSUME NEW gs \in Seq(GlobalVar), NEW base \in Nat
    PROVE  Intervals(gs, base) \in Seq(StaticIv)
<1> DEFINE c == [i \in DOMAIN gs |-> GlobalIntervals(gs[i], base + i)]
<1>1. DOMAIN gs = 1..Len(gs) /\ Len(gs) \in Nat /\ \A i \in 1..Len(gs) : gs[i] \in GlobalVar
  BY ElementOfSeq
<1>2. \A i \in 1..Len(gs) : c[i] \in Seq(StaticIv)
  <2> TAKE i \in 1..Len(gs)
  <2>1. base + i \in Nat /\ gs[i] \in GlobalVar
    BY <1>1
  <2>2. GlobalIntervals(gs[i], base + i) \in Seq(StaticIv)
    BY <2>1, GlobalIntervalsType
  <2> QED
    BY <1>1, <2>2
<1>3. c = [i \in 1..Len(gs) |-> c[i]] /\ Intervals(gs, base) = FlattenSeq(c)
  BY <1>1 DEF Intervals
<1> DEFINE n == Len(gs)
<1>4. n \in Nat /\ (\A i \in 1..n : c[i] \in Seq(StaticIv)) /\ Intervals(gs, base) = FlattenSeq([i \in 1..n |-> c[i]])
  BY <1>1, <1>2, <1>3
<1> HIDE DEF c, n
<1>5. FlattenSeq([i \in 1..n |-> c[i]]) \in Seq(StaticIv)
  BY <1>4, FlattenType
<1> QED
  BY <1>4, <1>5

Greatest(S) == \E m \in S : \A x \in S : x <= m

LEMMA FiniteGreatest ==
    ASSUME NEW S, S \subseteq Nat, S # {}, IsFiniteSet(S)
    PROVE  Greatest(S)
<1> DEFINE T == {k \in Nat : \A A \in SUBSET Nat :
                    IsFiniteSet(A) /\ Cardinality(A) = k /\ A # {} => Greatest(A)}
<1>1. 0 \in T
  BY FS_EmptySet
<1>2. ASSUME NEW k \in Nat, k \in T PROVE k + 1 \in T
  <2> SUFFICES ASSUME NEW A \in SUBSET Nat, IsFiniteSet(A), Cardinality(A) = k + 1, A # {}
               PROVE  Greatest(A)
    OBVIOUS
  <2>1. PICK a \in A : TRUE
    OBVIOUS
  <2> DEFINE B == A \ {a}
  <2>2. IsFiniteSet(B) /\ Cardinality(B) = k /\ B \in SUBSET Nat
    <3>1. IsFiniteSet(B) /\ Cardinality(B) = Cardinality(A) - 1
      BY <2>1, FS_RemoveElement
    <3> QED
      BY <3>1
  <2>3. B # {} => Greatest(B)
    BY <1>2, <2>2
  <2>4. CASE B = {}
    <3>1. A = {a} /\ a \in Nat
      BY <2>1, <2>4
    <3> QED
      BY <3>1 DEF Greatest
  <2>5. CASE B # {}
    <3>1. PICK m \in B : \A x \in B : x <= m
      BY <2>3, <2>5 DEF Greatest
    <3>2. m \in Nat /\ a \in Nat /\ m \in A
      BY <2>1
    <3>3. CASE a <= m
      BY <3>1, <3>2, <3>3 DEF Greatest
    <3>4. CASE ~(a <= m)
      <4>1. \A x \in A : x <= a
        BY <3>1, <3>2, <3>4
      <4> QED
        BY <2>1, <4>1 DEF Greatest
    <3> QED
      BY <3>3, <3>4
  <2> QED
    BY <2>4, <2>5
<1>3. Cardinality(S) \in Nat
  BY FS_CardinalityType
<1>4. \A k \in Nat : k \in T
  <2> HIDE DEF T
  <2> QED
    BY <1>1, <1>2, NatByInduction
<1> QED
  BY <1>3, <1>4

LEMMA MaxSpec ==
    ASSUME NEW S, S \subseteq Nat, S # {}, IsFiniteSet(S)
    PROVE  Max(S) \in S /\ \A x \in S : x <= Max(S)
<1>1. \E m \in S : \A x \in S : m >= x
  BY FiniteGreatest DEF Greatest
<1>2. Max(S) \in S /\ \A x \in S : Max(S) >= x
  BY <1>1 DEF Max
<1> QED
  BY <1>2

(* finalize loses no interval and adds none.                               *)
LEMMA PlaceType ==
    ASSUME NEW ivs \in Seq(StaticIv), NEW i \in DOMAIN ivs
    PROVE  /\ Place(ivs, i) \in DOMAIN ivs
           /\ \A k \in DOMAIN ivs : k # i => Place(ivs, k) # Place(ivs, i)
<1> DEFINE n == Len(ivs)
           Before(j, k) == ivs[j].lo < ivs[k].lo \/ (ivs[j].lo = ivs[k].lo /\ j < k)
           Preds(k) == {j \in DOMAIN ivs : Before(j, k)}
<1>1. n \in Nat /\ DOMAIN ivs = 1..n /\ \A j \in 1..n : ivs[j].lo \in Nat
  <2>1. n \in Nat /\ DOMAIN ivs = 1..n /\ \A j \in 1..n : ivs[j] \in StaticIv
    BY ElementOfSeq
  <2> QED
    BY <2>1 DEF StaticIv
<1>2. IsFiniteSet(DOMAIN ivs) /\ Cardinality(DOMAIN ivs) = n
  <2>1. IsFiniteSet(1..n) /\ Cardinality(1..n) = IF 1 > n THEN 0 ELSE n - 1 + 1
    BY <1>1, FS_Interval
  <2> QED
    BY <1>1, <2>1
<1>3. \A j \in DOMAIN ivs : Place(ivs, j) = 1 + Cardinality(Preds(j))
  BY DEF Place
<1>9. \A j, k, l \in 1..n : /\ ~Before(j, j)
                            /\ j # k => Before(j, k) \/ Before(k, j)
                            /\ Before(j, k) /\ Before(k, l) => Before(j, l)
  <2> TAKE j, k, l \in 1..n
  <2> DEFINE a == ivs[j].lo
             b == ivs[k].lo
             c == ivs[l].lo
  <2>1. a \in Nat /\ b \in Nat /\ c \in Nat /\ j \in Nat /\ k \in Nat /\ l \in Nat
    BY <1>1
  <2> HIDE DEF a, b, c
  <2>2. /\ ~(a < a \/ (a = a /\ j < j))
        /\ j # k => (a < b \/ (a = b /\ j < k)) \/ (b < a \/ (b = a /\ k < j))
        /\ (a < b \/ (a = b /\ j < k)) /\ (b < c \/ (b = c /\ k < l)) => a < c \/ (a = c /\ j < l)
    BY <2>1
  <2> QED
    BY <2>2 DEF a, b, c
<1> HIDE DEF Before
<1>4. \A k \in DOMAIN ivs : IsFiniteSet(Preds(k)) /\ Cardinality(Preds(k)) \in Nat
  <2> TAKE k \in DOMAIN ivs
  <2>1. Preds(k) \in SUBSET DOMAIN ivs
    OBVIOUS
  <2> QED
    BY <1>2, <2>1, FS_Subset, FS_CardinalityType
<1>5. \A j, k \in DOMAIN ivs : Before(j, k) => Cardinality(Preds(j)) < Cardinality(Preds(k))
  <2> SUFFICES ASSUME NEW j \in DOMAIN ivs, NEW k \in DOMAIN ivs, Before(j, k)
               PROVE  Cardinality(Preds(j)) < Cardinality(Preds(k))
    OBVIOUS
  <2>1. j \notin Preds(j) /\ Preds(j) \cup {j} \subseteq Preds(k)
    BY <1>1, <1>9
  <2> HIDE DEF Preds
  <2>2. Cardinality(Preds(j) \cup {j}) = Cardinality(Preds(j)) + 1
    BY <1>4, <2>1, FS_AddElement
  <2>3. Cardinality(Preds(j) \cup {j}) <= Cardinality(Preds(k))
    BY <1>4, <2>1, FS_Subset
  <2> QED
    BY <1>4, <2>2, <2>3
<1>6. Cardinality(Preds(i)) < n
  <2>1. i \notin Preds(i) /\ Preds(i) \subseteq DOMAIN ivs \ {i}
    BY <1>1, <1>9
  <2> HIDE DEF Preds
  <2>2. IsFiniteSet(DOMAIN ivs \ {i}) /\ Cardinality(DOMAIN ivs \ {i}) = n - 1
    <3> DEFINE D == DOMAIN ivs
    <3>1. IsFiniteSet(D) /\ Cardinality(D) = n /\ i \in D
      BY <1>2
    <3> HIDE DEF D, n
    <3>2. IsFiniteSet(D \ {i}) /\ Cardinality(D \ {i}) = n - 1
      BY <3>1, FS_RemoveElement
    <3> QED
      BY <3>2 DEF D
  <2>3. Cardinality(Preds(i)) <= Cardinality(DOMAIN ivs \ {i})
    BY <2>1, <2>2, FS_Subset
  <2> QED
    BY <1>1, <1>4, <2>2, <2>3
<1>7. Place(ivs, i) \in DOMAIN ivs
  <2> HIDE DEF Preds
  <2> QED
    BY <1>1, <1>3, <1>4, <1>6
<1>8. \A k \in DOMAIN ivs : k # i => Place(ivs, k) # Place(ivs, i)
  <2> HIDE DEF Preds
  <2> QED
    BY <1>1, <1>3, <1>4, <1>5, <1>9
<1> QED
  BY <1>7, <1>8

LEMMA FinalizeSpec ==
    ASSUME NEW ivs \in Seq(StaticIv)
    PROVE  /\ Finalize(ivs) \in Seq(StaticIv)
           /\ Range(Finalize(ivs)) \subseteq Range(ivs)
<1> DEFINE n == Len(ivs)
           f == [i \in 1..n |-> Place(ivs, i)]
           at(p) == CHOOSE i \in DOMAIN ivs : Place(ivs, i) = p
<1>1. n \in Nat /\ DOMAIN ivs = 1..n /\ \A j \in 1..n : ivs[j] \in StaticIv
  BY ElementOfSeq
<1>2. f \in Injection(1..n, 1..n)
  <2>1. f \in [1..n -> 1..n] /\ \A i, k \in 1..n : k # i => f[k] # f[i]
    BY <1>1, PlaceType
  <2> HIDE DEF f
  <2> QED
    BY <2>1 DEF Injection, IsInjective
<1>3. f \in Surjection(1..n, 1..n)
  <2>1. IsFiniteSet(1..n)
    BY <1>1, FS_Interval
  <2> HIDE DEF f
  <2> QED
    BY <1>2, <2>1, FS_Injection
<1>4. \A p \in 1..n : \E i \in 1..n : f[i] = p
  <2> HIDE DEF f
  <2> QED
    BY <1>3 DEF Surjection
<1>5. \A p \in 1..n : \E i \in DOMAIN ivs : Place(ivs, i) = p
  BY <1>1, <1>4
<1> HIDE DEF f
<1>6. \A p \in 1..n : at(p) \in 1..n
  BY <1>1, <1>5
<1>7. Finalize(ivs) = [p \in 1..n |-> ivs[at(p)]]
  BY <1>1 DEF Finalize
<1> HIDE DEF at
<1>8. Finalize(ivs) \in Seq(StaticIv)
  BY <1>1, <1>6, <1>7, IsASeq
<1>9. Range(Finalize(ivs)) \subseteq Range(ivs)
  BY <1>1, <1>6, <1>7 DEF Range
<1> QED
  BY <1>8, <1>9

-----------------------------------------------------------------------------
(* The index.                                                              *)

(* What a well-formed index is: its bounds hold every local, the statics    *)
(* lie off the stacks, and an entry of the MRU cache stands for an          *)
(* interval of the index that has its bounds.                              *)
OffStacks(iv) == \A t \in Threads : \A a \in iv.lo..(iv.hi - 1) : ~OnStack(t, a)

Shaped(ix) ==
    /\ ix = [statics |-> ix.statics, dynamics |-> ix.dynamics, mru |-> ix.mru,
             lo |-> ix.lo, hi |-> ix.hi]
    /\ ix.statics \in Seq(StaticIv) /\ ix.lo \in Nat /\ ix.hi \in Nat

StaticsOff(ix) == \A iv \in Range(ix.statics) : OffStacks(iv)

LocalIv(ix, f, li) ==
    LET iv == ix.dynamics[f][li]
    IN /\ iv.lo \in Nat /\ iv.hi \in Nat /\ iv.lo < iv.hi
       /\ ix.lo <= iv.lo /\ iv.hi <= ix.hi
       /\ iv.nid = LocalNode(f, li)

DynamicsShaped(ix) ==
    \A f \in DOMAIN ix.dynamics :
        /\ f \in Nat /\ DOMAIN ix.dynamics[f] \subseteq Nat
        /\ \A li \in DOMAIN ix.dynamics[f] : LocalIv(ix, f, li)

Entries == [tier : {"static", "dynamic"}, lo : Nat, hi : Nat, fid : Nat, idx : Nat]
Stands(ix, e) == \E iv \in Resolved(ix, e) : iv.lo = e.lo /\ iv.hi = e.hi
StandIns(ix) == {e \in Entries : Stands(ix, e)}
MruSound(ix) == ix.mru \in Seq(StandIns(ix))

WellFormed(ix) == Shaped(ix) /\ StaticsOff(ix) /\ DynamicsShaped(ix) /\ MruSound(ix)

AllIvs(ix) ==
    Range(ix.statics) \cup UNION {Range(ix.dynamics[f]) : f \in DOMAIN ix.dynamics}

LEMMA StandInsSame ==
    ASSUME NEW ix, NEW jx, ix.statics = jx.statics, ix.dynamics = jx.dynamics
    PROVE  StandIns(ix) = StandIns(jx)
<1>1. \A e : Resolved(ix, e) = Resolved(jx, e)
  BY Zenon DEF Resolved
<1>2. ASSUME NEW e PROVE Stands(ix, e) <=> Stands(jx, e)
  BY <1>1 DEF Stands
<1> HIDE DEF Stands
<1> QED
  BY <1>2 DEF StandIns

LEMMA ResolvedOne ==
    ASSUME NEW ix, NEW e, NEW v \in Resolved(ix, e)
    PROVE  /\ v \in AllIvs(ix)
           /\ \A w \in Resolved(ix, e) : w = v
<1>1. CASE e.tier = "static" /\ e.idx \in DOMAIN ix.statics
  <2>1. Resolved(ix, e) = {ix.statics[e.idx]}
    BY <1>1 DEF Resolved
  <2> QED
    BY <1>1, <2>1 DEF AllIvs, Range
<1>2. CASE e.tier = "dynamic" /\ e.fid \in DOMAIN ix.dynamics
  <2>1. Resolved(ix, e) = {ix.dynamics[e.fid][i] : i \in {e.idx} \cap DOMAIN ix.dynamics[e.fid]}
    BY <1>2 DEF Resolved
  <2>2. v = ix.dynamics[e.fid][e.idx] /\ e.idx \in DOMAIN ix.dynamics[e.fid]
    BY <2>1
  <2>3. v \in Range(ix.dynamics[e.fid])
    BY <2>2 DEF Range
  <2> QED
    BY <1>2, <2>1, <2>2, <2>3 DEF AllIvs
<1>3. CASE /\ ~(e.tier = "static" /\ e.idx \in DOMAIN ix.statics)
           /\ ~(e.tier = "dynamic" /\ e.fid \in DOMAIN ix.dynamics)
  <2>1. Resolved(ix, e) = {}
    BY <1>3 DEF Resolved
  <2> QED
    BY <2>1
<1> QED
  BY <1>1, <1>2, <1>3

(* The MRU cache keeps to a set of entries.                                *)
LEMMA PushMruType ==
    ASSUME NEW S, NEW mru \in Seq(S), NEW e \in S
    PROVE  PushMru(mru, e) \in Seq(S)
<1> DEFINE n == Min({MruSlots, Len(mru) + 1})
           s == <<e>> \o mru
<1>1. Len(mru) \in Nat /\ MruSlots \in Nat /\ Len(mru) + 1 \in Nat
  BY FramesAssumption
<1>2. n \in Nat /\ n <= Len(mru) + 1
  <2>1. n = IF MruSlots <= Len(mru) + 1 THEN MruSlots ELSE Len(mru) + 1
    BY <1>1, MinTwo
  <2> QED
    BY <1>1, <2>1
<1>3. s \in Seq(S) /\ Len(s) = Len(mru) + 1
  <2>1. <<e>> \in Seq(S) /\ Len(<<e>>) = 1
    OBVIOUS
  <2> DEFINE x == <<e>>
  <2> HIDE DEF x
  <2>2. x \o mru \in Seq(S) /\ Len(x \o mru) = Len(x) + Len(mru)
    BY <2>1, ConcatProperties DEF x
  <2> QED
    BY <1>1, <2>1, <2>2 DEF x
<1> HIDE DEF n, s
<1>4. n \in Int /\ 1 \in Int /\ \A i \in 1..n : s[i] \in S
  BY <1>1, <1>2, <1>3, ElementOfSeq
<1>5. SubSeq(s, 1, n) \in Seq(S)
  BY <1>3, <1>4, SubSeqProperties
<1> QED
  BY <1>5 DEF PushMru, n, s

LEMMA ToFrontType ==
    ASSUME NEW S, NEW mru \in Seq(S), NEW s \in DOMAIN mru
    PROVE  ToFront(mru, s) \in Seq(S)
<1> DEFINE n == Len(mru)
           x == <<mru[s]>>
           y == SubSeq(mru, 1, s - 1)
           z == SubSeq(mru, s + 1, n)
<1>1. n \in Nat /\ s \in 1..n /\ \A i \in 1..n : mru[i] \in S
  BY ElementOfSeq
<1>2. x \in Seq(S)
  BY <1>1
<1>3. y \in Seq(S)
  <2>1. s - 1 \in Int /\ 1 \in Int /\ \A i \in 1..(s - 1) : mru[i] \in S
    BY <1>1
  <2> QED
    BY <2>1, SubSeqProperties
<1>4. z \in Seq(S)
  <2>1. s + 1 \in Int /\ n \in Int /\ \A i \in (s + 1)..n : mru[i] \in S
    BY <1>1
  <2> QED
    BY <2>1, SubSeqProperties
<1>5. ToFront(mru, s) = (x \o y) \o z
  BY DEF ToFront
<1> HIDE DEF x, y, z
<1>6. x \o y \in Seq(S)
  BY <1>2, <1>3, ConcatProperties
<1> DEFINE w == x \o y
<1> HIDE DEF w
<1>7. w \o z \in Seq(S)
  <2>1. w \in Seq(S)
    BY <1>6 DEF w
  <2> QED
    BY <1>4, <2>1, ConcatProperties
<1> QED
  BY <1>5, <1>7 DEF w

(* What a lookup may return, and that it changes the MRU cache alone.      *)
Result(ix, a, r) ==
    /\ r.ix = [ix EXCEPT !.mru = r.ix.mru]
    /\ r.ix.mru \in Seq(StandIns(ix))
    /\ \A v \in r.var : v \in AllIvs(ix) /\ Covers(v, a)

LEMMA NothingResult ==
    ASSUME NEW ix, NEW a, WellFormed(ix)
    PROVE  Result(ix, a, Nothing(ix))
BY DEF Result, Nothing, WellFormed, MruSound, Shaped

LEMMA FoundResult ==
    ASSUME NEW ix, NEW a, NEW iv, NEW e \in StandIns(ix),
           WellFormed(ix), iv \in AllIvs(ix), Covers(iv, a)
    PROVE  Result(ix, a, Found(ix, iv, e))
<1>1. PushMru(ix.mru, e) \in Seq(StandIns(ix))
  BY PushMruType DEF WellFormed, MruSound
<1>2. Found(ix, iv, e) = [var |-> {iv}, ix |-> [ix EXCEPT !.mru = PushMru(ix.mru, e)]]
  BY DEF Found
<1>3. Found(ix, iv, e).var = {iv} /\ Found(ix, iv, e).ix = [ix EXCEPT !.mru = PushMru(ix.mru, e)]
      /\ Found(ix, iv, e).ix.mru = PushMru(ix.mru, e)
  BY <1>2 DEF WellFormed, Shaped
<1> QED
  BY <1>1, <1>3 DEF Result

LEMMA MruResult ==
    ASSUME NEW ix, NEW a, WellFormed(ix), MruHits(ix, a) # {}
    PROVE  /\ Result(ix, a, FromMru(ix, Min(MruHits(ix, a))))
           /\ FromMru(ix, Min(MruHits(ix, a))).var # {}
<1> DEFINE s == Min(MruHits(ix, a))
           e == ix.mru[s]
           r == FromMru(ix, s)
<1>1. ix.mru \in Seq(StandIns(ix)) /\ DOMAIN ix.mru = 1..Len(ix.mru) /\ Len(ix.mru) \in Nat
  BY LenProperties DEF WellFormed, MruSound
<1>2. s \in MruHits(ix, a)
  <2>1. MruHits(ix, a) \subseteq Nat
    BY <1>1 DEF MruHits
  <2> QED
    BY <2>1, MinSpec
<1> HIDE DEF s
<1>3. s \in DOMAIN ix.mru /\ Covers(e, a)
  BY <1>2 DEF MruHits
<1>4. e \in StandIns(ix)
  BY <1>1, <1>3, ElementOfSeq
<1>5. ToFront(ix.mru, s) \in Seq(StandIns(ix))
  BY <1>1, <1>3, ToFrontType
<1>6. r = [var |-> Resolved(ix, e), ix |-> [ix EXCEPT !.mru = ToFront(ix.mru, s)]]
  BY DEF FromMru
<1>7. r.var = Resolved(ix, e) /\ r.ix = [ix EXCEPT !.mru = ToFront(ix.mru, s)] /\ r.ix.mru = ToFront(ix.mru, s)
  BY <1>6 DEF WellFormed, Shaped
<1> HIDE DEF r, e
<1>8. PICK iv \in Resolved(ix, e) : iv.lo = e.lo /\ iv.hi = e.hi
  BY <1>4 DEF StandIns, Stands
<1>9. ASSUME NEW v \in Resolved(ix, e) PROVE v \in AllIvs(ix) /\ Covers(v, a)
  <2>1. v \in AllIvs(ix) /\ iv = v
    BY <1>8, <1>9, ResolvedOne
  <2> QED
    BY <1>3, <1>8, <2>1 DEF Covers
<1>10. Result(ix, a, r)
  BY <1>5, <1>7, <1>9 DEF Result
<1>11. r.var # {}
  BY <1>7, <1>8
<1> QED
  BY <1>10, <1>11 DEF r, s

(* The intervals of the frames that cover an address.                      *)
Places(ix, a) ==
    {h \in UNION {{f} \X DOMAIN ix.dynamics[f] : f \in DOMAIN ix.dynamics} :
        Covers(ix.dynamics[h[1]][h[2]], a)}

LEMMA DynamicHit ==
    ASSUME NEW ix, NEW a, NEW h \in Places(ix, a)
    PROVE  /\ h[1] \in DOMAIN ix.dynamics /\ h[2] \in DOMAIN ix.dynamics[h[1]]
           /\ Covers(ix.dynamics[h[1]][h[2]], a)
           /\ ix.dynamics[h[1]][h[2]] \in AllIvs(ix)
<1>1. /\ h \in UNION {{f} \X DOMAIN ix.dynamics[f] : f \in DOMAIN ix.dynamics}
      /\ Covers(ix.dynamics[h[1]][h[2]], a)
  BY DEF Places
<1>2. PICK f \in DOMAIN ix.dynamics : h \in {f} \X DOMAIN ix.dynamics[f]
  BY <1>1
<1>3. h[1] = f /\ h[2] \in DOMAIN ix.dynamics[f]
  BY <1>2
<1>4. ix.dynamics[h[1]][h[2]] \in Range(ix.dynamics[h[1]])
  BY <1>3 DEF Range
<1> QED
  BY <1>1, <1>3, <1>4 DEF AllIvs

LEMMA FrameResult ==
    ASSUME NEW ix, NEW a, NEW h \in DynamicHits(ix, a), WellFormed(ix)
    PROVE  Result(ix, a, FromFrame(ix, h))
<1> DEFINE iv == ix.dynamics[h[1]][h[2]]
           e == Entry("dynamic", iv, h[1], h[2])
<1>1. h \in Places(ix, a)
  BY DEF DynamicHits, Places
<1>2. h[1] \in DOMAIN ix.dynamics /\ h[2] \in DOMAIN ix.dynamics[h[1]] /\ Covers(iv, a) /\ iv \in AllIvs(ix)
  BY <1>1, DynamicHit
<1>3. h[1] \in Nat /\ h[2] \in Nat /\ iv.lo \in Nat /\ iv.hi \in Nat
  BY <1>2 DEF WellFormed, DynamicsShaped, LocalIv
<1>4. e = [tier |-> "dynamic", lo |-> iv.lo, hi |-> iv.hi, fid |-> h[1], idx |-> h[2]]
  BY DEF Entry
<1>5. FromFrame(ix, h) = Found(ix, iv, e)
  BY DEF FromFrame
<1> HIDE DEF iv, e
<1>6. e \in Entries
  BY <1>3, <1>4 DEF Entries
<1>7. e.tier = "dynamic" /\ e.fid = h[1] /\ e.idx = h[2] /\ e.lo = iv.lo /\ e.hi = iv.hi
  BY <1>4
<1>8. iv \in Resolved(ix, e)
  <2>1. Resolved(ix, e) = {ix.dynamics[e.fid][i] : i \in {e.idx} \cap DOMAIN ix.dynamics[e.fid]}
    BY <1>2, <1>7 DEF Resolved
  <2> QED
    BY <1>2, <1>7, <2>1 DEF iv
<1>9. e \in StandIns(ix)
  BY <1>6, <1>7, <1>8 DEF StandIns, Stands
<1> QED
  BY <1>2, <1>5, <1>9, FoundResult

LEMMA StaticsResult ==
    ASSUME NEW ix, NEW a, NEW i \in StaticHits(ix, a), WellFormed(ix)
    PROVE  Result(ix, a, FromStatics(ix, i))
<1> DEFINE iv == ix.statics[i]
           e == Entry("static", iv, 0, i)
<1>1. i \in DOMAIN ix.statics /\ Covers(iv, a)
  BY DEF StaticHits
<1>2. iv \in StaticIv /\ i \in Nat
  BY <1>1, ElementOfSeq DEF WellFormed, Shaped
<1>3. iv.lo \in Nat /\ iv.hi \in Nat /\ iv \in AllIvs(ix)
  BY <1>1, <1>2 DEF StaticIv, AllIvs, Range
<1>4. e = [tier |-> "static", lo |-> iv.lo, hi |-> iv.hi, fid |-> 0, idx |-> i]
  BY DEF Entry
<1>5. FromStatics(ix, i) = Found(ix, iv, e)
  BY DEF FromStatics
<1> HIDE DEF iv, e
<1>6. e \in Entries
  BY <1>2, <1>3, <1>4 DEF Entries
<1>7. e.tier = "static" /\ e.idx = i /\ e.lo = iv.lo /\ e.hi = iv.hi
  BY <1>4
<1>8. iv \in Resolved(ix, e)
  <2>1. Resolved(ix, e) = {ix.statics[e.idx]}
    BY <1>1, <1>7 DEF Resolved
  <2> QED
    BY <1>7, <2>1 DEF iv
<1>9. e \in StandIns(ix)
  BY <1>6, <1>7, <1>8 DEF StandIns, Stands
<1> QED
  BY <1>1, <1>3, <1>5, <1>9, FoundResult

LEMMA LookupResult ==
    ASSUME NEW ix, NEW a, WellFormed(ix), NEW r \in Lookup(ix, a)
    PROVE  Result(ix, a, r)
<1>1. CASE a < ix.lo \/ a >= ix.hi
  BY <1>1, NothingResult DEF Lookup
<1>2. CASE ~(a < ix.lo \/ a >= ix.hi) /\ MruHits(ix, a) # {}
  BY <1>2, MruResult DEF Lookup
<1>3. CASE ~(a < ix.lo \/ a >= ix.hi) /\ MruHits(ix, a) = {} /\ DynamicHits(ix, a) # {}
  <2>1. Lookup(ix, a) = {FromFrame(ix, h) : h \in DynamicHits(ix, a)}
    BY <1>3 DEF Lookup
  <2> QED
    BY <2>1, FrameResult
<1>4. CASE /\ ~(a < ix.lo \/ a >= ix.hi) /\ MruHits(ix, a) = {} /\ DynamicHits(ix, a) = {}
           /\ StaticHits(ix, a) # {}
  <2>1. Lookup(ix, a) = {FromStatics(ix, i) : i \in StaticHits(ix, a)}
    BY <1>4 DEF Lookup
  <2> QED
    BY <2>1, StaticsResult
<1>5. CASE /\ ~(a < ix.lo \/ a >= ix.hi) /\ MruHits(ix, a) = {} /\ DynamicHits(ix, a) = {}
           /\ StaticHits(ix, a) = {}
  BY <1>5, NothingResult DEF Lookup
<1> QED
  BY <1>1, <1>2, <1>3, <1>4, <1>5

LEMMA ResultWellFormed ==
    ASSUME NEW ix, NEW a, NEW r, WellFormed(ix), Result(ix, a, r)
    PROVE  /\ WellFormed(r.ix)
           /\ r.ix.statics = ix.statics /\ r.ix.dynamics = ix.dynamics
<1> DEFINE jx == r.ix
<1>1. jx = [ix EXCEPT !.mru = jx.mru] /\ jx.mru \in Seq(StandIns(ix))
  BY DEF Result
<1> HIDE DEF jx
<1>2. /\ jx = [statics |-> ix.statics, dynamics |-> ix.dynamics, mru |-> jx.mru, lo |-> ix.lo, hi |-> ix.hi]
      /\ jx.statics = ix.statics /\ jx.dynamics = ix.dynamics /\ jx.lo = ix.lo /\ jx.hi = ix.hi
  BY <1>1 DEF WellFormed, Shaped
<1>3. StandIns(jx) = StandIns(ix)
  BY <1>2, StandInsSame
<1>4. Shaped(jx)
  BY <1>2 DEF WellFormed, Shaped
<1>5. StaticsOff(jx) /\ DynamicsShaped(jx)
  BY <1>2 DEF WellFormed, StaticsOff, DynamicsShaped, LocalIv
<1>6. MruSound(jx)
  BY <1>1, <1>3 DEF MruSound
<1> QED
  BY <1>2, <1>4, <1>5, <1>6 DEF WellFormed, jx

(* Of the intervals of frames that cover an address one is chosen.         *)
LEMMA DynamicChosen ==
    ASSUME NEW ix, NEW a, DynamicsShaped(ix), Places(ix, a) # {}
    PROVE  DynamicHits(ix, a) # {}
<1> DEFINE P == Places(ix, a)
           span(h) == Span(ix.dynamics[h[1]][h[2]])
           W == {span(h) : h \in P}
<1>1. \A h \in P : span(h) \in Nat /\ h[2] \in Nat
  <2> TAKE h \in P
  <2>1. h[1] \in DOMAIN ix.dynamics /\ h[2] \in DOMAIN ix.dynamics[h[1]]
    BY DynamicHit
  <2>2. LocalIv(ix, h[1], h[2]) /\ h[2] \in Nat
    BY <2>1 DEF DynamicsShaped
  <2> QED
    BY <2>2 DEF LocalIv, Span
<1>2. DynamicHits(ix, a) = {h \in P : \A k \in P : \/ span(h) < span(k)
                                                   \/ span(h) = span(k) /\ (k[1] = h[1] => h[2] <= k[2])}
  BY DEF DynamicHits, Places
<1> HIDE DEF P, span
<1>3. PICK m \in W : \A n \in W : m <= n
  <2>1. W \subseteq Nat /\ W # {}
    BY <1>1 DEF P
  <2> HIDE DEF W
  <2> QED
    BY <2>1, LeastElement
<1>4. PICK g \in P : span(g) = m
  BY <1>3
<1>5. \A k \in P : m <= span(k)
  BY <1>3
<1> HIDE DEF W
<1> DEFINE I == {i \in Nat : \E k \in P : k[1] = g[1] /\ span(k) = m /\ k[2] = i}
<1>6. PICK i \in I : \A j \in I : i <= j
  <2>1. g[2] \in I
    BY <1>1, <1>4
  <2>2. I \subseteq Nat /\ I # {}
    BY <2>1
  <2> HIDE DEF I
  <2> QED
    BY <2>2, LeastElement
<1>7. PICK h \in P : h[1] = g[1] /\ span(h) = m /\ h[2] = i
  BY <1>6
<1>8. ASSUME NEW k \in P
      PROVE  span(h) < span(k) \/ (span(h) = span(k) /\ (k[1] = h[1] => h[2] <= k[2]))
  <2>1. m <= span(k) /\ m \in Nat /\ span(k) \in Nat
    BY <1>1, <1>4, <1>5
  <2>2. ASSUME span(k) = m, k[1] = h[1] PROVE h[2] <= k[2]
    <3>1. k[2] \in I
      BY <1>1, <1>7, <2>2
    <3> QED
      BY <1>6, <1>7, <3>1
  <2>3. CASE span(k) = m
    BY <1>7, <2>2, <2>3
  <2>4. CASE span(k) # m
    BY <1>7, <2>1, <2>4
  <2> QED
    BY <2>3, <2>4
<1> QED
  BY <1>2, <1>7, <1>8

(* A lookup in a live local finds something.                               *)
LEMMA LookupFinds ==
    ASSUME NEW ix, NEW a \in Nat, WellFormed(ix), NEW r \in Lookup(ix, a),
           NEW f \in DOMAIN ix.dynamics, NEW li \in DOMAIN ix.dynamics[f],
           Covers(ix.dynamics[f][li], a)
    PROVE  r.var # {}
<1>1. ~(a < ix.lo \/ a >= ix.hi)
  <2>1. LocalIv(ix, f, li) /\ ix.lo \in Nat /\ ix.hi \in Nat
    BY DEF WellFormed, DynamicsShaped, Shaped
  <2> QED
    BY <2>1 DEF LocalIv, Covers
<1>2. CASE MruHits(ix, a) # {}
  BY <1>1, <1>2, MruResult DEF Lookup
<1>3. CASE MruHits(ix, a) = {}
  <2>1. <<f, li>> \in Places(ix, a)
    BY DEF Places
  <2>2. DynamicHits(ix, a) # {}
    BY <2>1, DynamicChosen DEF WellFormed
  <2>3. Lookup(ix, a) = {FromFrame(ix, h) : h \in DynamicHits(ix, a)}
    BY <1>1, <1>3, <2>2 DEF Lookup
  <2>4. PICK h \in DynamicHits(ix, a) : r = FromFrame(ix, h)
    BY <2>3
  <2>5. FromFrame(ix, h).var = {ix.dynamics[h[1]][h[2]]}
    BY DEF FromFrame, Found
  <2> QED
    BY <2>4, <2>5
<1> QED
  BY <1>2, <1>3

(* The bounds of the index grow to hold what is inserted.                  *)
Finite(ivs) ==
    /\ IsFiniteSet(DOMAIN ivs)
    /\ \A x \in DOMAIN ivs : ivs[x].lo \in Nat /\ ivs[x].hi \in Nat

Widened(ix, ivs, w) ==
    /\ w = [statics |-> ix.statics, dynamics |-> ix.dynamics, mru |-> ix.mru, lo |-> w.lo, hi |-> w.hi]
    /\ w.statics = ix.statics /\ w.dynamics = ix.dynamics
    /\ w.lo \in Nat /\ w.hi \in Nat /\ w.lo <= ix.lo /\ ix.hi <= w.hi
    /\ \A x \in DOMAIN ivs : w.lo <= ivs[x].lo /\ ivs[x].hi <= w.hi

LEMMA WidenSpec ==
    ASSUME NEW ix, NEW ivs, Shaped(ix), Finite(ivs)
    PROVE  Widened(ix, ivs, Widen(ix, ivs))
<1> DEFINE L == {ix.lo} \cup {iv.lo : iv \in Range(ivs)}
           H == {ix.hi} \cup {iv.hi : iv \in Range(ivs)}
           w == Widen(ix, ivs)
<1>1. L \subseteq Nat /\ H \subseteq Nat /\ ix.lo \in L /\ ix.hi \in H
  BY DEF Shaped, Finite, Range
<1>2. \A x \in DOMAIN ivs : ivs[x].lo \in L /\ ivs[x].hi \in H
  BY DEF Range
<1>3. IsFiniteSet(H)
  <2> DEFINE I == {ivs[x].hi : x \in DOMAIN ivs}
             f == [x \in DOMAIN ivs |-> ivs[x].hi]
  <2>1. f \in Surjection(DOMAIN ivs, I)
    BY DEF Surjection
  <2>2. IsFiniteSet(DOMAIN ivs)
    BY DEF Finite
  <2>3. H = I \cup {ix.hi}
    BY DEF Range
  <2> HIDE DEF f, I, H
  <2>4. IsFiniteSet(I)
    BY <2>1, <2>2, FS_Surjection
  <2> QED
    BY <2>3, <2>4, FS_AddElement
<1>4. w = [ix EXCEPT !.lo = Min(L), !.hi = Max(H)]
  BY DEF Widen
<1> HIDE DEF L, H, w
<1>5. Min(L) \in Nat /\ \A x \in L : Min(L) <= x
  BY <1>1, MinSpec
<1>6. Max(H) \in Nat /\ \A x \in H : x <= Max(H)
  BY <1>1, <1>3, MaxSpec
<1>7. /\ w = [statics |-> ix.statics, dynamics |-> ix.dynamics, mru |-> ix.mru, lo |-> Min(L), hi |-> Max(H)]
      /\ w.lo = Min(L) /\ w.hi = Max(H) /\ w.statics = ix.statics /\ w.dynamics = ix.dynamics
  BY <1>4 DEF Shaped
<1> QED
  BY <1>1, <1>2, <1>5, <1>6, <1>7 DEF Widened, w

LEMMA SeqFinite ==
    ASSUME NEW ivs \in Seq(StaticIv)
    PROVE  Finite(ivs)
<1>1. DOMAIN ivs = 1..Len(ivs) /\ Len(ivs) \in Nat /\ \A i \in 1..Len(ivs) : ivs[i] \in StaticIv
  BY ElementOfSeq
<1>2. IsFiniteSet(1..Len(ivs))
  BY <1>1, FS_Interval
<1> QED
  BY <1>1, <1>2 DEF Finite, StaticIv

(* Populating the index with the globals of a module.                      *)
Populated(ix, gs, base, p) ==
    /\ WellFormed(p) /\ p.dynamics = ix.dynamics
    /\ \A iv \in Range(p.statics) : iv \in Range(ix.statics) \cup Range(Intervals(gs, base))

LEMMA PopulateSpec ==
    ASSUME NEW ix, NEW gs \in Seq(GlobalVar), NEW base \in Nat,
           WellFormed(ix), \A iv \in Range(Intervals(gs, base)) : OffStacks(iv)
    PROVE  Populated(ix, gs, base, Populate(ix, gs, base))
<1> SUFFICES ASSUME Intervals(gs, base) # <<>>
             PROVE  Populated(ix, gs, base, Populate(ix, gs, base))
  <2>1. CASE Intervals(gs, base) = <<>>
    <3>1. Populate(ix, gs, base) = ix
      BY <2>1 DEF Populate
    <3> QED
      BY <3>1 DEF Populated
  <2> QED
    BY <2>1
<1>0. Shaped(ix) /\ StaticsOff(ix) /\ DynamicsShaped(ix)
  BY DEF WellFormed
<1> DEFINE new == Intervals(gs, base)
           all == ix.statics \o new
           w == Widen(ix, new)
           p == Populate(ix, gs, base)
<1>1. new \in Seq(StaticIv)
  BY IntervalsType
<1>2. Widened(ix, new, w)
  <2> HIDE DEF new
  <2> QED
    BY <1>0, <1>1, SeqFinite, WidenSpec
<1>3. p = [w EXCEPT !.statics = Finalize(all), !.mru = <<>>]
  BY DEF Populate
<1> HIDE DEF p, w, new
<1>4. all \in Seq(StaticIv) /\ Range(all) = Range(ix.statics) \cup Range(new)
  <2>1. ix.statics \in Seq(StaticIv)
    BY <1>0 DEF Shaped
  <2> DEFINE s == ix.statics
  <2>3. s \in Seq(StaticIv)
    BY <2>1
  <2> HIDE DEF s
  <2>2. s \o new \in Seq(StaticIv) /\ Range(s \o new) = Range(s) \cup Range(new)
    BY <1>1, <2>3, ConcatProperties, RangeConcatenation
  <2> QED
    BY <2>2 DEF s
<1> HIDE DEF all
<1>5. Finalize(all) \in Seq(StaticIv) /\ Range(Finalize(all)) \subseteq Range(all)
  BY <1>4, FinalizeSpec
<1>6. /\ p = [statics |-> Finalize(all), dynamics |-> ix.dynamics, mru |-> <<>>, lo |-> w.lo, hi |-> w.hi]
      /\ p.statics = Finalize(all) /\ p.dynamics = ix.dynamics /\ p.mru = <<>>
      /\ p.lo = w.lo /\ p.hi = w.hi
  <2>1. w = [statics |-> ix.statics, dynamics |-> ix.dynamics, mru |-> ix.mru, lo |-> w.lo, hi |-> w.hi]
    BY <1>2 DEF Widened
  <2> DEFINE F == Finalize(all)
             d == ix.dynamics
             l == w.lo
             h == w.hi
  <2>3. w = [statics |-> ix.statics, dynamics |-> d, mru |-> ix.mru, lo |-> l, hi |-> h]
    BY <2>1
  <2>4. p = [w EXCEPT !.statics = F, !.mru = <<>>]
    BY <1>3
  <2> HIDE DEF F, d, l, h
  <2>5. p = [statics |-> F, dynamics |-> d, mru |-> <<>>, lo |-> l, hi |-> h]
    BY <2>3, <2>4
  <2>2. p = [statics |-> Finalize(all), dynamics |-> ix.dynamics, mru |-> <<>>, lo |-> w.lo, hi |-> w.hi]
    BY <2>5 DEF F, d, l, h
  <2> QED
    BY <2>2
<1>7. Shaped(p)
  BY <1>0, <1>2, <1>5, <1>6 DEF Shaped, Widened
<1>8. StaticsOff(p)
  BY <1>0, <1>4, <1>5, <1>6 DEF StaticsOff, new
<1>9. DynamicsShaped(p)
  <2> SUFFICES ASSUME NEW f \in DOMAIN ix.dynamics, NEW li \in DOMAIN ix.dynamics[f] PROVE LocalIv(p, f, li)
    BY <1>0, <1>6 DEF DynamicsShaped
  <2>1. LocalIv(ix, f, li)
    BY <1>0 DEF DynamicsShaped
  <2>2. w.lo <= ix.lo /\ ix.hi <= w.hi /\ w.lo \in Nat /\ w.hi \in Nat /\ ix.lo \in Nat /\ ix.hi \in Nat
    BY <1>0, <1>2 DEF Widened, Shaped
  <2> QED
    BY <1>6, <2>1, <2>2 DEF LocalIv
<1>10. MruSound(p)
  BY <1>6, EmptySeq DEF MruSound
<1>11. \A iv \in Range(p.statics) : iv \in Range(ix.statics) \cup Range(new)
  BY <1>4, <1>5, <1>6
<1> QED
  BY <1>6, <1>7, <1>8, <1>9, <1>10, <1>11 DEF Populated, WellFormed, p, new

LEMMA NewIndexSpec == WellFormed(NewIndex)
<1>1. NewIndex = [statics |-> <<>>, dynamics |-> <<>>, mru |-> <<>>, lo |-> MaxAddr, hi |-> 0]
  BY DEF NewIndex
<1>2. /\ NewIndex.statics = <<>> /\ NewIndex.dynamics = <<>> /\ NewIndex.mru = <<>>
      /\ NewIndex.lo = 999 /\ NewIndex.hi = 0
  BY <1>1 DEF MaxAddr
<1>3. DOMAIN <<>> = {}
  OBVIOUS
<1> QED
  BY <1>1, <1>2, <1>3, EmptySeq DEF WellFormed, Shaped, StaticsOff, DynamicsShaped, MruSound, Range

(* The locals of a frame.                                                  *)
LEMMA FrameIntervalsSpec ==
    ASSUME NEW fid, NEW base \in Nat, NEW fn \in DOMAIN Funcs,
           NEW li \in DOMAIN FrameIntervals(fid, base, Funcs[fn].locals)
    PROVE  LET iv == FrameIntervals(fid, base, Funcs[fn].locals)[li]
           IN /\ li \in DOMAIN Funcs[fn].locals /\ li \in Nat
              /\ iv.lo \in Nat /\ iv.hi \in Nat /\ iv.lo < iv.hi
              /\ base <= iv.lo /\ iv.hi <= base + FrameSize
              /\ iv.nid = LocalNode(fid, li)
<1> DEFINE ls == Funcs[fn].locals
           iv == FrameIntervals(fid, base, ls)[li]
           o == ls[li].off
           z == ls[li].size
<1>1. li \in DOMAIN ls /\ z > 0
  BY DEF FrameIntervals
<1>2. li \in Nat /\ ls[li] \in [off : Nat, size : Nat, ptr : BOOLEAN]
  <2>1. ls \in Seq([off : Nat, size : Nat, ptr : BOOLEAN])
    BY LocalsAssumption
  <2> HIDE DEF ls
  <2> DEFINE S == [off : Nat, size : Nat, ptr : BOOLEAN]
  <2>2. DOMAIN ls = 1..Len(ls) /\ Len(ls) \in Nat
    BY <2>1, LenProperties
  <2>3. li \in 1..Len(ls) /\ ls \in Seq(S)
    BY <1>1, <2>1, <2>2
  <2> HIDE DEF S
  <2>4. ls[li] \in S
    BY <2>3, ElementOfSeq
  <2>5. li \in Nat
    BY <2>2, <2>3
  <2> QED
    BY <2>4, <2>5 DEF S
<1>3. o \in Nat /\ z \in Nat /\ o + z <= FrameSize /\ FrameSize \in Nat
  BY <1>1, <1>2, LocalsAssumption, FramesAssumption
<1>4. iv = [lo |-> base + o, hi |-> base + o + z, nid |-> LocalNode(fid, li), ptr |-> ls[li].ptr]
  BY DEF FrameIntervals
<1> HIDE DEF o, z
<1>5. base + o \in Nat /\ base + o + z \in Nat /\ base + o < base + o + z
      /\ base <= base + o /\ base + o + z <= base + FrameSize
  BY <1>1, <1>3
<1>6. iv.lo = base + o /\ iv.hi = base + o + z /\ iv.nid = LocalNode(fid, li)
  BY <1>4
<1> HIDE DEF iv
<1> QED
  BY <1>1, <1>2, <1>5, <1>6 DEF iv

LEMMA FrameFinite ==
    ASSUME NEW fid, NEW base \in Nat, NEW fn \in DOMAIN Funcs
    PROVE  Finite(FrameIntervals(fid, base, Funcs[fn].locals))
<1> DEFINE ls == Funcs[fn].locals
           ivs == FrameIntervals(fid, base, ls)
<1>1. DOMAIN ls = 1..Len(ls) /\ Len(ls) \in Nat
  <2>1. ls \in Seq([off : Nat, size : Nat, ptr : BOOLEAN])
    BY LocalsAssumption
  <2> HIDE DEF ls
  <2> QED
    BY <2>1, LenProperties
<1>2. IsFiniteSet(DOMAIN ls)
  BY <1>1, FS_Interval
<1>3. DOMAIN ivs \in SUBSET DOMAIN ls
  BY DEF FrameIntervals
<1>4. IsFiniteSet(DOMAIN ivs)
  BY <1>2, <1>3, FS_Subset
<1>5. \A li \in DOMAIN ivs : ivs[li].lo \in Nat /\ ivs[li].hi \in Nat
  BY FrameIntervalsSpec
<1> QED
  BY <1>4, <1>5 DEF Finite

(* A frame enters the index with its locals, in its part of the stack.     *)
Inserted(ix, fid, base, fn, j) ==
    /\ WellFormed(j) /\ j.statics = ix.statics
    /\ \A f \in DOMAIN j.dynamics : f # fid => f \in DOMAIN ix.dynamics /\ j.dynamics[f] = ix.dynamics[f]
    /\ fid \in DOMAIN j.dynamics => \A li \in DOMAIN j.dynamics[fid] :
           /\ li \in DOMAIN Funcs[fn].locals
           /\ base <= j.dynamics[fid][li].lo /\ j.dynamics[fid][li].hi <= base + FrameSize

LEMMA InsertSpec ==
    ASSUME NEW ix, NEW fid \in Nat, NEW base \in Nat, NEW fn \in DOMAIN Funcs,
           WellFormed(ix), fid \notin DOMAIN ix.dynamics
    PROVE  Inserted(ix, fid, base, fn, InsertFrame(ix, fid, base, fn))
<1> DEFINE ls == Funcs[fn].locals
           ivs == FrameIntervals(fid, base, ls)
           w == Widen(ix, ivs)
           d == IF DOMAIN ivs = {} THEN ix.dynamics
                ELSE [f \in DOMAIN ix.dynamics \cup {fid} |-> IF f = fid THEN ivs ELSE ix.dynamics[f]]
           j == InsertFrame(ix, fid, base, fn)
<1>1. CASE ls = <<>>
  <2>1. j = ix
    BY <1>1 DEF InsertFrame
  <2> QED
    BY <2>1 DEF Inserted
<1>2. CASE ls # <<>>
  <2>1. Finite(ivs) /\ \A li \in DOMAIN ivs :
            /\ li \in DOMAIN ls /\ li \in Nat
            /\ ivs[li].lo \in Nat /\ ivs[li].hi \in Nat /\ ivs[li].lo < ivs[li].hi
            /\ base <= ivs[li].lo /\ ivs[li].hi <= base + FrameSize
            /\ ivs[li].nid = LocalNode(fid, li)
    BY FrameFinite, FrameIntervalsSpec
  <2>2. j = [w EXCEPT !.mru = <<>>, !.dynamics = IF DOMAIN ivs = {} THEN w.dynamics
                 ELSE [f \in DOMAIN w.dynamics \cup {fid} |-> IF f = fid THEN ivs ELSE w.dynamics[f]]]
    BY <1>2 DEF InsertFrame
  <2> HIDE DEF ivs, j
  <2>3. Widened(ix, ivs, w)
    BY <2>1, WidenSpec DEF WellFormed
  <2> HIDE DEF w
  <2>4. w.dynamics = ix.dynamics /\ w = [statics |-> ix.statics, dynamics |-> ix.dynamics, mru |-> ix.mru, lo |-> w.lo, hi |-> w.hi]
    BY <2>3 DEF Widened
  <2>5. j = [w EXCEPT !.mru = <<>>, !.dynamics = d]
    BY <2>2, <2>4
  <2> HIDE DEF d
  <2>6. /\ j = [statics |-> ix.statics, dynamics |-> d, mru |-> <<>>, lo |-> w.lo, hi |-> w.hi]
        /\ j.statics = ix.statics /\ j.dynamics = d /\ j.mru = <<>> /\ j.lo = w.lo /\ j.hi = w.hi
    <3> DEFINE l == w.lo
               h == w.hi
               s == ix.statics
    <3>1. w = [statics |-> s, dynamics |-> ix.dynamics, mru |-> ix.mru, lo |-> l, hi |-> h]
      BY <2>4
    <3> HIDE DEF l, h, s
    <3>2. j = [statics |-> s, dynamics |-> d, mru |-> <<>>, lo |-> l, hi |-> h]
      BY <2>5, <3>1
    <3>3. j.statics = s /\ j.dynamics = d /\ j.mru = <<>> /\ j.lo = l /\ j.hi = h
      BY <3>2
    <3> QED
      BY <3>2, <3>3 DEF l, h, s
  <2>7. /\ \A f \in DOMAIN d : f = fid \/ (f \in DOMAIN ix.dynamics /\ d[f] = ix.dynamics[f])
        /\ fid \in DOMAIN d => d[fid] = ivs
    BY DEF d
  <2>8. w.lo \in Nat /\ w.hi \in Nat /\ w.lo <= ix.lo /\ ix.hi <= w.hi /\ ix.lo \in Nat /\ ix.hi \in Nat
    BY <2>3 DEF Widened, WellFormed, Shaped
  <2>9. \A li \in DOMAIN ivs : w.lo <= ivs[li].lo /\ ivs[li].hi <= w.hi
    BY <2>3 DEF Widened
  <2>10. Shaped(j)
    BY <2>6, <2>8 DEF WellFormed, Shaped
  <2>11. StaticsOff(j)
    BY <2>6 DEF WellFormed, StaticsOff
  <2>12. DynamicsShaped(j)
    <3> SUFFICES ASSUME NEW f \in DOMAIN d
                 PROVE  f \in Nat /\ DOMAIN d[f] \subseteq Nat /\ \A li \in DOMAIN d[f] : LocalIv(j, f, li)
      BY <2>6 DEF DynamicsShaped
    <3>1. CASE f = fid
      <4>1. d[f] = ivs
        BY <2>7, <3>1
      <4>2. ASSUME NEW li \in DOMAIN ivs PROVE LocalIv(j, f, li)
        BY <2>1, <2>6, <2>9, <3>1, <4>1 DEF LocalIv
      <4> QED
        BY <2>1, <3>1, <4>1, <4>2
    <3>2. CASE f # fid
      <4>1. f \in DOMAIN ix.dynamics /\ d[f] = ix.dynamics[f]
        BY <2>7, <3>2
      <4>2. f \in Nat /\ DOMAIN d[f] \subseteq Nat /\ \A li \in DOMAIN d[f] : LocalIv(ix, f, li)
        BY <4>1 DEF WellFormed, DynamicsShaped
      <4>3. ASSUME NEW li \in DOMAIN d[f] PROVE LocalIv(j, f, li)
        <5>1. LocalIv(ix, f, li)
          BY <4>2
        <5> QED
          BY <2>6, <2>8, <4>1, <5>1 DEF LocalIv
      <4> QED
        BY <4>2, <4>3
    <3> QED
      BY <3>1, <3>2
  <2>13. MruSound(j)
    BY <2>6, EmptySeq DEF MruSound
  <2>14. \A f \in DOMAIN j.dynamics : f # fid => f \in DOMAIN ix.dynamics /\ j.dynamics[f] = ix.dynamics[f]
    BY <2>6, <2>7
  <2>15. fid \in DOMAIN j.dynamics => \A li \in DOMAIN j.dynamics[fid] :
           /\ li \in DOMAIN Funcs[fn].locals
           /\ base <= j.dynamics[fid][li].lo /\ j.dynamics[fid][li].hi <= base + FrameSize
    BY <2>1, <2>6, <2>7
  <2> QED
    BY <2>6, <2>10, <2>11, <2>12, <2>13, <2>14, <2>15 DEF Inserted, WellFormed, j
<1> QED
  BY <1>1, <1>2

LEMMA RemoveSpec ==
    ASSUME NEW ix, NEW fid, WellFormed(ix)
    PROVE  LET j == RemoveFrame(ix, fid)
           IN /\ WellFormed(j) /\ j.statics = ix.statics
              /\ DOMAIN j.dynamics = DOMAIN ix.dynamics \ {fid}
              /\ \A f \in DOMAIN j.dynamics : j.dynamics[f] = ix.dynamics[f]
<1> DEFINE j == RemoveFrame(ix, fid)
           d == [f \in DOMAIN ix.dynamics \ {fid} |-> ix.dynamics[f]]
<1>1. j = [ix EXCEPT !.dynamics = d, !.mru = <<>>]
  BY DEF RemoveFrame
<1>2. DOMAIN d = DOMAIN ix.dynamics \ {fid} /\ \A f \in DOMAIN d : d[f] = ix.dynamics[f]
  OBVIOUS
<1> HIDE DEF d, j
<1>3. /\ j = [statics |-> ix.statics, dynamics |-> d, mru |-> <<>>, lo |-> ix.lo, hi |-> ix.hi]
      /\ j.statics = ix.statics /\ j.dynamics = d /\ j.mru = <<>> /\ j.lo = ix.lo /\ j.hi = ix.hi
  BY <1>1 DEF WellFormed, Shaped
<1>4. Shaped(j) /\ StaticsOff(j) /\ MruSound(j)
  BY <1>3, EmptySeq DEF WellFormed, Shaped, StaticsOff, MruSound
<1>5. DynamicsShaped(j)
  BY <1>2, <1>3 DEF WellFormed, DynamicsShaped, LocalIv
<1> QED
  BY <1>2, <1>3, <1>4, <1>5 DEF WellFormed, j

-----------------------------------------------------------------------------
(* The invariant.                                                          *)

(* A frame is on one stack, once, or among the last that returned.         *)
FramesInv ==
    /\ nextFid \in Nat \ {0} /\ returned \in Seq(Nat \ {0}) /\ stacks \in [Threads -> Seq(Nat \ {0})]
    /\ \A t \in Threads : \A i \in DOMAIN stacks[t] : stacks[t][i] < nextFid
    /\ \A t, u \in Threads : \A i \in DOMAIN stacks[t], j \in DOMAIN stacks[u] :
           stacks[t][i] = stacks[u][j] => t = u /\ i = j
    /\ \A k \in DOMAIN returned : returned[k] < nextFid /\ returned[k] \notin OnStacks
    /\ Len(returned) <= Keep

IndexInv == WellFormed(index) /\ DOMAIN index.dynamics \subseteq OnStacks

(* Nodes, edges and index.                                                 *)
NodesInv ==
    /\ \A iv \in AllIvs(index) : iv.nid \in nodes
    /\ \A n \in nodes : IsLocal(n) => n[2] \in OnStacks \cup Range(returned)
    /\ \A n \in DOMAIN edges : n \in nodes /\ (edges[n].dangling \/ edges[n].target \in nodes)

(* The locals of a frame on a stack lie in that stack.                     *)
InRange(iv, a, n) == a <= iv.lo /\ iv.hi <= a + n

StackInv ==
    \A t \in Threads : \A f \in Range(stacks[t]) \cap DOMAIN index.dynamics :
        \A li \in DOMAIN index.dynamics[f] :
            InRange(index.dynamics[f][li], StackBase[t], FrameSize * MaxDepth)

(* A thread that is in step has the frames of its shadow stack on its      *)
(* stack, each with its locals in its own part.                            *)
InStep(t) ==
    /\ \A i \in DOMAIN real[t] : real[t][i] # 0 => real[t][i] \in Range(stacks[t])
    /\ \A f \in Range(stacks[t]) : \E i \in DOMAIN real[t] : real[t][i] = f
    /\ \A i, j \in DOMAIN real[t] : real[t][i] # 0 /\ real[t][i] = real[t][j] => i = j
    /\ \A i \in DOMAIN real[t] : real[t][i] \in DOMAIN index.dynamics =>
           \A li \in DOMAIN index.dynamics[real[t][i]] :
               InRange(index.dynamics[real[t][i]][li], StackBase[t] + FrameSize * (i - 1), FrameSize)

StepInv ==
    /\ real \in [Threads -> Seq(Nat)]
    /\ \A t \in Threads : Len(real[t]) <= MaxDepth
    /\ \A t \in Threads \ skewed : InStep(t)

FrameInv == FramesInv /\ IndexInv /\ NodesInv /\ StackInv /\ StepInv

(* Init. *)
LEMMA GlobalsSpec ==
    /\ Globals \in Seq(GlobalVar) /\ LibGlobals \in Seq(GlobalVar) /\ Len(Globals) \in Nat
    /\ \A iv \in Range(Intervals(Globals, 0)) : OffStacks(iv)
    /\ \A iv \in Range(Intervals(LibGlobals, Len(Globals))) : OffStacks(iv)
<1>1. Globals \in Seq(GlobalVar) /\ LibGlobals \in Seq(GlobalVar)
  BY FieldTypesAssumption DEF GlobalVar
<1>2. Len(Globals) \in Nat
  BY <1>1, LenProperties
<1> QED
  BY <1>1, <1>2, GlobalsAssumption DEF OffStacks

(* The nodes of globals are not of frames.                                 *)
LEMMA GlobalNodesSpec ==
    ASSUME NEW gs \in Seq(GlobalVar), NEW base \in Nat
    PROVE  /\ \A n \in GlobalNodes(gs, base) : ~IsLocal(n)
           /\ \A iv \in Range(Intervals(gs, base)) : iv.nid \in GlobalNodes(gs, base)
<1>1. Intervals(gs, base) \in Seq(StaticIv)
  BY IntervalsType
<1>2. \A iv \in Range(Intervals(gs, base)) : iv.nid \in StaticNids
  <2> DEFINE s == Intervals(gs, base)
  <2> HIDE DEF s
  <2>1. DOMAIN s = 1..Len(s) /\ \A i \in 1..Len(s) : s[i] \in StaticIv
    BY <1>1, ElementOfSeq DEF s
  <2>2. \A iv \in Range(s) : iv \in StaticIv
    BY <2>1 DEF Range
  <2> QED
    BY <2>2 DEF StaticIv, s
<1>3. \A n \in StaticNids : ~IsLocal(n)
  BY DEF StaticNids, IsLocal, GlobalNode, FieldNode
<1>4. \A i : ~IsLocal(GlobalNode(i))
  BY DEF IsLocal, GlobalNode
<1> QED
  BY <1>2, <1>3, <1>4 DEF GlobalNodes

(* The index that is built anew holds the globals of the executable.       *)
LEMMA NewGlobals ==
    LET p == Populate(NewIndex, Globals, 0)
    IN /\ WellFormed(p) /\ DOMAIN p.dynamics = {}
       /\ \A iv \in AllIvs(p) : iv.nid \in GlobalNodes(Globals, 0)
<1> DEFINE p == Populate(NewIndex, Globals, 0)
<1>1. Populated(NewIndex, Globals, 0, p)
  BY NewIndexSpec, GlobalsSpec, PopulateSpec
<1> HIDE DEF p
<1>2. NewIndex.statics = <<>> /\ NewIndex.dynamics = <<>> /\ DOMAIN <<>> = {} /\ Range(<<>>) = {}
  BY DEF NewIndex, Range
<1>3. WellFormed(p) /\ DOMAIN p.dynamics = {} /\ Range(p.statics) \subseteq Range(Intervals(Globals, 0))
  BY <1>1, <1>2 DEF Populated
<1>4. AllIvs(p) \subseteq Range(Intervals(Globals, 0))
  BY <1>3 DEF AllIvs
<1> QED
  BY <1>3, <1>4, GlobalsSpec, GlobalNodesSpec DEF p

LEMMA FramesInit == Init => FrameInv
<1> SUFFICES ASSUME Init PROVE FrameInv
  OBVIOUS
<1>1. \A t \in Threads : stacks[t] = <<>> /\ real[t] = <<>>
  BY DEF Init
<1>2. FramesInv
  BY <1>1, FramesAssumption, EmptySeq DEF Init, FramesInv
<1>3. WellFormed(index) /\ DOMAIN index.dynamics = {} /\ \A iv \in AllIvs(index) : iv.nid \in nodes
  BY NewGlobals DEF Init
<1>4. IndexInv
  BY <1>3 DEF IndexInv
<1>5. NodesInv
  <2>1. \A n \in nodes : ~IsLocal(n)
    BY GlobalsSpec, GlobalNodesSpec DEF Init
  <2> QED
    BY <1>3, <2>1 DEF NodesInv, Init
<1>6. StackInv
  BY <1>3 DEF StackInv
<1>7. StepInv
  <2>1. \A t \in Threads : Range(stacks[t]) = {} /\ DOMAIN real[t] = {} /\ Len(real[t]) = 0
    BY <1>1 DEF Range
  <2>2. \A t \in Threads : InStep(t)
    BY <2>1 DEF InStep
  <2>3. real \in [Threads -> Seq(Nat)]
    BY EmptySeq DEF Init
  <2> QED
    BY <2>1, <2>2, <2>3, FramesAssumption DEF StepInv
<1> QED
  BY <1>2, <1>4, <1>5, <1>6, <1>7 DEF FrameInv

-----------------------------------------------------------------------------
(* Stacks.                                                                 *)

LEMMA Pushed ==
    ASSUME NEW S, NEW s \in Seq(S), NEW x \in S
    PROVE  /\ Append(s, x) \in Seq(S) /\ Len(Append(s, x)) = Len(s) + 1 /\ Len(s) \in Nat
           /\ DOMAIN s = 1..Len(s) /\ DOMAIN Append(s, x) = 1..(Len(s) + 1)
           /\ \A i \in 1..Len(s) : Append(s, x)[i] = s[i]
           /\ Append(s, x)[Len(s) + 1] = x
           /\ Range(Append(s, x)) = Range(s) \cup {x}
<1>1. /\ Append(s, x) \in Seq(S) /\ Len(Append(s, x)) = Len(s) + 1 /\ Len(s) \in Nat
      /\ DOMAIN s = 1..Len(s) /\ DOMAIN Append(s, x) = 1..(Len(s) + 1)
      /\ \A i \in 1..Len(s) : Append(s, x)[i] = s[i]
      /\ Append(s, x)[Len(s) + 1] = x
  BY AppendProperties, LenProperties
<1> DEFINE p == Append(s, x)
<1> HIDE DEF p
<1>2. Range(p) = Range(s) \cup {x}
  <2>1. \A i \in DOMAIN p : p[i] \in Range(s) \cup {x}
    BY <1>1 DEF p, Range
  <2>2. \A i \in DOMAIN s : i \in DOMAIN p /\ p[i] = s[i]
    BY <1>1 DEF p
  <2>3. Len(s) + 1 \in DOMAIN p /\ p[Len(s) + 1] = x
    BY <1>1 DEF p
  <2> QED
    BY <2>1, <2>2, <2>3 DEF Range
<1> QED
  BY <1>1, <1>2 DEF p

LEMMA Popped ==
    ASSUME NEW S, NEW s \in Seq(S), s # <<>>
    PROVE  /\ Front(s) \in Seq(S) /\ Len(s) \in Nat /\ Len(s) >= 1 /\ Len(Front(s)) = Len(s) - 1
           /\ DOMAIN s = 1..Len(s) /\ DOMAIN Front(s) = 1..(Len(s) - 1)
           /\ \A i \in 1..(Len(s) - 1) : Front(s)[i] = s[i]
           /\ Top(s) = s[Len(s)] /\ Top(s) \in S
           /\ Range(Front(s)) \subseteq Range(s) /\ Range(s) = Range(Front(s)) \cup {Top(s)}
<1>1. DOMAIN s = 1..Len(s) /\ Len(s) \in Nat /\ Len(s) >= 1 /\ \A i \in 1..Len(s) : s[i] \in S
  <2>1. Len(s) \in Nat /\ DOMAIN s = 1..Len(s) /\ \A i \in 1..Len(s) : s[i] \in S
    BY ElementOfSeq
  <2>2. Len(s) # 0
    BY EmptySeq
  <2> QED
    BY <2>1, <2>2
<1>2. Front(s) \in Seq(S) /\ Len(Front(s)) = Len(s) - 1 /\ \A i \in 1..(Len(s) - 1) : Front(s)[i] = s[i]
  <2>1. Len(s) - 1 \in Int /\ 1 \in Int /\ \A i \in 1..(Len(s) - 1) : s[i] \in S
    BY <1>1
  <2>2. SubSeq(s, 1, Len(s) - 1) \in Seq(S) /\ Len(SubSeq(s, 1, Len(s) - 1)) = Len(s) - 1
        /\ \A i \in 1..(Len(s) - 1) : SubSeq(s, 1, Len(s) - 1)[i] = s[i]
    BY <1>1
  <2> QED
    BY <2>2 DEF Front
<1> DEFINE f == Front(s)
<1> HIDE DEF f
<1>3. DOMAIN f = 1..(Len(s) - 1)
  BY <1>1, <1>2, LenProperties DEF f
<1>4. \A i \in 1..(Len(s) - 1) : i \in 1..Len(s) /\ f[i] = s[i]
  BY <1>1, <1>2 DEF f
<1>5. \A i \in 1..Len(s) : i # Len(s) => i \in 1..(Len(s) - 1)
  <2> DEFINE n == Len(s)
  <2>1. n \in Nat
    BY <1>1
  <2> HIDE DEF n
  <2>2. \A i \in 1..n : i # n => i \in 1..(n - 1)
    BY <2>1
  <2> QED
    BY <2>2 DEF n
<1>6. Top(s) = s[Len(s)] /\ Len(s) \in 1..Len(s)
  BY <1>1 DEF Top
<1>7. Range(f) \subseteq Range(s)
  BY <1>1, <1>3, <1>4 DEF Range
<1>8. Range(s) = Range(f) \cup {Top(s)}
  BY <1>1, <1>3, <1>4, <1>5, <1>6 DEF Range
<1> QED
  BY <1>1, <1>2, <1>3, <1>6, <1>7, <1>8 DEF f

(* A part of a stack lies in the stack.                                    *)
LEMMA InStack ==
    ASSUME NEW n \in Nat, NEW i \in Nat, i < n, NEW fs \in Nat
    PROVE  fs * i \in Nat /\ fs * n \in Nat /\ fs * i + fs <= fs * n
<1>1. fs * i \in Nat /\ fs * n \in Nat
  OBVIOUS
<1> DEFINE k == n - i - 1
<1>2. k \in Nat /\ n = i + 1 + k
  OBVIOUS
<1> HIDE DEF k
<1>3. fs * n = fs * i + fs + fs * k /\ fs * k \in Nat
  BY <1>2
<1> QED
  BY <1>1, <1>3

-----------------------------------------------------------------------------
(* The steps.                                                              *)

(* What a step that leaves the frames alone keeps.                         *)
SameFrames ==
    /\ UNCHANGED <<real, stacks, nextFid, returned>> /\ skewed \subseteq skewed'
    /\ WellFormed(index') /\ DOMAIN index'.dynamics \subseteq DOMAIN index.dynamics
    /\ \A f \in DOMAIN index'.dynamics : index'.dynamics[f] = index.dynamics[f]

LEMMA SameFramesStep ==
    ASSUME FrameInv, SameFrames
    PROVE  FramesInv' /\ IndexInv' /\ StackInv' /\ StepInv'
<1>1. OnStacks' = OnStacks
  BY DEF OnStacks, SameFrames
<1>2. FramesInv'
  BY <1>1 DEF FrameInv, FramesInv, SameFrames
<1>3. IndexInv'
  BY <1>1 DEF FrameInv, IndexInv, SameFrames
<1>4. StackInv'
  <2>1. StackInv
    BY DEF FrameInv
  <2> QED
    BY <2>1 DEF StackInv, SameFrames
<1>5. StepInv'
  <2>1. ASSUME NEW t \in Threads \ skewed' PROVE InStep(t)'
    <3>1. InStep(t)
      BY DEF SameFrames, FrameInv, StepInv
    <3> QED
      BY <3>1 DEF InStep, SameFrames
  <2> QED
    BY <2>1 DEF FrameInv, StepInv, SameFrames
<1> QED
  BY <1>2, <1>3, <1>4, <1>5

(* The intervals of an index are its statics and its dynamics.             *)
LEMMA AllIvsSame ==
    ASSUME NEW ix, NEW jx, jx.statics = ix.statics, jx.dynamics = ix.dynamics
    PROVE  AllIvs(jx) = AllIvs(ix)
BY DEF AllIvs

(* What a lookup leaves of the invariant, and what it finds.               *)
LEMMA LookedUp ==
    ASSUME NEW ix, NEW a, WellFormed(ix), NEW r \in Lookup(ix, a)
    PROVE  /\ WellFormed(r.ix) /\ r.ix.dynamics = ix.dynamics /\ AllIvs(r.ix) = AllIvs(ix)
           /\ r.var \subseteq AllIvs(ix)
<1>1. Result(ix, a, r)
  BY LookupResult
<1>2. WellFormed(r.ix) /\ r.ix.statics = ix.statics /\ r.ix.dynamics = ix.dynamics
  BY <1>1, ResultWellFormed
<1>3. AllIvs(r.ix) = AllIvs(ix)
  BY <1>2, AllIvsSame
<1> QED
  BY <1>1, <1>2, <1>3 DEF Result

LEMMA CacheMissStep ==
    ASSUME FrameInv, NEW a \in Probes, CacheMiss(a)
    PROVE  FrameInv'
<1>1. PICK r \in Lookup(index, a) : index' = r.ix
  BY DEF CacheMiss
<1>2. /\ WellFormed(index') /\ index'.dynamics = index.dynamics /\ AllIvs(index') = AllIvs(index)
  BY <1>1, LookedUp DEF FrameInv, IndexInv
<1>3. SameFrames
  BY <1>2 DEF SameFrames, CacheMiss
<1>4. OnStacks' = OnStacks
  BY DEF OnStacks, CacheMiss
<1>5. NodesInv'
  <2>1. NodesInv
    BY DEF FrameInv
  <2> QED
    BY <1>2, <1>4, <2>1 DEF NodesInv, CacheMiss
<1> QED
  BY <1>3, <1>5, SameFramesStep DEF FrameInv

LEMMA WriteStep ==
    ASSUME FrameInv, NEW a \in Probes, NEW val \in PtrValues, Write(a, val)
    PROVE  FrameInv'
<1>1. PICK r \in Lookup(index, a) :
          IF r.var = {} THEN index' = r.ix /\ UNCHANGED <<nodes, edges>>
          ELSE \E v \in r.var :
             /\ nodes' = nodes \cup {v.nid}
             /\ IF ~v.ptr THEN index' = r.ix /\ UNCHANGED edges
                ELSE IF val = 0 THEN index' = r.ix /\ edges' = UpdateEdge(v.nid, {}, 0)
                ELSE \E q \in Lookup(r.ix, val) :
                        index' = q.ix /\ edges' = UpdateEdge(v.nid, q.var, val)
  BY DEF Write
<1>2. /\ WellFormed(r.ix) /\ r.ix.dynamics = index.dynamics /\ AllIvs(r.ix) = AllIvs(index)
      /\ r.var \subseteq AllIvs(index)
  BY LookedUp DEF FrameInv, IndexInv
<1>3. NodesInv
  BY DEF FrameInv
<1>4. ASSUME NEW q \in Lookup(r.ix, val)
      PROVE  /\ WellFormed(q.ix) /\ q.ix.dynamics = index.dynamics /\ AllIvs(q.ix) = AllIvs(index)
             /\ q.var \subseteq AllIvs(index)
  BY <1>2, LookedUp
<1> DEFINE EdgesOk(E) == \A n \in DOMAIN E : n \in nodes /\ (E[n].dangling \/ E[n].target \in nodes)
<1>5. EdgesOk(edges)
  BY <1>3 DEF NodesInv
<1>6. ASSUME NEW n \in nodes, NEW T \in SUBSET AllIvs(index), NEW x
      PROVE  EdgesOk(UpdateEdge(n, T, x))
  <2> DEFINE e == IF T = {} THEN [target |-> Dangling, dangling |-> TRUE]
                  ELSE [target |-> (CHOOSE v \in T : TRUE).nid, dangling |-> FALSE]
  <2>1. CASE T = {} /\ x = 0
    BY <1>5, <2>1 DEF UpdateEdge
  <2>2. CASE ~(T = {} /\ x = 0)
    <3>1. UpdateEdge(n, T, x) = [m \in DOMAIN edges \cup {n} |-> IF m = n THEN e ELSE edges[m]]
      BY <2>2 DEF UpdateEdge
    <3>2. e.dangling \/ e.target \in nodes
      <4>1. CASE T = {}
        BY <4>1
      <4>2. CASE T # {}
        <5>1. (CHOOSE v \in T : TRUE) \in AllIvs(index)
          BY <4>2
        <5>2. (CHOOSE v \in T : TRUE).nid \in nodes
          BY <1>3, <5>1 DEF NodesInv
        <5> QED
          BY <4>2, <5>2
      <4> QED
        BY <4>1, <4>2
    <3> HIDE DEF e
    <3> QED
      BY <1>5, <3>1, <3>2
  <2> QED
    BY <2>1, <2>2
<1>7. /\ WellFormed(index') /\ index'.dynamics = index.dynamics /\ AllIvs(index') = AllIvs(index)
      /\ nodes' = nodes /\ EdgesOk(edges')
  <2> HIDE DEF EdgesOk
  <2>1. CASE r.var = {}
    BY <1>1, <1>2, <1>5, <2>1
  <2>2. CASE r.var # {}
    <3>1. PICK v \in r.var :
             /\ nodes' = nodes \cup {v.nid}
             /\ IF ~v.ptr THEN index' = r.ix /\ UNCHANGED edges
                ELSE IF val = 0 THEN index' = r.ix /\ edges' = UpdateEdge(v.nid, {}, 0)
                ELSE \E q \in Lookup(r.ix, val) :
                        index' = q.ix /\ edges' = UpdateEdge(v.nid, q.var, val)
      BY <1>1, <2>2
    <3>2. v.nid \in nodes /\ nodes' = nodes
      <4>1. v.nid \in nodes
        BY <1>2, <1>3 DEF NodesInv
      <4> QED
        BY <3>1, <4>1
    <3>3. CASE ~v.ptr
      BY <1>2, <1>5, <3>1, <3>2, <3>3
    <3>4. CASE v.ptr /\ val = 0
      BY <1>2, <1>6, <3>1, <3>2, <3>4
    <3>5. CASE v.ptr /\ val # 0
      <4>1. PICK q \in Lookup(r.ix, val) : index' = q.ix /\ edges' = UpdateEdge(v.nid, q.var, val)
        BY <3>1, <3>5
      <4> QED
        BY <1>4, <1>6, <3>2, <4>1
    <3> QED
      BY <3>3, <3>4, <3>5
  <2> QED
    BY <2>1, <2>2
<1>8. SameFrames
  BY <1>7 DEF SameFrames, Write
<1>9. OnStacks' = OnStacks
  BY DEF OnStacks, Write
<1>10. NodesInv'
  BY <1>3, <1>7, <1>9 DEF NodesInv, Write
<1> QED
  BY <1>8, <1>10, SameFramesStep DEF FrameInv

(* The nodes of a stack's frames stay while other nodes come.              *)
LEMMA ModuleLoadStep ==
    ASSUME FrameInv, ModuleLoad
    PROVE  FrameInv'
<1>1. /\ WellFormed(index') /\ DOMAIN index'.dynamics = {}
      /\ \A iv \in AllIvs(index') : iv.nid \in GlobalNodes(Globals, 0)
  BY NewGlobals DEF ModuleLoad
<1>2. SameFrames
  BY <1>1 DEF SameFrames, ModuleLoad
<1>3. OnStacks' = OnStacks
  BY DEF OnStacks, ModuleLoad
<1>4. NodesInv'
  <2>1. NodesInv
    BY DEF FrameInv
  <2>2. \A n \in GlobalNodes(Globals, 0) : ~IsLocal(n)
    BY GlobalsSpec, GlobalNodesSpec
  <2> QED
    BY <1>1, <1>3, <2>1, <2>2 DEF NodesInv, ModuleLoad
<1> QED
  BY <1>2, <1>4, SameFramesStep DEF FrameInv

LEMMA LibGlobalsReadyStep ==
    ASSUME FrameInv, LibGlobalsReady
    PROVE  FrameInv'
<1>1. Populated(index, LibGlobals, Len(Globals), index')
  BY GlobalsSpec, PopulateSpec DEF FrameInv, IndexInv, LibGlobalsReady
<1>2. WellFormed(index') /\ index'.dynamics = index.dynamics
  BY <1>1 DEF Populated
<1>3. SameFrames
  BY <1>2 DEF SameFrames, LibGlobalsReady
<1>4. OnStacks' = OnStacks
  BY DEF OnStacks, LibGlobalsReady
<1>5. NodesInv'
  <2>1. NodesInv
    BY DEF FrameInv
  <2>2. /\ \A n \in GlobalNodes(LibGlobals, Len(Globals)) : ~IsLocal(n)
        /\ \A iv \in Range(Intervals(LibGlobals, Len(Globals))) : iv.nid \in GlobalNodes(LibGlobals, Len(Globals))
    BY GlobalsSpec, GlobalNodesSpec
  <2>3. AllIvs(index') \subseteq AllIvs(index) \cup Range(Intervals(LibGlobals, Len(Globals)))
    BY <1>1, <1>2 DEF Populated, AllIvs
  <2> QED
    BY <1>4, <2>1, <2>2, <2>3 DEF NodesInv, LibGlobalsReady
<1> QED
  BY <1>3, <1>5, SameFramesStep DEF FrameInv

(* A frame the engine does not know comes onto the target's stack.         *)
LEMMA UnknownFrame ==
    ASSUME FrameInv, NEW t \in Threads, Len(real[t]) < MaxDepth,
           real' = [real EXCEPT ![t] = Append(@, 0)], skewed \subseteq skewed',
           UNCHANGED <<stacks, nextFid, returned, index, nodes, edges>>
    PROVE  FrameInv'
<1>1. OnStacks' = OnStacks
  BY DEF OnStacks
<1>2. FramesInv' /\ IndexInv' /\ NodesInv' /\ StackInv'
  BY <1>1 DEF FrameInv, FramesInv, IndexInv, NodesInv, StackInv
<1>3. real \in [Threads -> Seq(Nat)] /\ real[t] \in Seq(Nat)
  BY DEF FrameInv, StepInv
<1>4. /\ Append(real[t], 0) \in Seq(Nat) /\ Len(Append(real[t], 0)) = Len(real[t]) + 1 /\ Len(real[t]) \in Nat
      /\ DOMAIN real[t] = 1..Len(real[t]) /\ DOMAIN Append(real[t], 0) = 1..(Len(real[t]) + 1)
      /\ \A i \in 1..Len(real[t]) : Append(real[t], 0)[i] = real[t][i]
      /\ Append(real[t], 0)[Len(real[t]) + 1] = 0
  BY <1>3, Pushed
<1>5. real'[t] = Append(real[t], 0) /\ \A u \in Threads : u # t => real'[u] = real[u]
  BY <1>3
<1>6. real' \in [Threads -> Seq(Nat)]
  BY <1>3, <1>4
<1>7. ASSUME NEW u \in Threads PROVE Len(real'[u]) <= MaxDepth
  <2>1. CASE u = t
    BY <1>4, <1>5, <2>1, FramesAssumption
  <2>2. CASE u # t
    BY <1>5, <2>2 DEF FrameInv, StepInv
  <2> QED
    BY <2>1, <2>2
<1>8. ASSUME NEW u \in Threads \ skewed' PROVE InStep(u)'
  <2>1. InStep(u)
    BY DEF FrameInv, StepInv
  <2>2. CASE u # t
    <3>1. real'[u] = real[u]
      BY <1>5, <2>2
    <3> QED
      BY <2>1, <3>1 DEF InStep
  <2>3. CASE u = t
    <3> DEFINE n == Len(real[t])
               r == real[t]
               p == real'[t]
    <3>1. n \in Nat /\ DOMAIN r = 1..n /\ DOMAIN p = 1..(n + 1) /\ p[n + 1] = 0 /\ \A i \in 1..n : p[i] = r[i]
      BY <1>4, <1>5
    <3>2. 0 \notin DOMAIN index.dynamics
      <4>1. DOMAIN index.dynamics \subseteq OnStacks
        BY DEF FrameInv, IndexInv
      <4>2. \A w \in Threads : stacks[w] \in Seq(Nat \ {0})
        BY DEF FrameInv, FramesInv
      <4>3. \A w \in Threads : \A i \in DOMAIN stacks[w] : stacks[w][i] # 0
        BY <4>2, ElementOfSeq
      <4> QED
        BY <4>1, <4>3 DEF OnStacks, Range
    <3> HIDE DEF n
    <3>3. 1..n \subseteq 1..(n + 1) /\ \A i \in 1..(n + 1) : i \in 1..n \/ i = n + 1
      BY <3>1
    <3> HIDE DEF r, p
    <3>4. \A i \in DOMAIN p : p[i] = 0 \/ (i \in DOMAIN r /\ p[i] = r[i])
      BY <3>1, <3>3
    <3>5. \A i \in DOMAIN r : i \in DOMAIN p /\ p[i] = r[i]
      BY <3>1, <3>3
    <3>6. InStep(t)
      BY <2>1, <2>3
    <3>7. /\ \A i \in DOMAIN p : p[i] # 0 => p[i] \in Range(stacks[t])
          /\ \A f \in Range(stacks[t]) : \E i \in DOMAIN p : p[i] = f
      BY <3>4, <3>5, <3>6 DEF InStep, r
    <3>8. \A i, j \in DOMAIN p : p[i] # 0 /\ p[i] = p[j] => i = j
      BY <3>4, <3>6 DEF InStep, r
    <3>9. \A i \in DOMAIN p : p[i] \in DOMAIN index.dynamics =>
             \A li \in DOMAIN index.dynamics[p[i]] :
                 InRange(index.dynamics[p[i]][li], StackBase[t] + FrameSize * (i - 1), FrameSize)
      <4> TAKE i \in DOMAIN p
      <4> HAVE p[i] \in DOMAIN index.dynamics
      <4>1. i \in DOMAIN r /\ p[i] = r[i]
        BY <3>2, <3>4
      <4> QED
        BY <3>6, <4>1 DEF InStep, r
    <3> QED
      BY <2>3, <3>7, <3>8, <3>9 DEF InStep, p
  <2> QED
    BY <2>2, <2>3
<1>9. StepInv'
  BY <1>6, <1>7, <1>8 DEF StepInv
<1> QED
  BY <1>2, <1>9 DEF FrameInv

(* A frame the engine knows comes onto both stacks, its locals into the    *)
(* index and its nodes into the world.                                     *)
KnownFrame(t, fn) ==
    /\ Len(real[t]) < MaxDepth
    /\ real' = [real EXCEPT ![t] = Append(@, nextFid)]
    /\ nextFid' = nextFid + 1
    /\ stacks' = [stacks EXCEPT ![t] = Append(@, nextFid)]
    /\ nodes' = nodes \cup {LocalNode(nextFid, li) : li \in DOMAIN Funcs[fn].locals}
    /\ index' = InsertFrame(index, nextFid, StackBase[t] + FrameSize * Len(real[t]), fn)
    /\ UNCHANGED <<returned, edges, skewed>>

LEMMA KnownFrameStacks ==
    ASSUME FrameInv, NEW t \in Threads, NEW fn \in DOMAIN Funcs, KnownFrame(t, fn)
    PROVE  FramesInv' /\ OnStacks' = OnStacks \cup {nextFid} /\ nextFid \notin OnStacks
<1>1. /\ nextFid \in Nat \ {0} /\ stacks \in [Threads -> Seq(Nat \ {0})] /\ returned \in Seq(Nat \ {0})
      /\ \A u \in Threads : stacks[u] \in Seq(Nat \ {0}) /\ \A i \in DOMAIN stacks[u] : stacks[u][i] < nextFid
      /\ \A k \in DOMAIN returned : returned[k] < nextFid /\ returned[k] \notin OnStacks /\ returned[k] \in Nat
  <2>1. returned \in Seq(Nat \ {0})
    BY DEF FrameInv, FramesInv
  <2>2. \A k \in DOMAIN returned : returned[k] \in Nat
    BY <2>1, ElementOfSeq
  <2> QED
    BY <2>2 DEF FrameInv, FramesInv
<1> DEFINE n == Len(stacks[t])
           s == stacks[t]
           p == stacks'[t]
<1>2. /\ p \in Seq(Nat \ {0}) /\ n \in Nat /\ DOMAIN s = 1..n /\ DOMAIN p = 1..(n + 1)
      /\ (\A i \in 1..n : p[i] = s[i]) /\ p[n + 1] = nextFid
      /\ Range(p) = Range(s) \cup {nextFid}
      /\ stacks' \in [Threads -> Seq(Nat \ {0})] /\ \A u \in Threads : u # t => stacks'[u] = stacks[u]
  <2>1. p = Append(s, nextFid)
    BY <1>1 DEF KnownFrame
  <2>2. /\ Append(s, nextFid) \in Seq(Nat \ {0}) /\ Len(s) \in Nat
        /\ DOMAIN s = 1..Len(s) /\ DOMAIN Append(s, nextFid) = 1..(Len(s) + 1)
        /\ \A i \in 1..Len(s) : Append(s, nextFid)[i] = s[i]
        /\ Append(s, nextFid)[Len(s) + 1] = nextFid
        /\ Range(Append(s, nextFid)) = Range(s) \cup {nextFid}
    <3> DEFINE S == Nat \ {0}
    <3>1. s \in Seq(S) /\ nextFid \in S
      BY <1>1
    <3> HIDE DEF S, s, p
    <3>2. /\ Append(s, nextFid) \in Seq(S) /\ Len(s) \in Nat
          /\ DOMAIN s = 1..Len(s) /\ DOMAIN Append(s, nextFid) = 1..(Len(s) + 1)
          /\ \A i \in 1..Len(s) : Append(s, nextFid)[i] = s[i]
          /\ Append(s, nextFid)[Len(s) + 1] = nextFid
          /\ Range(Append(s, nextFid)) = Range(s) \cup {nextFid}
      BY <3>1, Pushed
    <3> QED
      BY <3>2 DEF S
  <2>3. stacks' \in [Threads -> Seq(Nat \ {0})] /\ \A u \in Threads : u # t => stacks'[u] = stacks[u]
    BY <1>1, <2>2 DEF KnownFrame
  <2> QED
    BY <2>1, <2>2, <2>3
<1>3. 1..n \subseteq 1..(n + 1) /\ \A i \in 1..(n + 1) : i \in 1..n \/ i = n + 1
  BY <1>2
<1> HIDE DEF n, s, p
<1>4. OnStacks' = OnStacks \cup {nextFid}
  <2>1. \A u \in Threads : Range(stacks'[u]) = Range(stacks[u]) \cup (IF u = t THEN {nextFid} ELSE {})
    BY <1>2 DEF s, p
  <2> QED
    BY <2>1 DEF OnStacks
<1>5. \A u \in Threads : \A i \in DOMAIN stacks[u] : stacks[u][i] # nextFid
  <2> SUFFICES ASSUME NEW u \in Threads, NEW i \in DOMAIN stacks[u] PROVE stacks[u][i] # nextFid
    OBVIOUS
  <2>1. stacks[u][i] < nextFid
    BY <1>1
  <2> DEFINE x == stacks[u][i]
  <2>2. x < nextFid /\ nextFid \in Nat
    BY <1>1, <2>1
  <2> HIDE DEF x
  <2>3. x # nextFid
    BY <2>2
  <2> QED
    BY <2>3 DEF x
<1>6. nextFid \notin OnStacks
  BY <1>5 DEF OnStacks, Range
<1>7. \A u \in Threads : \A i \in DOMAIN stacks'[u] :
          \/ u = t /\ i = n + 1 /\ stacks'[u][i] = nextFid
          \/ i \in DOMAIN stacks[u] /\ stacks'[u][i] = stacks[u][i]
  BY <1>2, <1>3 DEF s, p
<1>8. \A u \in Threads : \A i \in DOMAIN stacks'[u] : stacks'[u][i] < nextFid'
  <2> SUFFICES ASSUME NEW u \in Threads, NEW i \in DOMAIN stacks'[u] PROVE stacks'[u][i] < nextFid'
    OBVIOUS
  <2> DEFINE x == stacks'[u][i]
  <2>1. x = nextFid \/ x < nextFid
    BY <1>1, <1>7
  <2>2. x \in Nat /\ nextFid \in Nat /\ nextFid' = nextFid + 1
    BY <1>1, <1>2, ElementOfSeq DEF KnownFrame
  <2> HIDE DEF x
  <2>3. x < nextFid'
    BY <2>1, <2>2
  <2> QED
    BY <2>3 DEF x
<1>9. \A u, w \in Threads : \A i \in DOMAIN stacks'[u], j \in DOMAIN stacks'[w] :
          stacks'[u][i] = stacks'[w][j] => u = w /\ i = j
  <2> SUFFICES ASSUME NEW u \in Threads, NEW w \in Threads, NEW i \in DOMAIN stacks'[u], NEW j \in DOMAIN stacks'[w],
                      stacks'[u][i] = stacks'[w][j]
               PROVE  u = w /\ i = j
    OBVIOUS
  <2>1. CASE i \in DOMAIN stacks[u] /\ stacks'[u][i] = stacks[u][i]
    <3>1. j \in DOMAIN stacks[w] /\ stacks'[w][j] = stacks[w][j]
      BY <1>5, <1>7, <2>1
    <3>2. stacks[u][i] = stacks[w][j]
      BY <2>1, <3>1
    <3>3. \A x, y \in Threads : \A k \in DOMAIN stacks[x], l \in DOMAIN stacks[y] :
             stacks[x][k] = stacks[y][l] => x = y /\ k = l
      BY DEF FrameInv, FramesInv
    <3> QED
      BY <2>1, <3>1, <3>2, <3>3
  <2>2. CASE u = t /\ i = n + 1 /\ stacks'[u][i] = nextFid
    BY <1>5, <1>7, <2>2
  <2> QED
    BY <1>7, <2>1, <2>2
<1>10. \A k \in DOMAIN returned' : returned'[k] < nextFid' /\ returned'[k] \notin OnStacks'
  <2> SUFFICES ASSUME NEW k \in DOMAIN returned PROVE returned[k] < nextFid' /\ returned[k] \notin OnStacks'
    BY DEF KnownFrame
  <2> DEFINE x == returned[k]
  <2>1. x < nextFid /\ x \notin OnStacks /\ x \in Nat /\ nextFid \in Nat /\ nextFid' = nextFid + 1
    BY <1>1 DEF KnownFrame
  <2> HIDE DEF x
  <2>2. x < nextFid' /\ x # nextFid
    BY <2>1
  <2>3. x \notin OnStacks'
    BY <1>4, <2>1, <2>2
  <2> QED
    BY <2>2, <2>3 DEF x
<1>11. nextFid' \in Nat \ {0} /\ returned' \in Seq(Nat \ {0}) /\ Len(returned') <= Keep
  <2>1. nextFid' \in Nat \ {0}
    BY <1>1 DEF KnownFrame
  <2>2. returned' = returned /\ Len(returned) <= Keep
    BY DEF KnownFrame, FrameInv, FramesInv
  <2> QED
    BY <1>1, <2>1, <2>2
<1>12. stacks' \in [Threads -> Seq(Nat \ {0})]
  BY <1>2
<1>13. FramesInv'
  BY <1>8, <1>9, <1>10, <1>11, <1>12 DEF FramesInv
<1> QED
  BY <1>4, <1>6, <1>13

LEMMA KnownFrameIndex ==
    ASSUME FrameInv, NEW t \in Threads, NEW fn \in DOMAIN Funcs, KnownFrame(t, fn)
    PROVE  /\ Inserted(index, nextFid, StackBase[t] + FrameSize * Len(real[t]), fn, index')
           /\ IndexInv' /\ nextFid \notin DOMAIN index.dynamics
           /\ Len(real[t]) \in Nat
           /\ StackBase[t] \in Nat /\ FrameSize * Len(real[t]) \in Nat /\ FrameSize * MaxDepth \in Nat
           /\ FrameSize * Len(real[t]) + FrameSize <= FrameSize * MaxDepth
<1>1. FramesInv' /\ OnStacks' = OnStacks \cup {nextFid} /\ nextFid \notin OnStacks
  BY KnownFrameStacks
<1>2. WellFormed(index) /\ DOMAIN index.dynamics \subseteq OnStacks /\ nextFid \in Nat
  BY DEF FrameInv, IndexInv, FramesInv
<1>3. Len(real[t]) \in Nat /\ Len(real[t]) < MaxDepth
  BY LenProperties DEF FrameInv, StepInv, KnownFrame
<1> DEFINE m == Len(real[t])
           b == StackBase[t]
<1>4. FrameSize \in Nat /\ MaxDepth \in Nat /\ b \in Nat
  BY FramesAssumption
<1>5. m \in Nat /\ m < MaxDepth
  BY <1>3
<1> HIDE DEF m, b
<1>6. FrameSize * m \in Nat /\ FrameSize * MaxDepth \in Nat /\ FrameSize * m + FrameSize <= FrameSize * MaxDepth
  BY <1>4, <1>5, InStack
<1> DEFINE base == b + FrameSize * m
<1>7. base \in Nat
  BY <1>4, <1>6
<1>8. index' = InsertFrame(index, nextFid, base, fn)
  BY DEF KnownFrame, b, m
<1> HIDE DEF base
<1>9. Inserted(index, nextFid, base, fn, index')
  BY <1>1, <1>2, <1>7, <1>8, InsertSpec
<1>10. IndexInv'
  BY <1>1, <1>2, <1>9 DEF IndexInv, Inserted
<1> QED
  BY <1>1, <1>2, <1>3, <1>4, <1>6, <1>9, <1>10 DEF base, b, m

LEMMA KnownFrameNodes ==
    ASSUME FrameInv, NEW t \in Threads, NEW fn \in DOMAIN Funcs, KnownFrame(t, fn)
    PROVE  NodesInv'
<1>1. OnStacks' = OnStacks \cup {nextFid}
  BY KnownFrameStacks
<1>2. Inserted(index, nextFid, StackBase[t] + FrameSize * Len(real[t]), fn, index')
  BY KnownFrameIndex
<1>3. NodesInv /\ nodes' = nodes \cup {LocalNode(nextFid, li) : li \in DOMAIN Funcs[fn].locals}
      /\ UNCHANGED <<edges, returned>>
  BY DEF FrameInv, KnownFrame
<1>4. ASSUME NEW iv \in AllIvs(index') PROVE iv.nid \in nodes'
  <2>1. CASE iv \in Range(index'.statics)
    <3>1. iv \in AllIvs(index)
      BY <1>2, <2>1 DEF Inserted, AllIvs
    <3> QED
      BY <1>3, <3>1 DEF NodesInv
  <2>2. CASE \E f \in DOMAIN index'.dynamics : iv \in Range(index'.dynamics[f])
    <3>1. PICK f \in DOMAIN index'.dynamics : iv \in Range(index'.dynamics[f])
      BY <2>2
    <3>2. CASE f = nextFid
      <4>1. PICK li \in DOMAIN index'.dynamics[f] : iv = index'.dynamics[f][li]
        BY <3>1 DEF Range
      <4>2. LocalIv(index', f, li) /\ li \in DOMAIN Funcs[fn].locals
        BY <1>2, <3>1, <3>2 DEF Inserted, WellFormed, DynamicsShaped
      <4> QED
        BY <1>3, <3>2, <4>1, <4>2 DEF LocalIv
    <3>3. CASE f # nextFid
      <4>1. f \in DOMAIN index.dynamics /\ index'.dynamics[f] = index.dynamics[f]
        BY <1>2, <3>3 DEF Inserted
      <4>2. iv \in AllIvs(index)
        BY <3>1, <4>1 DEF AllIvs
      <4> QED
        BY <1>3, <4>2 DEF NodesInv
    <3> QED
      BY <3>2, <3>3
  <2> QED
    BY <2>1, <2>2 DEF AllIvs
<1>5. \A li : LocalNode(nextFid, li)[2] = nextFid
  BY DEF LocalNode
<1>6. \A n \in nodes' : IsLocal(n) => n[2] \in OnStacks' \cup Range(returned')
  BY <1>1, <1>3, <1>5 DEF NodesInv
<1>7. \A n \in DOMAIN edges' : n \in nodes' /\ (edges'[n].dangling \/ edges'[n].target \in nodes')
  BY <1>3 DEF NodesInv
<1> QED
  BY <1>4, <1>6, <1>7 DEF NodesInv

LEMMA KnownFrameParts ==
    ASSUME FrameInv, NEW t \in Threads, NEW fn \in DOMAIN Funcs, KnownFrame(t, fn)
    PROVE  StackInv'
<1>1. OnStacks' = OnStacks \cup {nextFid} /\ nextFid \notin OnStacks
  BY KnownFrameStacks
<1> DEFINE b == StackBase[t]
           k == FrameSize * Len(real[t])
           z == FrameSize * MaxDepth
<1>2. /\ Inserted(index, nextFid, b + k, fn, index')
      /\ b \in Nat /\ k \in Nat /\ z \in Nat /\ FrameSize \in Nat /\ k + FrameSize <= z
  BY KnownFrameIndex, FramesAssumption
<1> HIDE DEF b, k, z
<1> SUFFICES ASSUME NEW u \in Threads, NEW f \in Range(stacks'[u]) \cap DOMAIN index'.dynamics,
                    NEW li \in DOMAIN index'.dynamics[f]
             PROVE  InRange(index'.dynamics[f][li], StackBase[u], z)
  BY DEF StackInv, z
<1>3. stacks \in [Threads -> Seq(Nat \ {0})] /\ nextFid \in Nat \ {0} /\ stacks' = [stacks EXCEPT ![t] = Append(@, nextFid)]
  BY DEF FrameInv, FramesInv, KnownFrame
<1>4. Range(Append(stacks[t], nextFid)) = Range(stacks[t]) \cup {nextFid}
  <2> DEFINE S == Nat \ {0}
             s == stacks[t]
  <2>1. s \in Seq(S) /\ nextFid \in S
    BY <1>3
  <2> HIDE DEF S, s
  <2>2. Range(Append(s, nextFid)) = Range(s) \cup {nextFid}
    BY <2>1, Pushed
  <2> QED
    BY <2>2 DEF s
<1>5. f \in Range(stacks[u]) \/ (u = t /\ f = nextFid)
  BY <1>3, <1>4
<1>6. CASE f = nextFid
  <2>1. u = t
    BY <1>1, <1>5, <1>6 DEF OnStacks
  <2> DEFINE iv == index'.dynamics[f][li]
  <2>2. LocalIv(index', f, li) /\ b + k <= iv.lo /\ iv.hi <= b + k + FrameSize
    BY <1>2, <1>6 DEF Inserted, WellFormed, DynamicsShaped
  <2>3. iv.lo \in Nat /\ iv.hi \in Nat
    BY <2>2 DEF LocalIv
  <2> HIDE DEF iv
  <2>4. b <= iv.lo /\ iv.hi <= b + z
    BY <1>2, <2>2, <2>3
  <2> QED
    BY <2>1, <2>4 DEF InRange, iv, b
<1>7. CASE f # nextFid
  <2>1. f \in DOMAIN index.dynamics /\ index'.dynamics[f] = index.dynamics[f] /\ f \in Range(stacks[u])
    BY <1>2, <1>5, <1>7 DEF Inserted
  <2> QED
    BY <2>1 DEF FrameInv, StackInv, z
<1> QED
  BY <1>6, <1>7

LEMMA KnownFrameInStep ==
    ASSUME FrameInv, NEW t \in Threads, NEW fn \in DOMAIN Funcs, KnownFrame(t, fn),
           NEW u \in Threads \ skewed
    PROVE  InStep(u)'
<1>1. OnStacks' = OnStacks \cup {nextFid} /\ nextFid \notin OnStacks /\ nextFid \in Nat \ {0}
  BY KnownFrameStacks DEF FrameInv, FramesInv
<1> DEFINE n == Len(real[t])
           base == StackBase[t] + FrameSize * n
<1>2. Inserted(index, nextFid, base, fn, index')
  BY KnownFrameIndex
<1>3. /\ stacks \in [Threads -> Seq(Nat \ {0})] /\ stacks' = [stacks EXCEPT ![t] = Append(@, nextFid)]
      /\ real \in [Threads -> Seq(Nat)] /\ real' = [real EXCEPT ![t] = Append(@, nextFid)]
  BY DEF FrameInv, FramesInv, StepInv, KnownFrame
<1>4. InStep(u)
  BY DEF FrameInv, StepInv
<1>5. \A i \in DOMAIN real[u] : real[u][i] # nextFid
  <2>1. \A x \in Range(stacks[u]) : x # nextFid
    BY <1>1 DEF OnStacks
  <2> QED
    BY <1>1, <1>4, <2>1 DEF InStep
<1>6. \A f \in DOMAIN index'.dynamics : f # nextFid => f \in DOMAIN index.dynamics /\ index'.dynamics[f] = index.dynamics[f]
  BY <1>2 DEF Inserted
<1>7. CASE u # t
  <2>1. real'[u] = real[u] /\ stacks'[u] = stacks[u]
    BY <1>3, <1>7
  <2> QED
    BY <1>4, <1>5, <1>6, <2>1 DEF InStep
<1>8. CASE u = t
  <2> DEFINE r == real[t]
             p == real'[t]
  <2>1. /\ n \in Nat /\ DOMAIN r = 1..n /\ DOMAIN p = 1..(n + 1) /\ p[n + 1] = nextFid
        /\ \A i \in 1..n : p[i] = r[i]
    <3>1. r \in Seq(Nat) /\ nextFid \in Nat /\ p = Append(r, nextFid) /\ n = Len(r)
      BY <1>1, <1>3
    <3> HIDE DEF r, p, n
    <3> QED
      BY <3>1, Pushed
  <2>2. Range(stacks'[t]) = Range(stacks[t]) \cup {nextFid}
    <3> DEFINE S == Nat \ {0}
               s == stacks[t]
    <3>1. s \in Seq(S) /\ nextFid \in S /\ stacks'[t] = Append(s, nextFid)
      BY <1>1, <1>3
    <3> HIDE DEF S, s
    <3>2. Range(Append(s, nextFid)) = Range(s) \cup {nextFid}
      BY <3>1, Pushed
    <3> QED
      BY <3>1, <3>2 DEF s
  <2> HIDE DEF n
  <2>3. n + 1 \in 1..(n + 1) /\ 1..n \subseteq 1..(n + 1) /\ \A i \in 1..(n + 1) : i \in 1..n \/ i = n + 1
    BY <2>1
  <2>4. InStep(t)
    BY <1>4, <1>8
  <2>5. \A i \in DOMAIN r : r[i] # nextFid
    BY <1>5, <1>8
  <2> HIDE DEF r, p
  <2>6. \A i \in DOMAIN p : \/ i = n + 1 /\ p[i] = nextFid
                            \/ i \in DOMAIN r /\ p[i] = r[i]
    BY <2>1, <2>3
  <2>7. \A i \in DOMAIN r : i \in DOMAIN p /\ p[i] = r[i]
    BY <2>1, <2>3
  <2>8. n + 1 \in DOMAIN p /\ p[n + 1] = nextFid
    BY <2>1, <2>3
  <2>9. \A i \in DOMAIN p : p[i] # 0 => p[i] \in Range(stacks'[t])
    BY <2>2, <2>4, <2>6 DEF InStep, r
  <2>10. \A f \in Range(stacks'[t]) : \E i \in DOMAIN p : p[i] = f
    BY <2>2, <2>4, <2>7, <2>8 DEF InStep, r
  <2>11. \A i, j \in DOMAIN p : p[i] # 0 /\ p[i] = p[j] => i = j
    <3>1. \A i, j \in DOMAIN r : r[i] # 0 /\ r[i] = r[j] => i = j
      BY <2>4 DEF InStep, r
    <3> QED
      BY <2>5, <2>6, <3>1
  <2>12. \A i \in DOMAIN p : p[i] \in DOMAIN index'.dynamics =>
             \A li \in DOMAIN index'.dynamics[p[i]] :
                 InRange(index'.dynamics[p[i]][li], StackBase[t] + FrameSize * (i - 1), FrameSize)
    <3> SUFFICES ASSUME NEW i \in DOMAIN p, p[i] \in DOMAIN index'.dynamics, NEW li \in DOMAIN index'.dynamics[p[i]]
                 PROVE  InRange(index'.dynamics[p[i]][li], StackBase[t] + FrameSize * (i - 1), FrameSize)
      OBVIOUS
    <3>1. CASE i = n + 1 /\ p[i] = nextFid
      <4>1. i - 1 = n
        BY <2>1, <3>1
      <4> DEFINE iv == index'.dynamics[p[i]][li]
      <4>2. base <= iv.lo /\ iv.hi <= base + FrameSize
        BY <1>2, <3>1 DEF Inserted
      <4> HIDE DEF iv
      <4> QED
        BY <4>1, <4>2 DEF InRange, iv
    <3>2. CASE i \in DOMAIN r /\ p[i] = r[i]
      <4>1. p[i] \in DOMAIN index.dynamics /\ index'.dynamics[p[i]] = index.dynamics[p[i]]
        BY <1>6, <2>5, <3>2
      <4> QED
        BY <2>4, <3>2, <4>1 DEF InStep, r
    <3> QED
      BY <2>6, <3>1, <3>2
  <2> QED
    BY <1>8, <2>9, <2>10, <2>11, <2>12 DEF InStep, p
<1> QED
  BY <1>7, <1>8

LEMMA KnownFrameStep ==
    ASSUME FrameInv, NEW t \in Threads, NEW fn \in DOMAIN Funcs, KnownFrame(t, fn)
    PROVE  FrameInv'
<1>1. FramesInv' /\ IndexInv' /\ NodesInv' /\ StackInv'
  BY KnownFrameStacks, KnownFrameIndex, KnownFrameNodes, KnownFrameParts
<1>2. real \in [Threads -> Seq(Nat)] /\ nextFid \in Nat /\ real' = [real EXCEPT ![t] = Append(@, nextFid)]
      /\ Len(real[t]) < MaxDepth /\ MaxDepth \in Nat /\ skewed' = skewed
  BY FramesAssumption DEF FrameInv, FramesInv, StepInv, KnownFrame
<1>3. /\ Append(real[t], nextFid) \in Seq(Nat) /\ Len(Append(real[t], nextFid)) = Len(real[t]) + 1
      /\ Len(real[t]) \in Nat
  <2> DEFINE r == real[t]
  <2>1. r \in Seq(Nat)
    BY <1>2
  <2> HIDE DEF r
  <2>2. Append(r, nextFid) \in Seq(Nat) /\ Len(Append(r, nextFid)) = Len(r) + 1 /\ Len(r) \in Nat
    BY <1>2, <2>1, Pushed
  <2> QED
    BY <2>2 DEF r
<1>4. real' \in [Threads -> Seq(Nat)] /\ real'[t] = Append(real[t], nextFid)
      /\ \A u \in Threads : u # t => real'[u] = real[u]
  BY <1>2, <1>3
<1>5. ASSUME NEW u \in Threads PROVE Len(real'[u]) <= MaxDepth
  <2>1. CASE u = t
    <3> DEFINE m == Len(real[t])
    <3>1. m \in Nat /\ m < MaxDepth /\ Len(real'[t]) = m + 1
      BY <1>2, <1>3, <1>4
    <3> HIDE DEF m
    <3> QED
      BY <1>2, <2>1, <3>1
  <2>2. CASE u # t
    BY <1>4, <2>2 DEF FrameInv, StepInv
  <2> QED
    BY <2>1, <2>2
<1>6. \A u \in Threads \ skewed' : InStep(u)'
  BY <1>2, KnownFrameInStep
<1>7. StepInv'
  BY <1>4, <1>5, <1>6 DEF StepInv
<1> QED
  BY <1>1, <1>7 DEF FrameInv

LEMMA CallStep ==
    ASSUME FrameInv, NEW t \in Threads, NEW fn \in DOMAIN Funcs, Call(t, fn)
    PROVE  FrameInv'
<1>1. Len(real[t]) < MaxDepth /\ UNCHANGED <<pie, loaded, libs, returned, edges>>
  BY DEF Call
<1>2. CASE CallLost(t, fn)
  BY <1>1, <1>2, UnknownFrame DEF CallLost
<1>3. CASE CallHandled(t, fn) /\ Knows(fn)
  <2>1. KnownFrame(t, fn)
    BY <1>1, <1>3 DEF CallHandled, KnownFrame
  <2> QED
    BY <2>1, KnownFrameStep
<1>4. CASE CallHandled(t, fn) /\ ~Knows(fn)
  BY <1>1, <1>4, UnknownFrame DEF CallHandled
<1> QED
  BY <1>2, <1>3, <1>4 DEF Call

(* The queue of returned frames: at most one falls out of it.              *)
Fallen(q) == {q[i] : i \in 1..(Len(q) - Keep)}
Rest(q) == SubSeq(q, Cardinality(Fallen(q)) + 1, Len(q))

LEMMA QueueSpec ==
    ASSUME NEW S, NEW ret \in Seq(S), Len(ret) <= Keep, NEW x \in S
    PROVE  LET q == Append(ret, x)
           IN /\ Rest(q) \in Seq(S) /\ Len(Rest(q)) <= Keep
              /\ Range(ret) \cup {x} = Fallen(q) \cup Range(Rest(q))
<1> DEFINE q == Append(ret, x)
           n == Len(ret)
           k == Cardinality(Fallen(q))
<1>1. /\ q \in Seq(S) /\ Len(q) = n + 1 /\ n \in Nat /\ DOMAIN q = 1..(n + 1)
      /\ Range(q) = Range(ret) \cup {x} /\ n <= Keep /\ Keep \in Nat
  BY Pushed, FramesAssumption
<1>2. \A i \in 1..(n + 1) : q[i] \in S
  <2>1. \A i \in 1..Len(q) : q[i] \in S
    <3> HIDE DEF q
    <3> QED
      BY <1>1, ElementOfSeq
  <2> QED
    BY <1>1, <2>1
<1> HIDE DEF q, n
<1>3. \/ k = 0 /\ Fallen(q) = {} /\ n < Keep
      \/ k = 1 /\ Fallen(q) = {q[1]} /\ n = Keep
  <2>1. CASE n < Keep
    <3>1. 1..(Len(q) - Keep) = {}
      BY <1>1, <2>1
    <3>2. Fallen(q) = {}
      BY <3>1 DEF Fallen
    <3> QED
      BY <2>1, <3>2, FS_EmptySet
  <2>2. CASE n = Keep
    <3>1. 1..(Len(q) - Keep) = {1}
      BY <1>1, <2>2
    <3>2. Fallen(q) = {q[1]}
      BY <3>1 DEF Fallen
    <3> QED
      BY <2>2, <3>2, FS_Singleton
  <2> QED
    BY <1>1, <2>1, <2>2
<1> HIDE DEF k
<1> DEFINE s == SubSeq(q, k + 1, n + 1)
<1>4. Rest(q) = s
  BY <1>1 DEF Rest, k
<1>5. /\ s \in Seq(S) /\ Len(s) = n + 1 - k
      /\ \A i \in 1..(n + 1 - k) : s[i] = q[k + i]
  <2>1. /\ k \in {0, 1} /\ k + 1 \in Int /\ n + 1 \in Int /\ n + 1 - k \in Nat
        /\ \A i \in (k + 1)..(n + 1) : i \in 1..(n + 1)
    BY <1>1, <1>3
  <2>2. \A i \in (k + 1)..(n + 1) : q[i] \in S
    BY <1>2, <2>1
  <2>3. s \in Seq(S) /\ Len(s) = IF k + 1 <= n + 1 THEN (n + 1) - (k + 1) + 1 ELSE 0
    <3>1. s \in Seq(S)
      BY <1>1, <2>1, <2>2, SubSeqProperties
    <3>2. Len(s) = IF k + 1 <= n + 1 THEN (n + 1) - (k + 1) + 1 ELSE 0
      BY <1>1, <2>1, <2>2, SubSeqProperties
    <3> QED
      BY <3>1, <3>2
  <2>4. \A i \in 1..((n + 1) - (k + 1) + 1) : s[i] = q[(k + 1) + i - 1]
    BY <1>1, <2>1, <2>2, SubSeqProperties
  <2>5. /\ (n + 1) - (k + 1) + 1 = n + 1 - k
        /\ (IF k + 1 <= n + 1 THEN (n + 1) - (k + 1) + 1 ELSE 0) = n + 1 - k
    BY <1>1, <2>1
  <2>6. \A i \in 1..(n + 1 - k) : (k + 1) + i - 1 = k + i
    BY <1>1, <2>1
  <2> HIDE DEF s
  <2> QED
    BY <2>3, <2>4, <2>5, <2>6
<1>6. DOMAIN s = 1..(n + 1 - k)
  <2> HIDE DEF s
  <2> QED
    BY <1>5, LenProperties
<1> HIDE DEF s
<1>7. Len(s) <= Keep
  BY <1>1, <1>3, <1>5
<1>8. Range(q) = Fallen(q) \cup Range(s)
  <2>1. CASE k = 0 /\ Fallen(q) = {}
    <3>1. n + 1 - k = n + 1 /\ \A i \in 1..(n + 1) : k + i = i
      BY <1>1, <2>1
    <3> QED
      BY <1>1, <1>5, <1>6, <2>1, <3>1 DEF Range
  <2>2. CASE k = 1 /\ Fallen(q) = {q[1]}
    <3>1. /\ n + 1 - k = n /\ 1 \in 1..(n + 1) /\ \A i \in 1..n : k + i = i + 1 /\ i + 1 \in 1..(n + 1)
          /\ \A i \in 1..(n + 1) : i = 1 \/ (i - 1 \in 1..n /\ (i - 1) + 1 = i)
      BY <1>1, <2>2
    <3>2. DOMAIN s = 1..n /\ \A i \in 1..n : s[i] = q[i + 1]
      BY <1>5, <1>6, <3>1
    <3>3. ASSUME NEW i \in DOMAIN q PROVE q[i] \in {q[1]} \cup Range(s)
      <4> SUFFICES ASSUME i # 1 PROVE q[i] \in Range(s)
        OBVIOUS
      <4> DEFINE j == i - 1
      <4>1. j \in 1..n /\ j + 1 = i
        BY <1>1, <3>1
      <4> HIDE DEF j
      <4>2. s[j] = q[i] /\ j \in DOMAIN s
        BY <3>2, <4>1
      <4> QED
        BY <4>2 DEF Range
    <3>4. \A i \in DOMAIN s : s[i] \in Range(q)
      BY <1>1, <3>1, <3>2 DEF Range
    <3>5. q[1] \in Range(q)
      BY <1>1, <3>1 DEF Range
    <3> QED
      BY <2>2, <3>3, <3>4, <3>5 DEF Range
  <2> QED
    BY <1>3, <2>1, <2>2
<1> QED
  BY <1>1, <1>4, <1>5, <1>7, <1>8 DEF q

(* The top frame of a shadow stack goes.                                   *)
Dead(q) == {n \in nodes : IsLocal(n) /\ n[2] \in Fallen(q)}

PopFrame(t) ==
    /\ stacks[t] # <<>>
    /\ stacks' = [stacks EXCEPT ![t] = Front(@)]
    /\ index' = RemoveFrame(index, Top(stacks[t]))
    /\ returned' = Rest(Append(returned, Top(stacks[t])))
    /\ nodes' = nodes \ Dead(Append(returned, Top(stacks[t])))
    /\ edges' = EdgesWithout(Dead(Append(returned, Top(stacks[t]))))
    /\ UNCHANGED nextFid

(* What is left of the stacks and of the queue.                            *)
PopKeeps(t) ==
    /\ Top(stacks[t]) \in OnStacks /\ OnStacks' = OnStacks \ {Top(stacks[t])}
    /\ \A u \in Threads : Range(stacks'[u]) = Range(stacks[u]) \ {Top(stacks[t])}
    /\ \A u \in Threads : u # t => stacks'[u] = stacks[u]
    /\ Fallen(Append(returned, Top(stacks[t]))) \cap OnStacks' = {}
    /\ Range(returned) \cup {Top(stacks[t])} =
          Fallen(Append(returned, Top(stacks[t]))) \cup Range(returned')

LEMMA PopFrameStacks ==
    ASSUME FrameInv, NEW t \in Threads, PopFrame(t)
    PROVE  FramesInv' /\ PopKeeps(t)
<1> DEFINE S == Nat \ {0}
           s == stacks[t]
           p == stacks'[t]
           top == Top(s)
           q == Append(returned, top)
           n == Len(s)
<1>1. /\ nextFid \in S /\ returned \in Seq(S) /\ stacks \in [Threads -> Seq(S)] /\ Len(returned) <= Keep
      /\ \A u \in Threads : \A i \in DOMAIN stacks[u] : stacks[u][i] < nextFid
      /\ \A u, w \in Threads : \A i \in DOMAIN stacks[u], j \in DOMAIN stacks[w] :
             stacks[u][i] = stacks[w][j] => u = w /\ i = j
      /\ \A k \in DOMAIN returned : returned[k] < nextFid /\ returned[k] \notin OnStacks
  BY DEF FrameInv, FramesInv
<1>2. s \in Seq(S) /\ s # <<>>
  BY <1>1 DEF PopFrame
<1>3. /\ Front(s) \in Seq(S) /\ n \in Nat /\ n >= 1
      /\ DOMAIN s = 1..n /\ DOMAIN Front(s) = 1..(n - 1)
      /\ \A i \in 1..(n - 1) : Front(s)[i] = s[i]
      /\ top = s[n] /\ top \in S
      /\ Range(Front(s)) \subseteq Range(s) /\ Range(s) = Range(Front(s)) \cup {top}
  <2> HIDE DEF S, s
  <2> QED
    BY <1>2, Popped
<1>4. p = Front(s) /\ stacks' \in [Threads -> Seq(S)] /\ \A u \in Threads : u # t => stacks'[u] = stacks[u]
  <2>1. stacks' = [stacks EXCEPT ![t] = Front(s)]
    BY DEF PopFrame
  <2> HIDE DEF s, S
  <2> QED
    BY <1>1, <1>3, <2>1
<1> HIDE DEF n, top
<1>5. 1..(n - 1) \subseteq 1..n /\ n \notin 1..(n - 1) /\ n \in 1..n
  BY <1>3
<1>6. ASSUME NEW u \in Threads, NEW i \in DOMAIN stacks'[u]
      PROVE  /\ i \in DOMAIN stacks[u] /\ stacks'[u][i] = stacks[u][i]
             /\ stacks[u][i] # top
  <2>1. CASE u = t
    <3>1. i \in DOMAIN s /\ p[i] = s[i] /\ n \in DOMAIN s /\ i # n
      BY <1>3, <1>4, <1>5, <2>1
    <3>2. s[i] # s[n]
      BY <1>1, <3>1
    <3> QED
      BY <1>3, <2>1, <3>1, <3>2
  <2>2. CASE u # t
    <3>1. stacks'[u] = stacks[u] /\ n \in DOMAIN s
      BY <1>3, <1>4, <1>5, <2>2
    <3>2. stacks[u][i] # s[n]
      BY <1>1, <2>2, <3>1
    <3> QED
      BY <1>3, <3>1, <3>2
  <2> QED
    BY <2>1, <2>2
<1>7. ASSUME NEW u \in Threads PROVE Range(stacks'[u]) = Range(stacks[u]) \ {top}
  <2>1. \A x \in Range(stacks'[u]) : x \in Range(stacks[u]) /\ x # top
    BY <1>6 DEF Range
  <2>2. \A x \in Range(stacks[u]) : x # top => x \in Range(stacks'[u])
    <3>1. CASE u = t
      BY <1>3, <1>4, <3>1
    <3>2. CASE u # t
      BY <1>4, <3>2
    <3> QED
      BY <3>1, <3>2
  <2> QED
    BY <2>1, <2>2
<1>8. top \in OnStacks /\ OnStacks' = OnStacks \ {top}
  <2>1. top \in Range(stacks[t])
    BY <1>3
  <2> QED
    BY <1>7, <2>1 DEF OnStacks
<1>9. \A x \in Range(returned) \cup {top} : x < nextFid /\ x \notin OnStacks'
  <2>1. top < nextFid
    BY <1>1, <1>3, <1>5
  <2> QED
    BY <1>1, <1>8, <2>1 DEF Range
<1>10. /\ Rest(q) \in Seq(S) /\ Len(Rest(q)) <= Keep
       /\ Range(returned) \cup {top} = Fallen(q) \cup Range(Rest(q))
  <2>1. returned \in Seq(S) /\ Len(returned) <= Keep /\ top \in S
    BY <1>1, <1>3
  <2> HIDE DEF S
  <2> QED
    BY <2>1, QueueSpec
<1>11. returned' = Rest(q) /\ nextFid' = nextFid
  BY DEF PopFrame, top
<1> HIDE DEF q
<1>12. \A k \in DOMAIN returned' : returned'[k] < nextFid' /\ returned'[k] \notin OnStacks'
  <2>1. \A k \in DOMAIN returned' : returned'[k] \in Range(returned')
    BY DEF Range
  <2> QED
    BY <1>9, <1>10, <1>11, <2>1
<1>13. \A u \in Threads : \A i \in DOMAIN stacks'[u] : stacks'[u][i] < nextFid'
  BY <1>1, <1>6, <1>11
<1>14. \A u, w \in Threads : \A i \in DOMAIN stacks'[u], j \in DOMAIN stacks'[w] :
          stacks'[u][i] = stacks'[w][j] => u = w /\ i = j
  <2> SUFFICES ASSUME NEW u \in Threads, NEW w \in Threads, NEW i \in DOMAIN stacks'[u], NEW j \in DOMAIN stacks'[w],
                      stacks'[u][i] = stacks'[w][j]
               PROVE  u = w /\ i = j
    OBVIOUS
  <2>1. i \in DOMAIN stacks[u] /\ j \in DOMAIN stacks[w] /\ stacks[u][i] = stacks[w][j]
    BY <1>6
  <2> QED
    BY <1>1, <2>1
<1>15. FramesInv'
  BY <1>1, <1>4, <1>10, <1>11, <1>12, <1>13, <1>14 DEF FramesInv
<1>16. Fallen(q) \cap OnStacks' = {}
  BY <1>9, <1>10
<1>17. PopKeeps(t)
  BY <1>4, <1>7, <1>8, <1>10, <1>11, <1>16 DEF PopKeeps, q, top
<1> QED
  BY <1>15, <1>17

LEMMA PopFrameIndex ==
    ASSUME FrameInv, NEW t \in Threads, PopFrame(t)
    PROVE  /\ IndexInv' /\ index'.statics = index.statics
           /\ DOMAIN index'.dynamics \subseteq DOMAIN index.dynamics
           /\ \A f \in DOMAIN index'.dynamics : index'.dynamics[f] = index.dynamics[f]
<1> DEFINE top == Top(stacks[t])
<1>1. WellFormed(index) /\ index' = RemoveFrame(index, top) /\ DOMAIN index.dynamics \subseteq OnStacks
  BY DEF FrameInv, IndexInv, PopFrame
<1>2. OnStacks' = OnStacks \ {top}
  BY PopFrameStacks DEF PopKeeps
<1> HIDE DEF top
<1>3. /\ WellFormed(index') /\ index'.statics = index.statics
      /\ DOMAIN index'.dynamics = DOMAIN index.dynamics \ {top}
      /\ \A f \in DOMAIN index'.dynamics : index'.dynamics[f] = index.dynamics[f]
  BY <1>1, RemoveSpec
<1> QED
  BY <1>1, <1>2, <1>3 DEF IndexInv

LEMMA StaticNotLocal ==
    ASSUME NEW ix, Shaped(ix), NEW iv \in Range(ix.statics)
    PROVE  ~IsLocal(iv.nid)
<1> DEFINE s == ix.statics
<1>1. s \in Seq(StaticIv)
  BY DEF Shaped
<1> HIDE DEF s
<1>2. DOMAIN s = 1..Len(s) /\ \A i \in 1..Len(s) : s[i] \in StaticIv
  BY <1>1, ElementOfSeq
<1>3. \A x \in Range(s) : x \in StaticIv
  BY <1>2 DEF Range
<1>4. iv.nid \in StaticNids
  BY <1>3 DEF StaticIv, s
<1> QED
  BY <1>4 DEF StaticNids, IsLocal, GlobalNode, FieldNode

LEMMA PopFrameNodes ==
    ASSUME FrameInv, NEW t \in Threads, PopFrame(t)
    PROVE  NodesInv'
<1> DEFINE top == Top(stacks[t])
           q == Append(returned, top)
           dead == Dead(q)
<1>1. PopKeeps(t)
  BY PopFrameStacks
<1>2. /\ IndexInv' /\ index'.statics = index.statics
      /\ DOMAIN index'.dynamics \subseteq DOMAIN index.dynamics
      /\ \A f \in DOMAIN index'.dynamics : index'.dynamics[f] = index.dynamics[f]
  BY PopFrameIndex
<1>3. NodesInv /\ nodes' = nodes \ dead /\ edges' = EdgesWithout(dead)
  BY DEF FrameInv, PopFrame
<1>4. /\ OnStacks' = OnStacks \ {top} /\ Fallen(q) \cap OnStacks' = {}
      /\ Range(returned) \cup {top} = Fallen(q) \cup Range(returned')
  BY <1>1 DEF PopKeeps
<1>5. \A n \in nodes' : n \in nodes /\ (IsLocal(n) => n[2] \notin Fallen(q))
  BY <1>3 DEF Dead
<1>6. \A n \in nodes : ~IsLocal(n) \/ n[2] \in OnStacks' => n \in nodes'
  BY <1>3, <1>4 DEF Dead
<1> HIDE DEF top, q, dead
<1>7. ASSUME NEW iv \in AllIvs(index') PROVE iv.nid \in nodes'
  <2>1. CASE iv \in Range(index'.statics)
    <3>1. iv \in AllIvs(index) /\ iv \in Range(index.statics)
      BY <1>2, <2>1 DEF AllIvs
    <3>2. ~IsLocal(iv.nid)
      BY <3>1, StaticNotLocal DEF FrameInv, IndexInv, WellFormed
    <3> QED
      BY <1>3, <1>6, <3>1, <3>2 DEF NodesInv
  <2>2. CASE \E f \in DOMAIN index'.dynamics : iv \in Range(index'.dynamics[f])
    <3>1. PICK f \in DOMAIN index'.dynamics : iv \in Range(index'.dynamics[f])
      BY <2>2
    <3>2. PICK li \in DOMAIN index'.dynamics[f] : iv = index'.dynamics[f][li]
      BY <3>1 DEF Range
    <3>3. iv.nid = LocalNode(f, li) /\ f \in OnStacks'
      BY <1>2, <3>1, <3>2 DEF IndexInv, WellFormed, DynamicsShaped, LocalIv
    <3>4. iv.nid[2] \in OnStacks'
      BY <3>3 DEF LocalNode
    <3>5. iv \in AllIvs(index)
      BY <1>2, <3>1 DEF AllIvs
    <3> QED
      BY <1>3, <1>6, <3>4, <3>5 DEF NodesInv
  <2> QED
    BY <2>1, <2>2 DEF AllIvs
<1>8. \A n \in nodes' : IsLocal(n) => n[2] \in OnStacks' \cup Range(returned')
  BY <1>3, <1>4, <1>5 DEF NodesInv
<1>9. \A n \in DOMAIN edges' : n \in nodes' /\ (edges'[n].dangling \/ edges'[n].target \in nodes')
  <2>1. \A n \in DOMAIN edges' :
           /\ n \in DOMAIN edges /\ n \notin dead /\ edges[n].target \notin dead /\ edges'[n] = edges[n]
    BY <1>3 DEF EdgesWithout
  <2>2. \A n \in DOMAIN edges : n \in nodes /\ (edges[n].dangling \/ edges[n].target \in nodes)
    BY <1>3 DEF NodesInv
  <2> QED
    BY <1>3, <2>1, <2>2
<1> QED
  BY <1>7, <1>8, <1>9 DEF NodesInv

LEMMA PopFrameParts ==
    ASSUME FrameInv, NEW t \in Threads, PopFrame(t)
    PROVE  StackInv'
<1>1. \A u \in Threads : Range(stacks'[u]) \subseteq Range(stacks[u])
  BY PopFrameStacks DEF PopKeeps
<1>2. /\ DOMAIN index'.dynamics \subseteq DOMAIN index.dynamics
      /\ \A f \in DOMAIN index'.dynamics : index'.dynamics[f] = index.dynamics[f]
  BY PopFrameIndex
<1>3. StackInv
  BY DEF FrameInv
<1> SUFFICES ASSUME NEW u \in Threads, NEW f \in Range(stacks'[u]) \cap DOMAIN index'.dynamics,
                    NEW li \in DOMAIN index'.dynamics[f]
             PROVE  InRange(index'.dynamics[f][li], StackBase[u], FrameSize * MaxDepth)
  BY DEF StackInv
<1>4. f \in Range(stacks[u]) \cap DOMAIN index.dynamics /\ index'.dynamics[f] = index.dynamics[f]
  BY <1>1, <1>2
<1> QED
  BY <1>3, <1>4 DEF StackInv

(* A thread that is in step stays so when it returns.                      *)
LEMMA PopFrameInStep ==
    ASSUME FrameInv, NEW t \in Threads, PopFrame(t),
           real[t] # <<>>, real' = [real EXCEPT ![t] = Front(@)],
           NEW u \in Threads, InStep(u), u = t => Top(real[t]) = Top(stacks[t])
    PROVE  InStep(u)'
<1>1. PopKeeps(t)
  BY PopFrameStacks
<1>2. /\ DOMAIN index'.dynamics \subseteq DOMAIN index.dynamics
      /\ \A f \in DOMAIN index'.dynamics : index'.dynamics[f] = index.dynamics[f]
  BY PopFrameIndex
<1>3. real \in [Threads -> Seq(Nat)]
  BY DEF FrameInv, StepInv
<1>4. CASE u # t
  <2>1. real'[u] = real[u] /\ stacks'[u] = stacks[u]
    BY <1>1, <1>3, <1>4 DEF PopKeeps
  <2> QED
    BY <1>2, <2>1 DEF InStep
<1>5. CASE u = t
  <2> DEFINE r == real[t]
             p == real'[t]
             n == Len(r)
             top == Top(stacks[t])
  <2>1. /\ n \in Nat /\ n >= 1 /\ DOMAIN r = 1..n /\ DOMAIN p = 1..(n - 1)
        /\ (\A i \in 1..(n - 1) : p[i] = r[i]) /\ r[n] = top
    <3>1. r \in Seq(Nat) /\ r # <<>> /\ p = Front(r) /\ Top(r) = top
      BY <1>3, <1>5
    <3> HIDE DEF r, p, top
    <3>2. /\ Len(r) \in Nat /\ Len(r) >= 1 /\ DOMAIN r = 1..Len(r) /\ DOMAIN Front(r) = 1..(Len(r) - 1)
          /\ (\A i \in 1..(Len(r) - 1) : Front(r)[i] = r[i]) /\ Top(r) = r[Len(r)]
      BY <3>1, Popped
    <3> QED
      BY <3>1, <3>2
  <2>2. Range(stacks'[t]) = Range(stacks[t]) \ {top} /\ top \in Range(stacks[t])
    <3>1. Range(stacks'[t]) = Range(stacks[t]) \ {top}
      BY <1>1 DEF PopKeeps
    <3>2. stacks[t] \in Seq(Nat \ {0}) /\ stacks[t] # <<>>
      BY DEF FrameInv, FramesInv, PopFrame
    <3>3. top \in Range(stacks[t])
      <4> DEFINE S == Nat \ {0}
                 s == stacks[t]
      <4>1. s \in Seq(S) /\ s # <<>>
        BY <3>2
      <4> HIDE DEF S, s
      <4>2. Range(s) = Range(Front(s)) \cup {Top(s)}
        BY <4>1, Popped
      <4> QED
        BY <4>2 DEF s
    <3> QED
      BY <3>1, <3>3
  <2>3. InStep(t)
    BY <1>5
  <2> HIDE DEF n, top
  <2>4. n \in 1..n /\ \A i \in 1..n : i \in 1..(n - 1) \/ i = n
    BY <2>1
  <2>5. 1..(n - 1) \subseteq 1..n /\ n \notin 1..(n - 1)
    BY <2>1
  <2>6. top # 0
    <3>1. \A k \in DOMAIN stacks[t] : stacks[t][k] # 0
      <4>1. stacks[t] \in Seq(Nat \ {0})
        BY DEF FrameInv, FramesInv
      <4> DEFINE s == stacks[t]
                 S == Nat \ {0}
      <4>2. s \in Seq(S)
        BY <4>1
      <4> HIDE DEF s, S
      <4>3. \A k \in DOMAIN s : s[k] \in S
        BY <4>2, ElementOfSeq
      <4> QED
        BY <4>3 DEF s, S
    <3> QED
      BY <2>2, <3>1 DEF Range
  <2> HIDE DEF r, p
  <2>7. \A i, j \in DOMAIN r : r[i] # 0 /\ r[i] = r[j] => i = j
    BY <2>3 DEF InStep, r
  <2>8. \A i \in DOMAIN p : i \in DOMAIN r /\ p[i] = r[i] /\ p[i] # top
    BY <2>1, <2>4, <2>5, <2>6, <2>7
  <2>9. \A i \in DOMAIN r : r[i] # top => i \in DOMAIN p /\ p[i] = r[i]
    BY <2>1, <2>4
  <2>10. \A i \in DOMAIN p : p[i] # 0 => p[i] \in Range(stacks'[t])
    BY <2>2, <2>3, <2>8 DEF InStep, r
  <2>11. \A f \in Range(stacks'[t]) : \E i \in DOMAIN p : p[i] = f
    BY <2>2, <2>3, <2>9 DEF InStep, r
  <2>12. \A i, j \in DOMAIN p : p[i] # 0 /\ p[i] = p[j] => i = j
    BY <2>7, <2>8
  <2>13. \A i \in DOMAIN p : p[i] \in DOMAIN index'.dynamics =>
             \A li \in DOMAIN index'.dynamics[p[i]] :
                 InRange(index'.dynamics[p[i]][li], StackBase[t] + FrameSize * (i - 1), FrameSize)
    BY <1>2, <2>3, <2>8 DEF InStep, r
  <2> QED
    BY <1>5, <2>10, <2>11, <2>12, <2>13 DEF InStep, p
<1> QED
  BY <1>4, <1>5

(* The target's stack changes by itself.                                   *)
LEMMA OtherReal ==
    ASSUME FrameInv, NEW t \in Threads, NEW p \in Seq(Nat), Len(p) <= MaxDepth,
           real' = [real EXCEPT ![t] = p], skewed \subseteq skewed',
           t \in skewed' \/ InStep(t)',
           UNCHANGED <<stacks, nextFid, returned, index, nodes, edges>>
    PROVE  FrameInv'
<1>1. OnStacks' = OnStacks
  BY DEF OnStacks
<1>2. FramesInv' /\ IndexInv' /\ NodesInv' /\ StackInv'
  BY <1>1 DEF FrameInv, FramesInv, IndexInv, NodesInv, StackInv
<1>3. /\ real' \in [Threads -> Seq(Nat)] /\ real'[t] = p
      /\ \A u \in Threads : u # t => real'[u] = real[u]
  BY DEF FrameInv, StepInv
<1>4. \A u \in Threads : Len(real'[u]) <= MaxDepth
  BY <1>3 DEF FrameInv, StepInv
<1>5. ASSUME NEW u \in Threads \ skewed' PROVE InStep(u)'
  <2>1. CASE u = t
    BY <2>1
  <2>2. CASE u # t
    <3>1. InStep(u) /\ real'[u] = real[u]
      BY <1>3, <2>2 DEF FrameInv, StepInv
    <3> QED
      BY <3>1 DEF InStep
  <2> QED
    BY <2>1, <2>2
<1> QED
  BY <1>2, <1>3, <1>4, <1>5 DEF FrameInv, StepInv

LEMMA ReturnStep ==
    ASSUME FrameInv, NEW t \in Threads, Return(t)
    PROVE  FrameInv'
<1> DEFINE r == real[t]
           p == Front(r)
           n == Len(r)
<1>1. real' = [real EXCEPT ![t] = p] /\ r # <<>> /\ real \in [Threads -> Seq(Nat)] /\ UNCHANGED nextFid
  BY DEF Return, FrameInv, StepInv
<1>2. /\ p \in Seq(Nat) /\ n \in Nat /\ n >= 1 /\ Len(p) = n - 1 /\ n <= MaxDepth
      /\ DOMAIN r = 1..n /\ DOMAIN p = 1..(n - 1)
      /\ \A i \in 1..(n - 1) : p[i] = r[i]
  <2>1. r \in Seq(Nat) /\ n <= MaxDepth
    BY <1>1 DEF FrameInv, StepInv
  <2> HIDE DEF r
  <2> QED
    BY <1>1, <2>1, Popped
<1> HIDE DEF n
<1>3. Len(p) <= MaxDepth /\ 1..(n - 1) \subseteq 1..n
  BY <1>2, FramesAssumption
<1>4. real'[t] = p /\ \A u \in Threads : u # t => real'[u] = real[u]
  BY <1>1
<1>5. CASE UNCHANGED <<stacks, index, returned, nodes, edges>> /\ skewed' = skewed \cup {t}
  <2> HIDE DEF p
  <2> QED
    BY <1>1, <1>2, <1>3, <1>5, OtherReal
<1>6. CASE stacks[t] = <<>> /\ PopReturn(t) /\ skewed' = skewed
  <2>1. UNCHANGED <<stacks, index, returned, nodes, edges>>
    BY <1>6 DEF PopReturn
  <2>2. t \in skewed \/ InStep(t)
    BY DEF FrameInv, StepInv
  <2>3. Range(stacks[t]) = {}
    BY <1>6 DEF Range
  <2> HIDE DEF p
  <2>4. \A i \in DOMAIN p : i \in DOMAIN r /\ p[i] = r[i]
    BY <1>2, <1>3
  <2>5. InStep(t) => InStep(t)'
    BY <1>4, <2>1, <2>3, <2>4 DEF InStep
  <2> QED
    BY <1>1, <1>2, <1>3, <1>6, <2>1, <2>2, <2>5, OtherReal
<1>7. CASE /\ stacks[t] # <<>> /\ PopReturn(t)
           /\ skewed' = IF stacks[t] # <<>> /\ Top(real[t]) # Top(stacks[t]) THEN skewed \cup {t} ELSE skewed
  <2>1. PopFrame(t)
    BY <1>1, <1>7 DEF PopReturn, PopFrame, Dead, Fallen, Rest
  <2>2. FramesInv' /\ IndexInv' /\ NodesInv' /\ StackInv'
    BY <2>1, PopFrameStacks, PopFrameIndex, PopFrameNodes, PopFrameParts
  <2>3. ASSUME NEW u \in Threads \ skewed' PROVE InStep(u)'
    <3>1. InStep(u) /\ (u = t => Top(real[t]) = Top(stacks[t]))
      BY <1>7 DEF FrameInv, StepInv
    <3> QED
      BY <1>1, <2>1, <3>1, PopFrameInStep
  <2>4. real' \in [Threads -> Seq(Nat)]
    BY <1>1, <1>2
  <2>5. \A u \in Threads : Len(real'[u]) <= MaxDepth
    BY <1>3, <1>4 DEF FrameInv, StepInv
  <2> QED
    BY <2>2, <2>3, <2>4, <2>5 DEF FrameInv, StepInv
<1> QED
  BY <1>5, <1>6, <1>7 DEF Return

LEMMA LongJmpStep ==
    ASSUME FrameInv, NEW t \in Threads, LongJmp(t)
    PROVE  FrameInv'
<1> DEFINE r == real[t]
<1>1. PICK n \in 1..(Len(r) - 1) : real' = [real EXCEPT ![t] = SubSeq(r, 1, n)]
  BY DEF LongJmp
<1>2. r \in Seq(Nat) /\ Len(r) \in Nat /\ Len(r) <= MaxDepth /\ MaxDepth \in Nat
  BY LenProperties, FramesAssumption DEF FrameInv, StepInv
<1>3. SubSeq(r, 1, n) \in Seq(Nat) /\ Len(SubSeq(r, 1, n)) <= MaxDepth
  <2> DEFINE m == Len(r)
  <2>1. n \in Nat /\ n <= m /\ n >= 1 /\ 1..n \subseteq 1..m
    <3>1. m \in Nat /\ n \in 1..(m - 1)
      BY <1>2
    <3> HIDE DEF m
    <3> QED
      BY <3>1
  <2> HIDE DEF r
  <2>2. \A i \in 1..n : r[i] \in Nat
    BY <1>2, <2>1, ElementOfSeq
  <2>3. SubSeq(r, 1, n) \in Seq(Nat)
    BY <1>2, <2>1, <2>2, SubSeqProperties
  <2>4. Len(SubSeq(r, 1, n)) = n
    BY <1>2, <2>1, <2>2, SubSeqProperties
  <2> QED
    BY <1>2, <2>1, <2>3, <2>4
<1> DEFINE p == SubSeq(r, 1, n)
<1>4. real' = [real EXCEPT ![t] = p] /\ p \in Seq(Nat) /\ Len(p) <= MaxDepth
  BY <1>1, <1>3
<1> HIDE DEF p
<1> QED
  BY <1>4, OtherReal DEF LongJmp

LEMMA FramesStep == FrameInv /\ [Next]_vars => FrameInv'
<1> SUFFICES ASSUME FrameInv, [Next]_vars PROVE FrameInv'
  OBVIOUS
<1>1. ASSUME NEW t \in Threads, Return(t) PROVE FrameInv'
  BY <1>1, ReturnStep
<1>2. ASSUME NEW t \in Threads, LongJmp(t) PROVE FrameInv'
  BY <1>2, LongJmpStep
<1>3. ASSUME NEW t \in Threads, NEW fn \in DOMAIN Funcs, Call(t, fn) PROVE FrameInv'
  BY <1>3, CallStep
<1>4. ASSUME NEW a \in Probes, CacheMiss(a) PROVE FrameInv'
  BY <1>4, CacheMissStep
<1>5. ASSUME NEW a \in Probes, NEW val \in PtrValues, Write(a, val) PROVE FrameInv'
  BY <1>5, WriteStep
<1>6. CASE ModuleLoad
  BY <1>6, ModuleLoadStep
<1>7. CASE LibGlobalsReady
  BY <1>7, LibGlobalsReadyStep
<1>8. CASE UNCHANGED vars
  <2>1. OnStacks' = OnStacks
    BY <1>8 DEF OnStacks, vars
  <2>2. FramesInv' /\ IndexInv' /\ NodesInv' /\ StackInv'
    BY <1>8, <2>1 DEF vars, FrameInv, FramesInv, IndexInv, NodesInv, StackInv
  <2>3. StepInv'
    BY <1>8 DEF vars, FrameInv, StepInv, InStep
  <2> QED
    BY <2>2, <2>3 DEF FrameInv
<1> QED
  BY <1>1, <1>2, <1>3, <1>4, <1>5, <1>6, <1>7, <1>8 DEF Next

-----------------------------------------------------------------------------
(* The theorems.                                                           *)

(* Between any two events of any threads, whatever events are lost: the    *)
(* shadow stacks share no frame, the index is well formed and holds locals *)
(* of frames on a stack alone, in the part of memory that is that stack's, *)
(* everything it holds has a node, and a thread in step has the frames of  *)
(* its shadow stack on its stack.                                          *)
THEOREM FramesInvariant == Spec => []FrameInv
<1>1. Init => FrameInv
  BY FramesInit
<1>2. FrameInv /\ [Next]_vars => FrameInv'
  BY FramesStep
<1> QED
  BY <1>1, <1>2, PTL DEF Spec

LEMMA FrameIndexConsistent == FrameInv => IndexConsistent
<1> SUFFICES ASSUME FrameInv PROVE IndexConsistent
  OBVIOUS
<1>1. ASSUME NEW s \in DOMAIN index.mru
      PROVE  \E iv \in Resolved(index, index.mru[s]) : iv.lo = index.mru[s].lo /\ iv.hi = index.mru[s].hi
  <2> DEFINE m == index.mru
             S == StandIns(index)
  <2>1. m \in Seq(S)
    BY DEF FrameInv, IndexInv, WellFormed, MruSound
  <2> HIDE DEF m, S
  <2>2. \A k \in DOMAIN m : m[k] \in S
    BY <2>1, ElementOfSeq
  <2>3. index.mru[s] \in StandIns(index)
    BY <2>2 DEF m, S
  <2> QED
    BY <2>3 DEF StandIns, Stands
<1>2. \A iv \in Range(index.statics) \cup UNION {Range(index.dynamics[f]) : f \in DOMAIN index.dynamics} :
          iv.nid \in nodes
  BY DEF FrameInv, NodesInv, AllIvs
<1>3. /\ \A n \in DOMAIN edges : n \in nodes /\ (edges[n].dangling \/ edges[n].target \in nodes)
      /\ \A n \in nodes : IsLocal(n) => n[2] \in OnStacks \cup Range(returned)
  BY DEF FrameInv, NodesInv
<1>4. DOMAIN index.dynamics \subseteq OnStacks
  BY DEF FrameInv, IndexInv
<1>5. Len(returned) <= Keep /\ OnStacks \cap Range(returned) = {}
  BY DEF FrameInv, FramesInv, Range
<1> QED
  BY <1>1, <1>2, <1>3, <1>4, <1>5 DEF IndexConsistent

(* Of two parts of a stack only one holds an address.                      *)
LEMMA OnePart ==
    ASSUME NEW b \in Nat, NEW fs \in Nat, NEW i \in Nat, NEW j \in Nat, NEW a \in Nat,
           b + fs * i <= a, a < b + fs * i + fs, b + fs * j <= a, a < b + fs * j + fs
    PROVE  i = j
<1>1. ASSUME NEW k \in Nat, NEW l \in Nat, k < l PROVE fs * k + fs <= fs * l
  BY <1>1, InStack
<1>2. fs * i \in Nat /\ fs * j \in Nat
  OBVIOUS
<1>3. CASE i < j
  BY <1>1, <1>2, <1>3
<1>4. CASE j < i
  BY <1>1, <1>2, <1>4
<1> QED
  BY <1>3, <1>4

LEMMA FrameLocalsAccurate == FrameInv => LocalsAccurate
<1> SUFFICES ASSUME FrameInv, NEW t \in Threads \ skewed, NEW i \in DOMAIN real[t], real[t][i] # 0
             PROVE  /\ real[t][i] \in Range(stacks[t])
                    /\ real[t][i] \in DOMAIN index.dynamics =>
                          \A iv \in Range(index.dynamics[real[t][i]]) : \A a \in iv.lo..(iv.hi - 1) :
                              \A r \in Lookup(index, a) :
                                  \E v \in r.var : IsLocal(v.nid) /\ v.nid[2] = real[t][i]
  BY DEF LocalsAccurate
<1> DEFINE f == real[t][i]
<1>1. InStep(t)
  BY DEF FrameInv, StepInv
<1>2. f \in Range(stacks[t])
  BY <1>1 DEF InStep
<1> SUFFICES ASSUME f \in DOMAIN index.dynamics, NEW iv \in Range(index.dynamics[f]),
                    NEW a \in iv.lo..(iv.hi - 1), NEW r \in Lookup(index, a)
             PROVE  \E v \in r.var : IsLocal(v.nid) /\ v.nid[2] = f
  BY <1>2
<1> HIDE DEF f
<1>3. PICK li \in DOMAIN index.dynamics[f] : iv = index.dynamics[f][li]
  BY DEF Range
<1>4. WellFormed(index) /\ DOMAIN index.dynamics \subseteq OnStacks
  BY DEF FrameInv, IndexInv
<1>5. iv.lo \in Nat /\ iv.hi \in Nat
  BY <1>3, <1>4 DEF WellFormed, DynamicsShaped, LocalIv
<1>6. a \in Nat /\ Covers(iv, a)
  <2> DEFINE l == iv.lo
             h == iv.hi
  <2>1. l \in Nat /\ h \in Nat /\ a \in l..(h - 1)
    BY <1>5
  <2> HIDE DEF l, h
  <2>2. a \in Nat /\ l <= a /\ a < h
    BY <2>1
  <2> QED
    BY <2>2 DEF Covers, l, h
<1>7. PICK v \in r.var : TRUE
  BY <1>3, <1>4, <1>6, LookupFinds
<1>8. v \in AllIvs(index) /\ Covers(v, a)
  BY <1>4, LookupResult DEF Result
<1> DEFINE z == FrameSize * MaxDepth
           b == StackBase[t]
<1>9. z \in Nat /\ FrameSize \in Nat /\ \A u \in Threads : StackBase[u] \in Nat
  BY FramesAssumption
<1>10. b <= a /\ a < b + z
  <2>1. InRange(iv, b, z)
    BY <1>2, <1>3 DEF FrameInv, StackInv
  <2> DEFINE l == iv.lo
             h == iv.hi
  <2>2. l \in Nat /\ h \in Nat /\ b <= l /\ h <= b + z /\ l <= a /\ a < h /\ b \in Nat
    BY <1>5, <1>6, <1>9, <2>1 DEF InRange, Covers
  <2> HIDE DEF l, h, b, z
  <2> QED
    BY <1>6, <1>9, <2>2
<1>11. CASE v \in Range(index.statics)
  <2>1. OffStacks(v)
    BY <1>4, <1>11 DEF WellFormed, StaticsOff
  <2>2. v.lo \in Nat /\ v.hi \in Nat
    <3> DEFINE s == index.statics
    <3>1. s \in Seq(StaticIv)
      BY <1>4 DEF WellFormed, Shaped
    <3> HIDE DEF s
    <3>2. \A x \in Range(s) : x \in StaticIv
      BY <3>1, ElementOfSeq DEF Range
    <3>3. v \in StaticIv
      BY <1>11, <3>2 DEF s
    <3> QED
      BY <3>3 DEF StaticIv
  <2> DEFINE l == v.lo
             h == v.hi
  <2>3. a \in l..(h - 1)
    <3>1. l \in Nat /\ h \in Nat /\ l <= a /\ a < h
      BY <1>8, <2>2 DEF Covers
    <3> HIDE DEF l, h
    <3> QED
      BY <1>6, <3>1
  <2>4. ~OnStack(t, a)
    BY <2>1, <2>3 DEF OffStacks
  <2> QED
    BY <1>10, <2>4 DEF OnStack
<1>12. CASE \E g \in DOMAIN index.dynamics : v \in Range(index.dynamics[g])
  <2>1. PICK g \in DOMAIN index.dynamics : v \in Range(index.dynamics[g])
    BY <1>12
  <2>2. PICK lj \in DOMAIN index.dynamics[g] : v = index.dynamics[g][lj]
    BY <2>1 DEF Range
  <2>3. v.lo \in Nat /\ v.hi \in Nat /\ v.nid = LocalNode(g, lj)
    BY <1>4, <2>2 DEF WellFormed, DynamicsShaped, LocalIv
  <2>4. PICK u \in Threads : g \in Range(stacks[u])
    BY <1>4, <2>1 DEF OnStacks
  <2> DEFINE l == v.lo
             h == v.hi
  <2>5. l \in Nat /\ h \in Nat /\ l <= a /\ a < h
    BY <1>8, <2>3 DEF Covers
  <2>6. u = t
    <3> DEFINE c == StackBase[u]
    <3>1. InRange(v, c, z)
      BY <2>2, <2>4 DEF FrameInv, StackInv
    <3>2. c \in Nat /\ b \in Nat /\ c <= l /\ h <= c + z
      BY <1>9, <3>1 DEF InRange
    <3>3. u # t => b + z <= c \/ c + z <= b
      BY StacksAssumption
    <3> HIDE DEF b, c, l, h, z
    <3> QED
      BY <1>6, <1>9, <1>10, <2>5, <3>2, <3>3
  <2>7. PICK j \in DOMAIN real[t] : real[t][j] = g
    BY <1>1, <2>4, <2>6 DEF InStep
  <2>8. InRange(iv, b + FrameSize * (i - 1), FrameSize) /\ InRange(v, b + FrameSize * (j - 1), FrameSize)
    BY <1>1, <1>3, <2>2, <2>7 DEF InStep, f
  <2>9. i - 1 \in Nat /\ j - 1 \in Nat /\ i \in Nat /\ j \in Nat
    <3>1. DOMAIN real[t] = 1..Len(real[t]) /\ Len(real[t]) \in Nat
      BY LenProperties DEF FrameInv, StepInv
    <3> QED
      BY <3>1
  <2> DEFINE m == i - 1
             n == j - 1
             x == iv.lo
             y == iv.hi
  <2>10. /\ b + FrameSize * m <= x /\ y <= b + FrameSize * m + FrameSize
         /\ b + FrameSize * n <= l /\ h <= b + FrameSize * n + FrameSize
         /\ x \in Nat /\ y \in Nat /\ x <= a /\ a < y /\ m \in Nat /\ n \in Nat /\ b \in Nat
    BY <1>5, <1>6, <1>9, <2>8, <2>9 DEF InRange, Covers
  <2> HIDE DEF b, l, h, m, n, x, y
  <2>11. m = n
    <3> DEFINE p == FrameSize * m
               q == FrameSize * n
    <3>1. p \in Nat /\ q \in Nat
      BY <1>9, <2>10
    <3>2. b + p <= x /\ y <= b + p + FrameSize /\ b + q <= l /\ h <= b + q + FrameSize
      BY <2>10
    <3> HIDE DEF p, q
    <3>3. b + p <= a /\ a < b + p + FrameSize /\ b + q <= a /\ a < b + q + FrameSize
      BY <1>6, <1>9, <2>5, <2>10, <3>1, <3>2
    <3>4. b + FrameSize * m <= a /\ a < b + FrameSize * m + FrameSize
          /\ b + FrameSize * n <= a /\ a < b + FrameSize * n + FrameSize
      BY <3>3 DEF p, q
    <3> QED
      BY <1>6, <1>9, <2>10, <3>4, OnePart
  <2>12. g = f
    <3>1. i = j
      BY <2>9, <2>11 DEF m, n
    <3> QED
      BY <2>7, <3>1 DEF f
  <2> QED
    BY <1>7, <2>3, <2>12 DEF IsLocal, LocalNode
<1> QED
  BY <1>8, <1>11, <1>12 DEF AllIvs

(* The MRU cache, the index, the nodes, the pointer edges and the queue of *)
(* returned frames never disagree about a frame, though five places of     *)
(* index.rs and two of world.rs take it away one piece at a time.          *)
THEOREM IndexAlwaysConsistent == Spec => []IndexConsistent
<1>1. Spec => []FrameInv
  BY FramesInvariant
<1>2. FrameInv => IndexConsistent
  BY FrameIndexConsistent
<1> QED
  BY <1>1, <1>2, PTL

(* A write into a live frame of a thread that is in step is attributed to  *)
(* that frame, whatever the MRU cache holds and other threads lost.        *)
THEOREM LocalsAlwaysAccurate == Spec => []LocalsAccurate
<1>1. Spec => []FrameInv
  BY FramesInvariant
<1>2. FrameInv => LocalsAccurate
  BY FrameLocalsAccurate
<1> QED
  BY <1>1, <1>2, PTL

=============================================================================
