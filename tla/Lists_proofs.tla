--------------------------- MODULE Lists_proofs ---------------------------
(***************************************************************************)
(* Induction over numbers, and facts about sequences that are put together *)
(* from parts (FlattenSeq), for the modules that prove about such          *)
(* sequences.                                                              *)
(*                                                                         *)
(* The library's induction theorems take an operator, which no prover here *)
(* can instantiate; NatByInduction takes a set.                            *)
(***************************************************************************)
EXTENDS SequencesExt, SequenceTheorems, WellFoundedInduction, TLAPS

-----------------------------------------------------------------------------
(* Induction over the natural numbers, with sets in place of predicates.   *)

(* A set of natural numbers that is not empty has a least element.         *)
LEMMA LeastElement ==
    ASSUME NEW T, T \subseteq Nat, T # {}
    PROVE  \E m \in T : \A n \in T : m <= n
<1> DEFINE R == {ss \in Nat \X Nat : ss[1] < ss[2]}
<1>1. IsWellFoundedOn(R, Nat)
    BY NatLessThanWellFounded DEF OpToRel
<1> HIDE DEF R
<1>2. PICK m \in T : \A n \in T : ~ (<<n, m>> \in R)
    BY <1>1, WFMin
<1>3. \A n \in T : ~(n < m)
    BY <1>2 DEF R
<1> QED
    BY <1>3

(* A set that has 0 and the successors of its elements has every number.   *)
LEMMA NatByInduction ==
    ASSUME NEW T, 0 \in T, \A n \in Nat : n \in T => n + 1 \in T
    PROVE  \A n \in Nat : n \in T
<1> DEFINE F == {n \in Nat : n \notin T}
<1>1. SUFFICES ASSUME F # {} PROVE FALSE
    OBVIOUS
<1>2. PICK m \in F : \A n \in F : m <= n
  <2> F \subseteq Nat
    OBVIOUS
  <2> HIDE DEF F
  <2> QED
    BY <1>1, LeastElement
<1>3. m # 0 /\ m - 1 \in Nat /\ m - 1 \notin F
    BY <1>2
<1>4. m - 1 \in T /\ (m - 1) + 1 = m
    BY <1>2, <1>3
<1> QED
    BY <1>2, <1>3, <1>4

-----------------------------------------------------------------------------
(* Sequences put together from parts: FlattenSeq.                          *)

Cat(c, n) == FlattenSeq([i \in 1..n |-> c[i]])

(* The function FlattenSeq is defined by.                                  *)
Flat(g, c, n) == g = [i \in 1..n |-> IF i = 1 THEN c[i] ELSE g[i - 1] \o c[i]]

LEMMA FlatExists ==
    ASSUME NEW c, NEW n \in Nat
    PROVE  \E g : Flat(g, c, n)
<1> DEFINE T == {k \in Nat : \E g : Flat(g, c, k)}
<1>1. 0 \in T
  <2> DEFINE g == [i \in 1..0 |-> <<>>]
  <2>1. g = [i \in 1..0 |-> IF i = 1 THEN c[i] ELSE g[i - 1] \o c[i]]
    OBVIOUS
  <2>2. Flat(g, c, 0)
    BY <2>1 DEF Flat
  <2> QED
    BY <2>2
<1>2. ASSUME NEW k \in Nat, k \in T PROVE k + 1 \in T
  <2>1. PICK f : Flat(f, c, k)
    BY <1>2
  <2> DEFINE g == [i \in 1..(k + 1) |-> IF i <= k THEN f[i] ELSE IF i = 1 THEN c[i] ELSE f[i - 1] \o c[i]]
             h == [i \in 1..(k + 1) |-> IF i = 1 THEN c[i] ELSE g[i - 1] \o c[i]]
  <2>2. ASSUME NEW i \in 1..(k + 1) PROVE g[i] = h[i]
    <3>1. CASE i = 1
      <4>1. i <= k => f[i] = c[i]
        BY <2>1, <3>1 DEF Flat
      <4> QED
        BY <3>1, <4>1
    <3>2. CASE i # 1 /\ i <= k
      <4>1. i - 1 \in 1..(k + 1) /\ i - 1 <= k /\ i \in 1..k
        BY <3>2
      <4>2. f[i] = f[i - 1] \o c[i]
        BY <2>1, <3>2, <4>1 DEF Flat
      <4> QED
        BY <3>2, <4>1, <4>2
    <3>3. CASE i # 1 /\ ~(i <= k)
      <4>1. i - 1 \in 1..(k + 1) /\ i - 1 <= k
        BY <3>3
      <4> QED
        BY <3>3, <4>1
    <3> QED
      BY <3>1, <3>2, <3>3
  <2>3. DOMAIN g = 1..(k + 1) /\ DOMAIN h = 1..(k + 1) /\ g = [i \in DOMAIN g |-> g[i]] /\ h = [i \in DOMAIN h |-> h[i]]
    OBVIOUS
  <2>4. g = h
    <3> HIDE DEF g, h
    <3> QED
      BY <2>2, <2>3
  <2>5. Flat(g, c, k + 1)
    BY <2>4 DEF Flat
  <2> QED
    BY <2>5
<1>3. n \in T
  <2> HIDE DEF T
  <2> QED
    BY <1>1, <1>2, NatByInduction
<1> QED
  BY <1>3

Agree(f, g, n) == \A i \in 1..n : f[i] = g[i]

(* What FlattenSeq gives for the first n parts does not depend on more.    *)
LEMMA FlatPrefix ==
    ASSUME NEW c, NEW n \in Nat, NEW m \in Nat, NEW f, NEW g, Flat(f, c, n), Flat(g, c, m), n <= m
    PROVE  Agree(f, g, n)
<1> DEFINE T == {k \in Nat : k \in 1..n => f[k] = g[k]}
<1>1. 0 \in T
  OBVIOUS
<1>2. ASSUME NEW k \in Nat, k \in T PROVE k + 1 \in T
  <2> SUFFICES ASSUME k + 1 \in 1..n PROVE f[k + 1] = g[k + 1]
    OBVIOUS
  <2> DEFINE i == k + 1
  <2>1. i \in 1..n /\ i \in 1..m /\ i - 1 = k
    OBVIOUS
  <2>2. k \in 1..n \/ i = 1
    OBVIOUS
  <2> HIDE DEF i
  <2>3. f[i] = (IF i = 1 THEN c[i] ELSE f[k] \o c[i]) /\ g[i] = (IF i = 1 THEN c[i] ELSE g[k] \o c[i])
    BY <2>1 DEF Flat
  <2>4. f[i] = g[i]
    BY <1>2, <2>2, <2>3
  <2> QED
    BY <2>4 DEF i
<1>3. \A k \in Nat : k \in T
  <2> HIDE DEF T
  <2> QED
    BY <1>1, <1>2, NatByInduction
<1> QED
  BY <1>3 DEF Agree

LEMMA CatIsFlat ==
    ASSUME NEW c, NEW n \in Nat
    PROVE  /\ n = 0 => Cat(c, n) = <<>>
           /\ n # 0 => \E g : Flat(g, c, n) /\ Cat(c, n) = g[n]
<1> DEFINE s == [i \in 1..n |-> c[i]]
<1>1. Len(s) = n /\ \A i \in 1..n : s[i] = c[i]
  OBVIOUS
<1>2. CASE n = 0
  <2>1. s = <<>>
    BY <1>2
  <2>2. Cat(c, n) = s
    BY <1>1, <1>2 DEF Cat, FlattenSeq
  <2> QED
    BY <1>2, <2>1, <2>2
<1>3. CASE n # 0
  <2> DEFINE Def(g) == g = [i \in 1..Len(s) |-> IF i = 1 THEN s[i] ELSE g[i - 1] \o s[i]]
  <2>1. FlattenSeq(s) = (CHOOSE g : Def(g))[Len(s)]
    <3> HIDE DEF s
    <3> QED
      BY <1>1, <1>3 DEF FlattenSeq
  <2>2. \A g : Def(g) <=> Flat(g, c, n)
    <3> HIDE DEF s
    <3> QED
      BY <1>1 DEF Flat
  <2>5. PICK f : Flat(f, c, n)
    BY FlatExists
  <2> HIDE DEF Def
  <2>3. \E g : Def(g)
    BY <2>2, <2>5
  <2>4. Def(CHOOSE g : Def(g))
    BY <2>3
  <2> QED
    BY <1>1, <1>3, <2>1, <2>2, <2>4 DEF Cat
<1> QED
  BY <1>2, <1>3

Parts(c, n, S) == \A i \in 1..n : c[i] \in Seq(S)

CatLaws(c, n, S) ==
    /\ Cat(c, 0) = <<>>
    /\ \A k \in 0..n : Cat(c, k) \in Seq(S)
    /\ \A k \in 0..(n - 1) : Cat(c, k + 1) = Cat(c, k) \o c[k + 1]

LEMMA CatStep ==
    ASSUME NEW S, NEW n \in Nat, NEW c, Parts(c, n, S)
    PROVE  CatLaws(c, n, S)
<1>1. Cat(c, 0) = <<>>
  BY CatIsFlat
<1>2. ASSUME NEW k \in 0..(n - 1)
      PROVE  Cat(c, k + 1) = IF k = 0 THEN c[k + 1] ELSE Cat(c, k) \o c[k + 1]
  <2> DEFINE l == k + 1
  <2>1. l \in Nat /\ l # 0 /\ k \in Nat /\ l - 1 = k /\ l \in 1..l /\ (l = 1 <=> k = 0) /\ k <= l
    OBVIOUS
  <2> HIDE DEF l
  <2>2. PICK g : Flat(g, c, l) /\ Cat(c, l) = g[l]
    BY <2>1, CatIsFlat
  <2>3. g[l] = IF k = 0 THEN c[l] ELSE g[k] \o c[l]
    BY <2>1, <2>2 DEF Flat
  <2>4. ASSUME k # 0 PROVE Cat(c, k) = g[k]
    <3>1. PICK f : Flat(f, c, k) /\ Cat(c, k) = f[k]
      BY <2>1, <2>4, CatIsFlat
    <3>4. k \in Nat /\ l \in Nat /\ k <= l /\ Flat(f, c, k) /\ Flat(g, c, l)
      BY <2>1, <2>2, <3>1
    <3>2. Agree(f, g, k)
      BY <3>4, FlatPrefix
    <3>3. k \in 1..k
      BY <2>1, <2>4
    <3> QED
      BY <3>1, <3>2, <3>3 DEF Agree
  <2> QED
    BY <2>2, <2>3, <2>4 DEF l
<1>3. ASSUME NEW k \in 0..(n - 1), Cat(c, k) \in Seq(S)
      PROVE  Cat(c, k + 1) = Cat(c, k) \o c[k + 1] /\ Cat(c, k + 1) \in Seq(S)
  <2>1. k + 1 \in 1..n
    OBVIOUS
  <2>2. c[k + 1] \in Seq(S)
    BY <2>1 DEF Parts
  <2>3. Cat(c, k) \o c[k + 1] \in Seq(S) /\ <<>> \o c[k + 1] = c[k + 1]
    BY <1>3, <2>2, ConcatProperties, ConcatEmptySeq
  <2> QED
    BY <1>1, <1>2, <2>3
<1>4. \A k \in 0..n : Cat(c, k) \in Seq(S)
  <2> DEFINE T == {k \in Nat : k <= n => Cat(c, k) \in Seq(S)}
  <2>1. 0 \in T
    BY <1>1, EmptySeq
  <2>2. ASSUME NEW k \in Nat, k \in T PROVE k + 1 \in T
    BY <1>3, <2>2
  <2>3. \A k \in Nat : k \in T
    <3> HIDE DEF T
    <3> QED
      BY <2>1, <2>2, NatByInduction
  <2> QED
    BY <2>3
<1>5. \A k \in 0..(n - 1) : k \in 0..n
  OBVIOUS
<1> QED
  BY <1>1, <1>3, <1>4, <1>5 DEF CatLaws


NoParts(c, n) == \A i \in 1..n : c[i] = <<>>

LEMMA CatNothing ==
    ASSUME NEW n \in Nat, NEW c, NoParts(c, n)
    PROVE  Cat(c, n) = <<>>
<1> DEFINE T == {k \in Nat : k <= n => Cat(c, k) = <<>>}
<1>1. Parts(c, n, {})
  BY EmptySeq DEF Parts, NoParts
<1>2. Cat(c, 0) = <<>> /\ \A k \in 0..(n - 1) : Cat(c, k + 1) = Cat(c, k) \o c[k + 1]
  BY <1>1, CatStep DEF CatLaws
<1>3. 0 \in T
  BY <1>2
<1>4. ASSUME NEW k \in Nat, k \in T PROVE k + 1 \in T
  <2> SUFFICES ASSUME k + 1 <= n PROVE Cat(c, k + 1) = <<>>
    OBVIOUS
  <2>1. k \in 0..(n - 1) /\ k + 1 \in 1..n /\ Cat(c, k) = <<>>
    BY <1>4
  <2>2. c[k + 1] = <<>>
    BY <2>1 DEF NoParts
  <2>3. <<>> \o <<>> = <<>>
    OBVIOUS
  <2> QED
    BY <1>2, <2>1, <2>2, <2>3
<1>5. n \in T
  <2> HIDE DEF T
  <2> QED
    BY <1>3, <1>4, NatByInduction
<1> QED
  BY <1>5

LEMMA CatSame ==
    ASSUME NEW n \in Nat, NEW c, NEW d, Agree(c, d, n)
    PROVE  Cat(c, n) = Cat(d, n)
<1>1. [i \in 1..n |-> c[i]] = [i \in 1..n |-> d[i]]
  BY DEF Agree
<1> QED
  BY <1>1 DEF Cat

(* The parts that a function makes of the elements of a sequence.          *)
Mapped(w, s) == Cat([i \in 1..Len(s) |-> w[s[i]]], Len(s))

LEMMA MappedAppend ==
    ASSUME NEW S, NEW R, NEW w \in [S -> Seq(R)], NEW s \in Seq(S), NEW x \in S
    PROVE  Mapped(w, s \o <<x>>) = Mapped(w, s) \o w[x]
<1> DEFINE n == Len(s)
           t == s \o <<x>>
           c == [i \in 1..n |-> w[s[i]]]
           d == [i \in 1..(n + 1) |-> w[t[i]]]
<1>1. n \in Nat /\ s \in [1..n -> S]
  BY LenProperties
<1>2. <<x>> \in Seq(S) /\ Len(<<x>>) = 1 /\ <<x>>[1] = x
  OBVIOUS
<1>3. t \in Seq(S) /\ Len(t) = n + 1 /\ \A i \in 1..(n + 1) : t[i] = IF i <= n THEN s[i] ELSE <<x>>[i - n]
  BY <1>2, ConcatProperties
<1> HIDE DEF n, t
<1>4. (\A i \in 1..n : i \in 1..(n + 1) /\ i <= n) /\ n + 1 \in 1..(n + 1) /\ ~(n + 1 <= n) /\ (n + 1) - n = 1
      /\ n \in 0..((n + 1) - 1) /\ n + 1 \in Nat
  BY <1>1
<1>5. (\A i \in 1..n : t[i] = s[i]) /\ t[n + 1] = x
  BY <1>2, <1>3, <1>4
<1>6. \A i \in 1..(n + 1) : t[i] \in S
  BY <1>3, ElementOfSeq
<1>7. \A i \in 1..(n + 1) : d[i] \in Seq(R)
  BY <1>6
<1>8. \A i \in 1..n : c[i] \in Seq(R)
  BY <1>1
<1>9. d[n + 1] = w[x] /\ Agree(c, d, n)
  BY <1>4, <1>5 DEF Agree
<1>10. Mapped(w, s) = Cat(c, n) /\ Mapped(w, t) = Cat(d, n + 1)
  BY <1>3 DEF Mapped, n
<1> HIDE DEF c, d
<1>11. Cat(d, n + 1) = Cat(d, n) \o d[n + 1]
  <2> DEFINE m == n + 1
  <2>1. m \in Nat /\ Parts(d, m, R) /\ n \in 0..(m - 1)
    BY <1>4, <1>7 DEF Parts
  <2> HIDE DEF m
  <2>2. \A k \in 0..(m - 1) : Cat(d, k + 1) = Cat(d, k) \o d[k + 1]
    BY <2>1, CatStep DEF CatLaws
  <2> QED
    BY <2>1, <2>2
<1>12. Cat(c, n) = Cat(d, n)
  BY <1>1, <1>9, CatSame
<1> QED
  BY <1>9, <1>10, <1>11, <1>12 DEF t

LEMMA MappedEmpty ==
    ASSUME NEW w
    PROVE  Mapped(w, <<>>) = <<>>
<1> DEFINE c == [i \in 1..0 |-> w[<<>>[i]]]
<1>1. Cat(c, 0) = <<>>
  BY CatIsFlat
<1>2. Len(<<>>) = 0
  OBVIOUS
<1> QED
  BY <1>1, <1>2 DEF Mapped

LEMMA MappedType ==
    ASSUME NEW S, NEW R, NEW w \in [S -> Seq(R)], NEW s \in Seq(S)
    PROVE  Mapped(w, s) \in Seq(R)
<1> DEFINE n == Len(s)
           c == [i \in 1..n |-> w[s[i]]]
<1>1. n \in Nat /\ n \in 0..n /\ s \in [1..n -> S]
  BY LenProperties
<1>2. \A i \in 1..n : c[i] \in Seq(R)
  BY <1>1
<1>3. Mapped(w, s) = Cat(c, n)
  BY DEF Mapped
<1> HIDE DEF c, n
<1>5. Parts(c, n, R)
  BY <1>2 DEF Parts
<1>4. \A k \in 0..n : Cat(c, k) \in Seq(R)
  BY <1>1, <1>5, CatStep DEF CatLaws
<1> QED
  BY <1>1, <1>3, <1>4

Associates(a, b, c) == (a \o b) \o c = a \o (b \o c)

LEMMA Association ==
    ASSUME NEW S, NEW a \in Seq(S), NEW b \in Seq(S), NEW c \in Seq(S)
    PROVE  Associates(a, b, c)
BY ConcatAssociative DEF Associates

Distributes(w, s, t) == Mapped(w, s \o t) = Mapped(w, s) \o Mapped(w, t)

LEMMA MappedConcat ==
    ASSUME NEW S, NEW R, NEW w \in [S -> Seq(R)], NEW s \in Seq(S), NEW t \in Seq(S)
    PROVE  Distributes(w, s, t)
<1> DEFINE n == Len(t)
           p(k) == SubSeq(t, 1, k)
           T == {k \in Nat : k <= n => Mapped(w, s \o p(k)) = Mapped(w, s) \o Mapped(w, p(k))}
<1>1. n \in Nat /\ \A i \in 1..n : t[i] \in S
  BY LenProperties, ElementOfSeq
<1>2. \A k \in 0..n : p(k) \in Seq(S)
  <2> TAKE k \in 0..n
  <2>1. k \in Int /\ 1 \in Int /\ \A i \in 1..k : t[i] \in S
    BY <1>1
  <2> QED
    BY <2>1, SubSeqProperties
<1>3. p(0) = <<>>
  BY SubSeqEmpty
<1>4. \A k \in 0..(n - 1) : p(k + 1) = p(k) \o <<t[k + 1]>>
  <2> TAKE k \in 0..(n - 1)
  <2> DEFINE l == k + 1
  <2>1. 1 \in 1..Len(t) /\ l \in 1..Len(t) /\ l - 1 = k
    BY <1>1
  <2> HIDE DEF l
  <2>2. SubSeq(t, 1, l) = SubSeq(t, 1, l - 1) \o <<t[l]>>
    BY <2>1, SubSeqRecursiveSecond
  <2> QED
    BY <2>1, <2>2 DEF l
<1>5. p(n) = t
  BY SubSeqFull
<1> HIDE DEF p, n
<1>6. 0 \in T
  <2>1. s \o <<>> = s /\ Mapped(w, s) \in Seq(R)
    BY MappedType, ConcatEmptySeq
  <2>2. Mapped(w, s) \o <<>> = Mapped(w, s)
    BY <2>1, ConcatEmptySeq
  <2> QED
    BY <1>3, <2>1, <2>2, MappedEmpty
<1>7. ASSUME NEW k \in Nat, k \in T PROVE k + 1 \in T
  <2> SUFFICES ASSUME k + 1 <= n PROVE Mapped(w, s \o p(k + 1)) = Mapped(w, s) \o Mapped(w, p(k + 1))
    OBVIOUS
  <2>1. k \in 0..n /\ k \in 0..(n - 1) /\ k + 1 \in 1..n
    BY <1>1
  <2>12. k \in 0..n /\ (k + 1) <= n => Mapped(w, s \o p(k)) = Mapped(w, s) \o Mapped(w, p(k))
    BY <1>7
  <2> HIDE DEF T
  <2> DEFINE x == t[k + 1]
  <2>2. x \in S /\ p(k) \in Seq(S) /\ p(k + 1) = p(k) \o <<x>>
    BY <1>1, <1>2, <1>4, <2>1
  <2>3. Mapped(w, s \o p(k)) = Mapped(w, s) \o Mapped(w, p(k))
    BY <2>1, <2>12
  <2> HIDE DEF x
  <2> DEFINE q == p(k)
             X == <<x>>
  <2>8. q \in Seq(S) /\ X \in Seq(S)
    BY <2>2
  <2>9. s \o q \in Seq(S) /\ Associates(s, q, X)
    <3> HIDE DEF q, X
    <3> QED
      BY <2>8, ConcatProperties, Association
  <2>4. s \o p(k) \in Seq(S) /\ s \o p(k + 1) = (s \o p(k)) \o <<x>>
    BY <2>2, <2>9 DEF Associates
  <2>10. Mapped(w, (s \o p(k)) \o <<x>>) = Mapped(w, s \o p(k)) \o w[x]
    BY <2>2, <2>4, MappedAppend
  <2>11. Mapped(w, p(k) \o <<x>>) = Mapped(w, p(k)) \o w[x]
    BY <2>2, MappedAppend
  <2>6. Mapped(w, s) \in Seq(R) /\ Mapped(w, p(k)) \in Seq(R) /\ w[x] \in Seq(R)
    BY <2>2, MappedType
  <2>7. (Mapped(w, s) \o Mapped(w, p(k))) \o w[x] = Mapped(w, s) \o (Mapped(w, p(k)) \o w[x])
    <3> DEFINE A == Mapped(w, s)
               B == Mapped(w, p(k))
               C == w[x]
    <3> HIDE DEF A, B, C
    <3> SUFFICES Associates(A, B, C)
      BY DEF A, B, C, Associates
    <3>1. A \in Seq(R) /\ B \in Seq(R) /\ C \in Seq(R)
      BY <2>6 DEF A, B, C
    <3> QED
      BY <3>1, Association
  <2> QED
    BY <2>2, <2>3, <2>4, <2>10, <2>11, <2>7
<1>8. n \in T
  <2> HIDE DEF T
  <2> QED
    BY <1>1, <1>6, <1>7, NatByInduction
<1> QED
  BY <1>1, <1>5, <1>8 DEF Distributes

LEMMA MappedOne ==
    ASSUME NEW S, NEW R, NEW w \in [S -> Seq(R)], NEW x \in S
    PROVE  Mapped(w, <<x>>) = w[x]
<1>1. <<>> \in Seq(S) /\ <<>> \o <<x>> = <<x>> /\ w[x] \in Seq(R)
  BY ConcatEmptySeq
<1>2. Mapped(w, <<>> \o <<x>>) = Mapped(w, <<>>) \o w[x]
  <2> DEFINE e == <<>>
  <2>1. e \in Seq(S)
    BY <1>1
  <2> HIDE DEF e
  <2>2. Mapped(w, e \o <<x>>) = Mapped(w, e) \o w[x]
    BY <2>1, MappedAppend
  <2> QED
    BY <2>2 DEF e
<1> QED
  BY <1>1, <1>2, MappedEmpty, ConcatEmptySeq

===========================================================================
