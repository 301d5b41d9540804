--------------------------- MODULE TextEditorProofs ----------------------------
EXTENDS TextEditor, TLAPS, FiniteSetTheorems, SequenceTheorems, WellFoundedInduction

-----------------------------------------------------------------------------
(* Induction over the natural numbers, stated for a set instead of a       *)
(* predicate, and the recursive functions it gives.                        *)

\* A set of natural numbers has a smallest one: the intervals below its elements are
\* finite sets, and the strict subsets of finite sets do not descend for ever.
LEMMA LeastNatural ==
    ASSUME NEW T, T \subseteq Nat, T # {}
    PROVE  \E n \in T : \A m \in T : n <= m
<1> DEFINE below == {0..n - 1 : n \in T}
<1>1. below # {} /\ below \subseteq FiniteSubsetsOf(Nat)
  <2>1. ASSUME NEW n \in T
        PROVE  0..n - 1 \in FiniteSubsetsOf(Nat)
    <3>1. IsFiniteSet(0..n - 1)
      BY FS_Interval
    <3>2. 0..n - 1 \in SUBSET Nat
      BY SMT
    <3> QED
      BY <3>1, <3>2 DEF FiniteSubsetsOf
  <2> QED
    BY <2>1
<1>2. \E B \in below : \A A \in below : ~ (<<A, B>> \in StrictSubsetOrdering(Nat))
  <2> HIDE DEF below
  <2> QED
    BY <1>1, FS_StrictSubsetOrderingWellFounded, WFMin
<1>3. PICK n \in T : \A m \in T : ~ (<<0..m - 1, 0..n - 1>> \in StrictSubsetOrdering(Nat))
  BY <1>2
<1>4. ASSUME NEW m \in T, m < n
      PROVE  FALSE
  <2>1. 0..m - 1 \in SUBSET Nat /\ 0..n - 1 \in SUBSET Nat
    BY SMT
  <2>2. 0..m - 1 \subseteq 0..n - 1
    BY <1>4
  <2>3. m \in 0..n - 1 /\ m \notin 0..m - 1
    BY <1>4
  <2> QED
    BY <2>1, <2>2, <2>3, <1>3 DEF StrictSubsetOrdering
<1> QED
  BY <1>4

\* A set with 0 and the successor of each of its elements has every natural number.
LEMMA Induction ==
    ASSUME NEW T, 0 \in T, \A n \in Nat : n \in T => n + 1 \in T
    PROVE  Nat \subseteq T
<1> SUFFICES ASSUME Nat \ T # {} PROVE FALSE
  OBVIOUS
<1>1. PICK n \in Nat \ T : \A m \in Nat \ T : n <= m
  BY LeastNatural
<1>2. n # 0 /\ n - 1 \in Nat /\ n - 1 \in T
  BY <1>1
<1> QED
  BY <1>1, <1>2

\* f is defined by primitive recursion up to n.
Solves(f, n, base, step) ==
    f[0] = base /\ \A k \in 1..n : f[k] = step[k][f[k - 1]]

\* Such a function exists.
LEMMA Recursion ==
    ASSUME NEW n \in Nat, NEW S, NEW base \in S, NEW step \in [1..n -> [S -> S]]
    PROVE  \E f \in [0..n -> S] : Solves(f, n, base, step)
<1> USE DEF Solves
<1> DEFINE T == {d \in Nat : d <= n => \E f \in [0..d -> S] : Solves(f, d, base, step)}
<1>1. 0 \in T
  <2>1. Solves([k \in 0..0 |-> base], 0, base, step) /\ [k \in 0..0 |-> base] \in [0..0 -> S]
    OBVIOUS
  <2> QED
    BY <2>1
<1>2. ASSUME NEW d \in Nat, d \in T
      PROVE  d + 1 \in T
  <2> SUFFICES ASSUME d + 1 <= n
               PROVE  \E f \in [0..d + 1 -> S] : Solves(f, d + 1, base, step)
    OBVIOUS
  <2>1. PICK f \in [0..d -> S] : Solves(f, d, base, step)
    BY <1>2
  <2> DEFINE g == [k \in 0..d + 1 |-> IF k <= d THEN f[k] ELSE step[k][f[k - 1]]]
  <2>2. g \in [0..d + 1 -> S]
    <3>1. ASSUME NEW k \in 0..d + 1
          PROVE  (IF k <= d THEN f[k] ELSE step[k][f[k - 1]]) \in S
      <4>1. CASE k <= d
        BY <4>1
      <4>2. CASE k = d + 1
        <5>1. k \in 1..n /\ f[k - 1] \in S
          BY <4>2
        <5>2. step[k] \in [S -> S]
          BY <5>1
        <5> QED
          BY <4>2, <5>1, <5>2
      <4> QED
        BY <4>1, <4>2
    <3> QED
      BY <3>1
  <2>3. Solves(g, d + 1, base, step)
    <3>1. g[0] = base
      BY <2>1
    <3>2. ASSUME NEW k \in 1..d + 1
          PROVE  g[k] = step[k][g[k - 1]]
      <4>1. g[k - 1] = f[k - 1]
        OBVIOUS
      <4>2. g[k] = step[k][f[k - 1]]
        BY <2>1
      <4> QED
        BY <4>1, <4>2
    <3> QED
      BY <3>1, <3>2
  <2> QED
    BY <2>2, <2>3
<1>3. n \in T
  <2> HIDE DEF T
  <2> QED
    BY <1>1, <1>2, Induction
<1> QED
  BY <1>3

\* What Turns counts.
LEMMA TurnsProperties ==
    ASSUME NEW n \in Nat, NEW oldFirst
    PROVE  /\ Turns(n, oldFirst) \in [0..n -> Nat]
           /\ Turns(n, oldFirst)[0] = 0
           /\ \A k \in 1..n : Turns(n, oldFirst)[k] =
                  LET i == Turns(n, oldFirst)[k - 1]
                  IN  IF <<i, k - 1 - i>> \in oldFirst THEN i + 1 ELSE i
<1> DEFINE after(k, i) == IF <<i, k - 1 - i>> \in oldFirst THEN i + 1 ELSE i
           step == [k \in 1..n |-> [i \in Nat |-> after(k, i)]]
<1>1. step \in [1..n -> [Nat -> Nat]]
  OBVIOUS
<1>2. PICK f \in [0..n -> Nat] : Solves(f, n, 0, step)
  <2>1. 0 \in Nat
    OBVIOUS
  <2> HIDE DEF step
  <2> QED
    BY <1>1, <2>1, Recursion
<1>3. \A k \in 1..n : f[k] = after(k, f[k - 1])
  <2> SUFFICES ASSUME NEW k \in 1..n
               PROVE  f[k] = after(k, f[k - 1])
    OBVIOUS
  <2>1. f[k] = step[k][f[k - 1]] /\ f[k - 1] \in Nat
    <3> HIDE DEF step
    <3> QED
      BY <1>2 DEF Solves
  <2>2. step[k] = [i \in Nat |-> after(k, i)]
    OBVIOUS
  <2> HIDE DEF step, after
  <2> QED
    BY <2>1, <2>2
<1> DEFINE Eq(g) == g = [k \in 0..n |-> IF k = 0 THEN 0 ELSE after(k, g[k - 1])]
<1>4. Eq(f)
  <2>1. \A k \in 0..n : f[k] = IF k = 0 THEN 0 ELSE after(k, f[k - 1])
    <3> HIDE DEF after
    <3> QED
      BY <1>2, <1>3 DEF Solves
  <2> QED
    BY <2>1
<1>5. Eq(Turns(n, oldFirst))
  <2>1. Turns(n, oldFirst) = CHOOSE g : Eq(g)
    BY DEF Turns
  <2> HIDE DEF Eq
  <2> QED
    BY <1>4, <2>1
<1> DEFINE passed == Turns(n, oldFirst)
<1> HIDE DEF passed
<1>6. passed = [k \in 0..n |-> IF k = 0 THEN 0 ELSE after(k, passed[k - 1])]
  BY <1>5 DEF passed
<1>7. passed[0] = 0 /\ \A k \in 1..n : passed[k] = after(k, passed[k - 1])
  <2> HIDE DEF after
  <2> QED
    BY <1>6
<1>8. \A k \in 0..n : passed[k] \in Nat
  <2> DEFINE T == {k \in Nat : k <= n => passed[k] \in Nat}
  <2>1. 0 \in T
    BY <1>7
  <2>2. ASSUME NEW k \in Nat, k \in T
        PROVE  k + 1 \in T
    <3> SUFFICES ASSUME k + 1 <= n
                 PROVE  passed[k + 1] \in Nat
      OBVIOUS
    <3>1. passed[k] \in Nat /\ passed[k + 1] = after(k + 1, passed[k])
      <4> HIDE DEF after
      <4> QED
        BY <1>7, <2>2
    <3> QED
      BY <3>1
  <2> HIDE DEF T
  <2>3. Nat \subseteq T
    BY <2>1, <2>2, Induction
  <2> QED
    BY <2>3 DEF T
<1>9. passed \in [0..n -> Nat]
  BY <1>6, <1>8
<1> QED
  BY <1>7, <1>9 DEF passed

-----------------------------------------------------------------------------
(* Sequences.                                                              *)

\* InsertAt puts one element between the first i and the others.
LEMMA InsertAtProperties ==
    ASSUME NEW S, NEW s \in Seq(S), NEW i \in 0..Len(s), NEW e \in S
    PROVE  /\ InsertAt(s, i + 1, e) \in Seq(S)
           /\ Len(InsertAt(s, i + 1, e)) = Len(s) + 1
           /\ \A k \in 1..Len(s) + 1 : InsertAt(s, i + 1, e)[k] =
                  IF k <= i THEN s[k] ELSE IF k = i + 1 THEN e ELSE s[k - 1]
<1> DEFINE before == SubSeq(s, 1, i)
           after  == SubSeq(s, i + 1, Len(s))
<1>1. InsertAt(s, i + 1, e) = (before \o <<e>>) \o after
  <2>1. (i + 1) - 1 = i
    OBVIOUS
  <2> QED
    BY <2>1 DEF InsertAt
<1>2. /\ before \in Seq(S) /\ Len(before) = i
      /\ \A k \in 1..i : before[k] = s[k]
  BY SubSeqProperties
<1>3. /\ after \in Seq(S) /\ Len(after) = Len(s) - i
      /\ \A k \in 1..Len(s) - i : after[k] = s[k + i]
  BY SubSeqProperties
<1>4. /\ <<e>> \in Seq(S) /\ Len(<<e>>) = 1 /\ <<e>>[1] = e
  OBVIOUS
<1> HIDE DEF before, after
<1>5. /\ before \o <<e>> \in Seq(S) /\ Len(before \o <<e>>) = i + 1
      /\ \A k \in 1..i + 1 : (before \o <<e>>)[k] = IF k <= i THEN s[k] ELSE e
  <2> DEFINE one == <<e>>
  <2>1. one \in Seq(S) /\ Len(one) = 1 /\ one[1] = e
    BY <1>4
  <2> HIDE DEF one
  <2>2. /\ before \o one \in Seq(S) /\ Len(before \o one) = Len(before) + Len(one)
        /\ \A k \in 1..Len(before) + Len(one) : (before \o one)[k] =
               IF k <= Len(before) THEN before[k] ELSE one[k - Len(before)]
    BY <1>2, <2>1, ConcatProperties
  <2>3. /\ Len(before \o one) = i + 1
        /\ \A k \in 1..i + 1 : (before \o one)[k] = IF k <= i THEN s[k] ELSE e
    BY <1>2, <2>1, <2>2
  <2> QED
    BY <2>2, <2>3 DEF one
<1> DEFINE front == before \o <<e>>
           whole == front \o after
<1> HIDE DEF front
<1>6. /\ front \in Seq(S) /\ Len(front) = i + 1
      /\ \A k \in 1..i + 1 : front[k] = IF k <= i THEN s[k] ELSE e
  BY <1>5 DEF front
<1>7. /\ whole \in Seq(S) /\ Len(whole) = Len(s) + 1
      /\ \A k \in 1..Len(s) + 1 :
            whole[k] = IF k <= i + 1 THEN front[k] ELSE after[k - (i + 1)]
  <2>1. Len(front) + Len(after) = Len(s) + 1
    BY <1>3, <1>6
  <2> QED
    BY <1>3, <1>6, <2>1, ConcatProperties
<1> HIDE DEF whole
<1>8. ASSUME NEW k \in 1..Len(s) + 1
      PROVE  whole[k] = IF k <= i THEN s[k] ELSE IF k = i + 1 THEN e ELSE s[k - 1]
  <2>1. CASE k <= i + 1
    <3>1. whole[k] = front[k] /\ k \in 1..i + 1
      BY <2>1, <1>7
    <3> QED
      BY <3>1, <1>6
  <2>2. CASE k > i + 1
    <3>1. k - (i + 1) \in 1..Len(s) - i /\ (k - (i + 1)) + i = k - 1
      BY <2>2
    <3>2. whole[k] = after[k - (i + 1)]
      BY <2>2, <1>7
    <3>3. after[k - (i + 1)] = s[(k - (i + 1)) + i]
      BY <3>1, <1>3
    <3> QED
      BY <2>2, <3>1, <3>2, <3>3
  <2> QED
    BY <2>1, <2>2
<1>9. InsertAt(s, i + 1, e) = whole
  BY <1>1 DEF whole, front
<1> QED
  BY <1>7, <1>8, <1>9

\* g is what FlattenSeq has after each of the sequences.
Joined(seqs, g) == g[0] = <<>> /\ \A k \in 1..Len(seqs) : g[k] = g[k - 1] \o seqs[k]

\* FlattenSeq joins the sequences from the first to the last.
LEMMA FlattenProperties ==
    ASSUME NEW S, NEW seqs \in Seq(Seq(S))
    PROVE  \E g \in [0..Len(seqs) -> Seq(S)] :
               Joined(seqs, g) /\ FlattenSeq(seqs) = g[Len(seqs)]
<1> DEFINE n == Len(seqs)
           step == [k \in 1..n |-> [t \in Seq(S) |-> t \o seqs[k]]]
<1>1. n \in Nat /\ \A k \in 1..n : seqs[k] \in Seq(S)
  OBVIOUS
<1>2. <<>> \in Seq(S)
  OBVIOUS
<1>3. \A k \in 1..n : \A t \in Seq(S) : t \o seqs[k] \in Seq(S)
  BY <1>1, ConcatProperties
<1>4. step \in [1..n -> [Seq(S) -> Seq(S)]]
  BY <1>3
<1>5. \A k \in 1..n, t \in Seq(S) : step[k][t] = t \o seqs[k]
  OBVIOUS
<1> HIDE DEF step
<1>6. PICK g \in [0..n -> Seq(S)] : Solves(g, n, <<>>, step)
  <2> HIDE DEF n
  <2> QED
    BY <1>1, <1>2, <1>4, Recursion
<1>7. g[0] = <<>> /\ \A k \in 1..n : g[k] = g[k - 1] \o seqs[k] /\ g[k - 1] \in Seq(S)
  <2>1. \A k \in 1..n : k - 1 \in 0..n
    BY <1>1
  <2> HIDE DEF n
  <2> QED
    BY <1>1, <1>5, <1>6, <2>1 DEF Solves
<1>8. CASE n = 0
  <2>1. seqs = <<>>
    BY <1>8
  <2>2. FlattenSeq(seqs) = seqs
    BY <1>8 DEF FlattenSeq
  <2> QED
    BY <1>6, <1>7, <1>8, <2>1, <2>2 DEF Joined
<1>9. CASE n # 0
  <2> DEFINE Eq(h) == h = [i \in 1..n |-> IF i = 1 THEN seqs[i] ELSE h[i - 1] \o seqs[i]]
             f == [i \in 1..n |-> g[i]]
             flatten == CHOOSE h : Eq(h)
  <2>1. FlattenSeq(seqs) = flatten[n]
    BY <1>9 DEF FlattenSeq
  <2>2. ASSUME NEW i \in 1..n
        PROVE  f[i] = IF i = 1 THEN seqs[i] ELSE f[i - 1] \o seqs[i]
    <3>1. CASE i = 1
      <4>1. g[1] = g[1 - 1] \o seqs[1] /\ seqs[1] \in Seq(S)
        BY <1>1, <1>7, <3>1
      <4>2. <<>> \o seqs[1] = seqs[1] /\ 1 - 1 = 0
        BY <4>1, ConcatEmptySeq
      <4>3. g[1] = seqs[1]
        BY <1>7, <4>1, <4>2
      <4> QED
        BY <3>1, <4>3
    <3>2. CASE i # 1
      <4>1. i - 1 \in 1..n
        BY <1>1, <3>2
      <4>2. f[i - 1] = g[i - 1] /\ f[i] = g[i]
        BY <4>1
      <4> QED
        BY <1>7, <3>2, <4>2
    <3> QED
      BY <3>1, <3>2
  <2>3. Eq(f)
    BY <2>2
  <2>4. Eq(flatten)
    <3> HIDE DEF Eq
    <3> QED
      BY <2>3
  <2> HIDE DEF flatten
  <2>5. \A k \in 1..n : flatten[k] = g[k]
    <3> DEFINE T == {k \in Nat : k \in 1..n => flatten[k] = g[k]}
    <3>1. 0 \in T
      OBVIOUS
    <3>2. ASSUME NEW k \in Nat, k \in T
          PROVE  k + 1 \in T
      <4> SUFFICES ASSUME k + 1 \in 1..n
                   PROVE  flatten[k + 1] = g[k + 1]
        OBVIOUS
      <4>1. CASE k = 0
        <5>1. 1 \in 1..n
          BY <4>1
        <5>2. f[1] = seqs[1] /\ f[1] = g[1]
          BY <2>2, <5>1
        <5>3. flatten[1] = seqs[1]
          BY <2>4, <5>1
        <5> QED
          BY <4>1, <5>2, <5>3
      <4>2. CASE k # 0
        <5>1. k \in 1..n /\ (k + 1) - 1 = k /\ k + 1 # 1
          BY <1>1, <4>2
        <5>2. flatten[k + 1] = flatten[(k + 1) - 1] \o seqs[k + 1]
          BY <2>4, <5>1
        <5>3. g[k + 1] = g[(k + 1) - 1] \o seqs[k + 1]
          BY <1>7
        <5> QED
          BY <3>2, <5>1, <5>2, <5>3
      <4> QED
        BY <4>1, <4>2
    <3> HIDE DEF T
    <3>3. Nat \subseteq T
      BY <3>1, <3>2, Induction
    <3> QED
      BY <3>3 DEF T
  <2>6. FlattenSeq(seqs) = g[n]
    BY <1>1, <1>9, <2>1, <2>5
  <2>7. Joined(seqs, g)
    BY <1>7 DEF Joined
  <2> QED
    BY <1>6, <2>6, <2>7
<1> QED
  BY <1>8, <1>9

\* What an arrangement by an injective function into the first places is.
LEMMA ArrangedProperties ==
    ASSUME NEW S, NEW s \in Seq(S), NEW D \in SUBSET DOMAIN s, NEW place,
           place \in [D -> 1..Cardinality(D)],
           \A i, j \in D : place[i] = place[j] => i = j
    PROVE  /\ Arranged(s, place) \in Seq(S)
           /\ Cardinality(D) \in Nat
           /\ Len(Arranged(s, place)) = Cardinality(D)
           /\ \A k \in 1..Cardinality(D) : \E i \in D : place[i] = k
           /\ \A i \in D : Arranged(s, place)[place[i]] = s[i]
<1> DEFINE n == Cardinality(D)
           t == Arranged(s, place)
<1>1. IsFiniteSet(D) /\ n \in Nat
  <2>1. IsFiniteSet(DOMAIN s)
    BY FS_Interval
  <2> QED
    BY <2>1, FS_Subset, FS_CardinalityType
<1>2. IsFiniteSet(1..n) /\ Cardinality(1..n) = n
  BY <1>1, FS_Interval
<1>3. place \in Injection(D, 1..n)
  BY DEF Injection, IsInjective
<1>4. place \in Surjection(D, 1..n)
  <2> HIDE DEF n
  <2>1. Cardinality(D) = n
    BY DEF n
  <2> QED
    BY <1>2, <1>3, <2>1, FS_Injection
<1>5. \A k \in 1..n : \E i \in D : place[i] = k
  <2> HIDE DEF n
  <2> QED
    BY <1>4 DEF Surjection
<1> DEFINE at(k) == CHOOSE i \in D : place[i] = k
<1>6. t = [k \in 1..n |-> s[at(k)]]
  BY DEF Arranged
<1> HIDE DEF n, t
<1>7. \A k \in 1..n : at(k) \in D /\ place[at(k)] = k
  BY <1>5
<1> HIDE DEF at
<1>8. \A k \in 1..n : s[at(k)] \in S
  BY <1>7
<1>9. t \in Seq(S) /\ Len(t) = n
  BY <1>1, <1>6, <1>8
<1>10. ASSUME NEW i \in D
       PROVE  t[place[i]] = s[i]
  <2>1. place[i] \in 1..n
    BY DEF n
  <2>2. at(place[i]) = i
    BY <1>7, <2>1
  <2> QED
    BY <1>6, <2>1, <2>2
<1> QED
  BY <1>1, <1>5, <1>9, <1>10 DEF n, t

-----------------------------------------------------------------------------
(* The stable sort.                                                        *)

\* The i-th edit of s is written before the j-th, or is it.
UpTo(s, i, j) == \/ Precedes(s[i], s[j])
                 \/ ~ Precedes(s[j], s[i]) /\ i <= j

\* The place of the i-th edit.
Place(s, i) == Cardinality({j \in DOMAIN s : UpTo(s, j, i)})

\* Precedes is a strict weak order.
LEMMA PrecedesIsWeakOrder ==
    ASSUME NEW e \in Edits, NEW f \in Edits, NEW g \in Edits
    PROVE  /\ ~ Precedes(e, e)
           /\ Precedes(e, f) => ~ Precedes(f, e)
           /\ Precedes(e, f) /\ Precedes(f, g) => Precedes(e, g)
           /\ Precedes(e, g) => Precedes(e, f) \/ Precedes(f, g)
<1>1. /\ e.start \in Nat /\ e.end \in Nat
      /\ f.start \in Nat /\ f.end \in Nat
      /\ g.start \in Nat /\ g.end \in Nat
  BY EditAssumption
<1> QED
  BY <1>1 DEF Precedes

\* So the indices are in a total order.
LEMMA UpToIsTotalOrder ==
    ASSUME NEW s \in Seq(Edits), NEW i \in DOMAIN s, NEW j \in DOMAIN s, NEW k \in DOMAIN s
    PROVE  /\ UpTo(s, i, i)
           /\ UpTo(s, i, j) \/ UpTo(s, j, i)
           /\ UpTo(s, i, j) /\ UpTo(s, j, i) => i = j
           /\ UpTo(s, i, j) /\ UpTo(s, j, k) => UpTo(s, i, k)
<1>1. /\ i \in Nat /\ j \in Nat /\ k \in Nat
      /\ s[i] \in Edits /\ s[j] \in Edits /\ s[k] \in Edits
  OBVIOUS
<1>2. /\ Precedes(s[i], s[j]) => ~ Precedes(s[j], s[i])
      /\ ~ Precedes(s[i], s[i])
      /\ Precedes(s[i], s[j]) /\ Precedes(s[j], s[k]) => Precedes(s[i], s[k])
      /\ Precedes(s[k], s[i]) => Precedes(s[k], s[j]) \/ Precedes(s[j], s[i])
      /\ Precedes(s[i], s[j]) => Precedes(s[i], s[k]) \/ Precedes(s[k], s[j])
      /\ Precedes(s[j], s[k]) => Precedes(s[j], s[i]) \/ Precedes(s[i], s[k])
  BY <1>1, PrecedesIsWeakOrder
<1> QED
  BY <1>1, <1>2 DEF UpTo

\* The places are numbered in that order.
LEMMA PlaceProperties ==
    ASSUME NEW s \in Seq(Edits), NEW i \in DOMAIN s
    PROVE  /\ Place(s, i) \in 1..Len(s)
           /\ \A j \in DOMAIN s : Place(s, i) <= Place(s, j) => UpTo(s, i, j)
           /\ \A j \in DOMAIN s : Place(s, i) = Place(s, j) => i = j
<1> DEFINE below(j) == {k \in DOMAIN s : UpTo(s, k, j)}
<1>1. /\ IsFiniteSet(DOMAIN s) /\ Cardinality(DOMAIN s) = Len(s)
      /\ \A j \in DOMAIN s : /\ IsFiniteSet(below(j))
                             /\ Cardinality(below(j)) \in Nat
                             /\ Cardinality(below(j)) <= Len(s)
  <2>1. IsFiniteSet(DOMAIN s) /\ Cardinality(DOMAIN s) = Len(s)
    BY FS_Interval
  <2> QED
    BY <2>1, FS_Subset, FS_CardinalityType
<1>2. ASSUME NEW j \in DOMAIN s, Place(s, i) <= Place(s, j), ~ UpTo(s, i, j)
      PROVE  FALSE
  <2>1. UpTo(s, j, i) /\ i \notin below(j) /\ i \in below(i)
    BY <1>2, UpToIsTotalOrder
  <2>2. below(j) \subseteq below(i)
    BY <2>1, UpToIsTotalOrder
  <2>3. Cardinality(below(j)) <= Cardinality(below(i))
        /\ (Cardinality(below(j)) = Cardinality(below(i)) => below(j) = below(i))
    BY <1>1, <2>2, FS_Subset
  <2>4. Place(s, i) = Cardinality(below(i)) /\ Place(s, j) = Cardinality(below(j))
    BY DEF Place
  <2> HIDE DEF below
  <2> QED
    BY <1>1, <1>2, <2>1, <2>3, <2>4
<1>3. Place(s, i) \in 1..Len(s)
  <2>1. i \in below(i)
    BY UpToIsTotalOrder
  <2>2. Cardinality(below(i)) # 0
    BY <2>1, <1>1, FS_EmptySet
  <2>3. Place(s, i) = Cardinality(below(i))
    BY DEF Place
  <2> HIDE DEF below
  <2> QED
    BY <1>1, <2>2, <2>3
<1>4. ASSUME NEW j \in DOMAIN s, Place(s, i) = Place(s, j)
      PROVE  i = j
  <2> DEFINE p == Place(s, i) q == Place(s, j)
  <2>1. UpTo(s, i, j)
    BY <1>2, <1>3, <1>4
  <2>2. UpTo(s, j, i)
    <3> SUFFICES ASSUME ~ UpTo(s, j, i) PROVE FALSE
      OBVIOUS
    <3>1. j \in below(j) /\ j \notin below(i) /\ below(i) \subseteq below(j)
      BY <2>1, UpToIsTotalOrder
    <3>2. Cardinality(below(i)) = Cardinality(below(j))
      BY <1>4 DEF Place
    <3>3. below(i) = below(j)
      BY <1>1, <3>1, <3>2, FS_Subset
    <3> QED
      BY <3>1, <3>3
  <2> QED
    BY <2>1, <2>2, UpToIsTotalOrder
<1> QED
  BY <1>2, <1>3, <1>4

\* InOrder is a sort: a rearrangement, in order.
LEMMA InOrderProperties ==
    ASSUME NEW S \in SUBSET Edits, NEW s \in Seq(S)
    PROVE  /\ InOrder(s) \in Seq(S)
           /\ Len(InOrder(s)) = Len(s)
           /\ \A k \in 1..Len(s) : \E i \in DOMAIN s : Place(s, i) = k
           /\ \A i \in DOMAIN s : InOrder(s)[Place(s, i)] = s[i]
           /\ \A k, l \in 1..Len(s) :
                  k <= l => ~ Precedes(InOrder(s)[l], InOrder(s)[k])
<1> DEFINE place == [i \in DOMAIN s |-> Place(s, i)]
<1>1. s \in Seq(Edits) /\ DOMAIN s = 1..Len(s)
  OBVIOUS
<1>2. IsFiniteSet(DOMAIN s) /\ Cardinality(DOMAIN s) = Len(s)
  BY <1>1, FS_Interval
<1>3. /\ place \in [DOMAIN s -> 1..Cardinality(DOMAIN s)]
      /\ \A i, j \in DOMAIN s : place[i] = place[j] => i = j
  BY <1>1, <1>2, PlaceProperties
<1>4. InOrder(s) = Arranged(s, place)
  BY DEF InOrder, Place, UpTo
<1>5. /\ Arranged(s, place) \in Seq(S)
      /\ Len(Arranged(s, place)) = Len(s)
      /\ \A k \in 1..Len(s) : \E i \in DOMAIN s : place[i] = k
      /\ \A i \in DOMAIN s : Arranged(s, place)[place[i]] = s[i]
  <2> HIDE DEF place
  <2>1. DOMAIN s \in SUBSET DOMAIN s
    OBVIOUS
  <2>2. /\ Arranged(s, place) \in Seq(S)
        /\ Len(Arranged(s, place)) = Cardinality(DOMAIN s)
        /\ \A k \in 1..Cardinality(DOMAIN s) : \E i \in DOMAIN s : place[i] = k
        /\ \A i \in DOMAIN s : Arranged(s, place)[place[i]] = s[i]
    BY <1>3, <2>1, ArrangedProperties, SMTT(30)
  <2> QED
    BY <1>2, <2>2
<1>6. ASSUME NEW k \in 1..Len(s), NEW l \in 1..Len(s), k <= l
      PROVE  ~ Precedes(InOrder(s)[l], InOrder(s)[k])
  <2>1. PICK i \in DOMAIN s : Place(s, i) = k
    BY <1>5
  <2>2. PICK j \in DOMAIN s : Place(s, j) = l
    BY <1>5
  <2>3. UpTo(s, i, j)
    BY <1>1, <1>6, <2>1, <2>2, PlaceProperties
  <2>4. InOrder(s)[k] = s[i] /\ InOrder(s)[l] = s[j]
    BY <1>4, <1>5, <2>1, <2>2
  <2>5. ~ Precedes(s[j], s[i])
    BY <2>3, PrecedesIsWeakOrder DEF UpTo
  <2> QED
    BY <2>4, <2>5
<1> QED
  BY <1>4, <1>5, <1>6

\* Every edit of s is at its place in t.
Placed(t, s) == \A i \in DOMAIN s : t[Place(s, i)] = s[i]

\* A sequence that has every edit of s at its place is the sorted one.
LEMMA InOrderUnique ==
    ASSUME NEW S \in SUBSET Edits, NEW s \in Seq(S), NEW t \in Seq(S), Len(t) = Len(s),
           Placed(t, s)
    PROVE  t = InOrder(s)
<1> DEFINE u == InOrder(s)
<1>1. /\ u \in Seq(S) /\ Len(u) = Len(s)
      /\ \A k \in 1..Len(s) : \E i \in DOMAIN s : Place(s, i) = k
      /\ \A i \in DOMAIN s : u[Place(s, i)] = s[i]
  BY InOrderProperties
<1> HIDE DEF u
<1>2. ASSUME NEW k \in 1..Len(t)
      PROVE  t[k] = u[k]
  <2>1. PICK i \in DOMAIN s : Place(s, i) = k
    BY <1>1
  <2> QED
    BY <1>1, <2>1 DEF Placed
<1> QED
  BY <1>1, <1>2, SeqEqual DEF u

-----------------------------------------------------------------------------
(* The simulated merge and the sorted list are the same.                   *)

Ordered(s) == \A i, j \in DOMAIN s : i < j => ~ Precedes(s[j], s[i])

\* Two intervals with a gap between them.
LEMMA TwoRuns ==
    ASSUME NEW a \in Nat, NEW m \in Nat, a <= m, NEW b \in Nat
    PROVE  Cardinality((1..a) \cup (m + 1..m + b)) = a + b
<1> DEFINE A == 1..a
           B == m + 1..m + b
<1>1. IsFiniteSet(A) /\ Cardinality(A) = a
  BY FS_Interval
<1>2. IsFiniteSet(B) /\ Cardinality(B) = b
  BY FS_Interval
<1>3. A \cap B = {}
  OBVIOUS
<1>4. Cardinality(A \cap B) = 0
  BY <1>3, FS_EmptySet
<1> HIDE DEF A, B
<1>5. Cardinality(A \cup B) = Cardinality(A) + Cardinality(B) - Cardinality(A \cap B)
  BY <1>1, <1>2, FS_Union
<1>6. Cardinality(A \cup B) = a + b
  BY <1>1, <1>2, <1>4, <1>5
<1> QED
  BY <1>6 DEF A, B

\* In a sequence of two ordered parts, what is written up to an edit.
LEMMA PlacesOfTwo ==
    ASSUME NEW S \in SUBSET Edits, NEW old \in Seq(S), NEW new \in Seq(S),
           Ordered(old), Ordered(new)
    PROVE  LET s == old \o new
               m == Len(old)
           IN  /\ s \in Seq(S) /\ Len(s) = m + Len(new)
               /\ \A i \in 1..m : s[i] = old[i]
               /\ \A j \in 1..Len(new) : s[m + j] = new[j]
               /\ \A i \in 1..m, k \in 1..m : UpTo(s, k, i) <=> k <= i
               /\ \A i \in 1..m, j \in 1..Len(new) :
                      /\ UpTo(s, m + j, i) <=> Precedes(new[j], old[i])
                      /\ UpTo(s, i, m + j) <=> ~ Precedes(new[j], old[i])
               /\ \A j, l \in 1..Len(new) : UpTo(s, m + l, m + j) <=> l <= j
<1> DEFINE s == old \o new
           m == Len(old)
           n == Len(new)
<1>1. /\ s \in Seq(S) /\ Len(s) = m + n
      /\ \A i \in 1..m : s[i] = old[i]
      /\ \A j \in 1..n : s[m + j] = new[j]
  BY ConcatProperties
<1>2. m \in Nat /\ n \in Nat
  OBVIOUS
<1>3. /\ \A i \in 1..m : old[i] \in Edits
      /\ \A j \in 1..n : new[j] \in Edits
  OBVIOUS
<1>4. /\ \A i, j \in 1..m : i < j => ~ Precedes(old[j], old[i])
      /\ \A i, j \in 1..n : i < j => ~ Precedes(new[j], new[i])
  BY DEF Ordered
<1> HIDE DEF s, m, n
<1>5. \A i \in 1..m, k \in 1..m : UpTo(s, k, i) <=> k <= i
  BY <1>1, <1>2, <1>3, <1>4, PrecedesIsWeakOrder DEF UpTo
<1>6. \A i \in 1..m, j \in 1..n :
          /\ UpTo(s, m + j, i) <=> Precedes(new[j], old[i])
          /\ UpTo(s, i, m + j) <=> ~ Precedes(new[j], old[i])
  BY <1>1, <1>2, <1>3, PrecedesIsWeakOrder DEF UpTo
<1>7. \A j, l \in 1..n : UpTo(s, m + l, m + j) <=> l <= j
  <2> SUFFICES ASSUME NEW j \in 1..n, NEW l \in 1..n
               PROVE  UpTo(s, m + l, m + j) <=> l <= j
    OBVIOUS
  <2>1. UpTo(s, m + l, m + j)
            <=> Precedes(new[l], new[j]) \/ (~ Precedes(new[j], new[l]) /\ l <= j)
    BY <1>1, <1>2 DEF UpTo
  <2> QED
    BY <2>1, <1>2, <1>3, <1>4, PrecedesIsWeakOrder
<1> QED
  BY <1>1, <1>5, <1>6, <1>7 DEF s, m, n

\* stitch_merged takes the accepted edit next.
OldFirst(old, new, i, j) ==
    i < Len(old) /\ (j < Len(new) => ~ Precedes(new[j + 1], old[i + 1]))

\* What is known after k turns of the loop of stitch_merged: the edits behind come
\* before the edits ahead.
Behind(old, new, i, j) ==
    /\ i \in 0..Len(old) /\ j \in 0..Len(new)
    /\ \A a \in 1..i, b \in j + 1..Len(new) : ~ Precedes(new[b], old[a])
    /\ \A a \in i + 1..Len(old), b \in 1..j : Precedes(new[b], old[a])

\* The next of the edits ahead has the next place.
LEMMA NextPlace ==
    ASSUME NEW S \in SUBSET Edits, NEW old \in Seq(S), NEW new \in Seq(S),
           Ordered(old), Ordered(new), NEW i, NEW j, Behind(old, new, i, j)
    PROVE  /\ Behind(old, new, i + 1, j) => Place(old \o new, i + 1) = i + j + 1
           /\ Behind(old, new, i, j + 1)
                  => Place(old \o new, Len(old) + j + 1) = i + j + 1
<1> DEFINE s == old \o new
           m == Len(old)
           n == Len(new)
<1>1. /\ s \in Seq(S) /\ Len(s) = m + n
      /\ \A a \in 1..m, k \in 1..m : UpTo(s, k, a) <=> k <= a
      /\ \A a \in 1..m, b \in 1..n :
             /\ UpTo(s, m + b, a) <=> Precedes(new[b], old[a])
             /\ UpTo(s, a, m + b) <=> ~ Precedes(new[b], old[a])
      /\ \A b, l \in 1..n : UpTo(s, m + l, m + b) <=> l <= b
  BY PlacesOfTwo
<1>2. /\ m \in Nat /\ n \in Nat /\ i \in Nat /\ j \in Nat /\ i <= m /\ j <= n
      /\ \A a \in 1..i, b \in j + 1..n : ~ Precedes(new[b], old[a])
      /\ \A a \in i + 1..m, b \in 1..j : Precedes(new[b], old[a])
  BY DEF Behind
<1>7. /\ Behind(old, new, i + 1, j)
             => i < m /\ \A l \in j + 1..n : ~ Precedes(new[l], old[i + 1])
      /\ Behind(old, new, i, j + 1)
             => j < n /\ \A k \in i + 1..m : Precedes(new[j + 1], old[k])
  BY <1>2 DEF Behind
<1> HIDE DEF s, m, n
<1>3. DOMAIN s = 1..m + n
  BY <1>1
<1>4. ASSUME NEW k \in DOMAIN s, k \notin 1..m
      PROVE  \E l \in 1..n : k = m + l
  <2>1. k - m \in 1..n /\ k = m + (k - m)
    BY <1>2, <1>3, <1>4
  <2> QED
    BY <2>1
<1>5. ASSUME i < m, \A l \in j + 1..n : ~ Precedes(new[l], old[i + 1])
      PROVE  Place(s, i + 1) = i + j + 1
  <2>1. ASSUME NEW k \in DOMAIN s
        PROVE  UpTo(s, k, i + 1) <=> k \in (1..i + 1) \cup (m + 1..m + j)
    <3>1. CASE k \in 1..m
      BY <3>1, <1>1, <1>2, <1>5
    <3>2. CASE k \notin 1..m
      <4>1. PICK l \in 1..n : k = m + l
        BY <3>2, <1>4
      <4>2. UpTo(s, k, i + 1) <=> Precedes(new[l], old[i + 1])
        BY <4>1, <1>1, <1>2, <1>5
      <4>3. Precedes(new[l], old[i + 1]) <=> l <= j
        BY <1>2, <1>5
      <4>4. k \in (1..i + 1) \cup (m + 1..m + j) <=> l <= j
        BY <3>2, <4>1, <1>2, <1>5
      <4> QED
        BY <4>2, <4>3, <4>4
    <3> QED
      BY <3>1, <3>2
  <2>2. (1..i + 1) \cup (m + 1..m + j) \subseteq DOMAIN s
    BY <1>2, <1>3, <1>5
  <2>3. {k \in DOMAIN s : UpTo(s, k, i + 1)} = (1..i + 1) \cup (m + 1..m + j)
    BY <2>1, <2>2
  <2>4. i + 1 \in Nat /\ i + 1 <= m
    BY <1>2, <1>5
  <2>5. Cardinality((1..i + 1) \cup (m + 1..m + j)) = (i + 1) + j
    BY <1>2, <2>4, TwoRuns
  <2>6. Place(s, i + 1) = (i + 1) + j
    BY <2>3, <2>5 DEF Place
  <2> QED
    BY <2>6, <1>2
<1>6. ASSUME j < n, \A k \in i + 1..m : Precedes(new[j + 1], old[k])
      PROVE  Place(s, m + j + 1) = i + j + 1
  <2>0. m + j + 1 = m + (j + 1) /\ j + 1 \in 1..n
    BY <1>2, <1>6
  <2>1. ASSUME NEW k \in DOMAIN s
        PROVE  UpTo(s, k, m + (j + 1)) <=> k \in (1..i) \cup (m + 1..m + (j + 1))
    <3>1. CASE k \in 1..m
      <4>1. UpTo(s, k, m + (j + 1)) <=> ~ Precedes(new[j + 1], old[k])
        BY <3>1, <1>1, <2>0
      <4>2. ~ Precedes(new[j + 1], old[k]) <=> k <= i
        BY <3>1, <1>2, <1>6
      <4>3. k \in (1..i) \cup (m + 1..m + (j + 1)) <=> k <= i
        BY <3>1, <1>2
      <4> QED
        BY <4>1, <4>2, <4>3
    <3>2. CASE k \notin 1..m
      <4>1. PICK l \in 1..n : k = m + l
        BY <3>2, <1>4
      <4>2. UpTo(s, k, m + (j + 1)) <=> l <= j + 1
        BY <4>1, <1>1, <2>0
      <4>3. k \in (1..i) \cup (m + 1..m + (j + 1)) <=> l <= j + 1
        BY <3>2, <4>1, <1>2
      <4> QED
        BY <4>2, <4>3
    <3> QED
      BY <3>1, <3>2
  <2>2. (1..i) \cup (m + 1..m + (j + 1)) \subseteq DOMAIN s
    BY <1>2, <1>3, <2>0
  <2>3. {k \in DOMAIN s : UpTo(s, k, m + (j + 1))} = (1..i) \cup (m + 1..m + (j + 1))
    BY <2>1, <2>2
  <2>4. j + 1 \in Nat
    BY <1>2
  <2>5. Cardinality((1..i) \cup (m + 1..m + (j + 1))) = i + (j + 1)
    BY ZenonT(30), <1>2, <2>4, TwoRuns
  <2>6. Place(s, m + (j + 1)) = i + (j + 1)
    BY <2>3, <2>5 DEF Place
  <2> QED
    BY <2>0, <2>6, <1>2
<1> QED
  BY <1>5, <1>6, <1>7 DEF s, m, n

\* A turn of stitch_merged writes the edit whose place it is.
LEMMA MergeTurn ==
    ASSUME NEW S \in SUBSET Edits, NEW old \in Seq(S), NEW new \in Seq(S),
           Ordered(old), Ordered(new),
           NEW i, NEW j, Behind(old, new, i, j), i + j < Len(old) + Len(new)
    PROVE  /\ OldFirst(old, new, i, j) => Behind(old, new, i + 1, j)
           /\ ~ OldFirst(old, new, i, j) => Behind(old, new, i, j + 1)
<1> DEFINE m == Len(old)
           n == Len(new)
<1>1. /\ m \in Nat /\ n \in Nat /\ i \in 0..m /\ j \in 0..n
      /\ \A a \in 1..i, b \in j + 1..n : ~ Precedes(new[b], old[a])
      /\ \A a \in i + 1..m, b \in 1..j : Precedes(new[b], old[a])
  BY DEF Behind
<1>2. /\ \A a \in 1..m : old[a] \in Edits
      /\ \A b \in 1..n : new[b] \in Edits
      /\ \A a, b \in 1..m : a < b => ~ Precedes(old[b], old[a])
      /\ \A a, b \in 1..n : a < b => ~ Precedes(new[b], new[a])
  BY DEF Ordered
<1>3. i + j < m + n
  OBVIOUS
<1>4. \A a, b : Behind(old, new, a, b) <=>
          /\ a \in 0..m /\ b \in 0..n
          /\ \A c \in 1..a, d \in b + 1..n : ~ Precedes(new[d], old[c])
          /\ \A c \in a + 1..m, d \in 1..b : Precedes(new[d], old[c])
  BY DEF Behind
<1> HIDE DEF m, n
<1>6. ASSUME i < m, j < n => ~ Precedes(new[j + 1], old[i + 1])
      PROVE  Behind(old, new, i + 1, j)
  <2>1. ASSUME NEW b \in j + 1..n
        PROVE  ~ Precedes(new[b], old[i + 1])
    <3>1. j < n /\ j + 1 \in 1..n /\ b \in 1..n /\ i + 1 \in 1..m
      BY <1>1, <1>6
    <3>2. b = j + 1 \/ ~ Precedes(new[b], new[j + 1])
      BY <1>1, <1>2, <3>1
    <3>3. ~ Precedes(new[j + 1], old[i + 1])
      BY <1>6, <3>1
    <3> QED
      BY <1>2, <3>1, <3>2, <3>3, PrecedesIsWeakOrder
  <2>2. \A b \in 1..j : Precedes(new[b], old[i + 1])
    BY <1>1, <1>6
  <2>3. \A a \in 1..i + 1, b \in j + 1..n : ~ Precedes(new[b], old[a])
    BY <1>1, <2>1
  <2>4. \A a \in (i + 1) + 1..m, b \in 1..j : Precedes(new[b], old[a])
    BY <1>1
  <2>5. i + 1 \in 0..m
    BY <1>1, <1>6
  <2> QED
    BY <1>1, <1>4, <2>3, <2>4, <2>5
<1>7. ASSUME ~ (i < m /\ (j < n => ~ Precedes(new[j + 1], old[i + 1])))
      PROVE  Behind(old, new, i, j + 1)
  <2>1. j < n
    BY <1>1, <1>3, <1>7
  <2>2. ASSUME NEW a \in i + 1..m
        PROVE  Precedes(new[j + 1], old[a])
    <3>1. i < m /\ j + 1 \in 1..n /\ a \in 1..m /\ i + 1 \in 1..m
      BY <1>1, <2>1
    <3>2. a = i + 1 \/ ~ Precedes(old[a], old[i + 1])
      BY <1>1, <1>2, <3>1
    <3>3. Precedes(new[j + 1], old[i + 1])
      BY <1>7, <2>1, <3>1
    <3> QED
      BY <1>2, <3>1, <3>2, <3>3, PrecedesIsWeakOrder
  <2>3. \A a \in 1..i : ~ Precedes(new[j + 1], old[a])
    BY <1>1, <2>1
  <2>4. \A a \in i + 1..m, b \in 1..j + 1 : Precedes(new[b], old[a])
    BY <1>1, <2>2
  <2>5. \A a \in 1..i, b \in (j + 1) + 1..n : ~ Precedes(new[b], old[a])
    BY <1>1
  <2>6. j + 1 \in 0..n
    BY <1>1, <2>1
  <2> QED
    BY <1>1, <1>4, <2>4, <2>5, <2>6
<1> QED
  BY <1>6, <1>7 DEF m, n, OldFirst

\* stitch_merged goes through the edits in the order of the stable sort of the
\* accepted edits followed by the new ones: the order they are kept in when accepted.
LEMMA MergedIsInOrder ==
    ASSUME NEW S \in SUBSET Edits, NEW old \in Seq(S), NEW new \in Seq(S),
           Ordered(old), Ordered(new)
    PROVE  Merged(old, new) = InOrder(old \o new)
<1> DEFINE m == Len(old)
           n == Len(new)
           s == old \o new
           oldFirst == {at \in (0..m - 1) \X (0..n) :
                            at[2] < n => ~ Precedes(new[at[2] + 1], old[at[1] + 1])}
           passed == Turns(m + n, oldFirst)
           t == Merged(old, new)
<1>1. m \in Nat /\ n \in Nat /\ m + n \in Nat
  OBVIOUS
<1>2. t = [k \in 1..m + n |->
              IF <<passed[k - 1], k - 1 - passed[k - 1]>> \in oldFirst
              THEN old[passed[k - 1] + 1] ELSE new[k - 1 - passed[k - 1] + 1]]
  BY DEF Merged, InTurn
<1>3. ASSUME NEW i \in 0..m, NEW j \in 0..n
      PROVE  <<i, j>> \in oldFirst
                 <=> OldFirst(old, new, i, j)
  BY <1>1 DEF OldFirst
<1>4. s \in Seq(S) /\ Len(s) = m + n
      /\ (\A i \in 1..m : s[i] = old[i]) /\ (\A j \in 1..n : s[m + j] = new[j])
  BY PlacesOfTwo
<1> HIDE DEF oldFirst
<1>5. /\ passed \in [0..m + n -> Nat]
      /\ passed[0] = 0
      /\ \A k \in 1..m + n : passed[k] =
             LET i == passed[k - 1]
             IN  IF <<i, k - 1 - i>> \in oldFirst THEN i + 1 ELSE i
  BY <1>1, TurnsProperties
<1> HIDE DEF passed, t, s, m, n
<1>6. ASSUME NEW k \in 0..m + n - 1, Behind(old, new, passed[k], k - passed[k])
      PROVE  /\ Behind(old, new, passed[k + 1], (k + 1) - passed[k + 1])
             /\ \E a \in DOMAIN s : Place(s, a) = k + 1 /\ t[k + 1] = s[a]
  <2> DEFINE i == passed[k]
             j == k - passed[k]
  <2>1. /\ k \in Nat /\ k + 1 \in 1..m + n /\ (k + 1) - 1 = k
        /\ i \in Nat /\ j \in Int /\ i + j = k /\ i + j < m + n
    BY <1>1, <1>5
  <2>2. i \in 0..m /\ j \in 0..n
    BY <1>6 DEF Behind, m, n
  <2>3. passed[k + 1] = IF <<i, j>> \in oldFirst THEN i + 1 ELSE i
    BY <1>5, <2>1
  <2>4. t[k + 1] = IF <<i, j>> \in oldFirst THEN old[i + 1] ELSE new[j + 1]
    BY <1>2, <2>1
  <2>5. /\ <<i, j>> \in oldFirst => /\ Behind(old, new, i + 1, j)
                                    /\ i < m /\ Place(s, i + 1) = i + j + 1
        /\ <<i, j>> \notin oldFirst => /\ Behind(old, new, i, j + 1)
                                       /\ Place(s, m + j + 1) = i + j + 1
    <3> HIDE DEF i, j
    <3>1. Behind(old, new, i, j)
      BY <1>6 DEF i, j
    <3>2. /\ OldFirst(old, new, i, j) => Behind(old, new, i + 1, j)
          /\ ~ OldFirst(old, new, i, j) => Behind(old, new, i, j + 1)
      BY <2>1, <3>1, MergeTurn DEF m, n
    <3>3. /\ Behind(old, new, i + 1, j) => Place(s, i + 1) = i + j + 1
          /\ Behind(old, new, i, j + 1) => Place(s, m + j + 1) = i + j + 1
      BY <3>1, NextPlace DEF m, s
    <3>4. OldFirst(old, new, i, j) => i < m
      BY DEF OldFirst, m
    <3> QED
      BY <1>3, <2>2, <3>2, <3>3, <3>4
  <2>6. CASE <<i, j>> \in oldFirst
    <3>1. passed[k + 1] = i + 1 /\ (k + 1) - passed[k + 1] = j
      BY SMTT(30), <2>1, <2>3, <2>6
    <3>2. i + 1 \in 1..m /\ i + 1 \in DOMAIN s /\ s[i + 1] = old[i + 1]
      BY SMTT(30), <1>1, <1>4, <2>1, <2>5, <2>6
    <3>3. i + j + 1 = k + 1
      BY <2>1
    <3> QED
      BY <2>4, <2>5, <2>6, <3>1, <3>2, <3>3
  <2>7. CASE <<i, j>> \notin oldFirst
    <3>1. passed[k + 1] = i /\ (k + 1) - passed[k + 1] = j + 1
      <4>1. passed[k + 1] = i
        BY <2>3, <2>7
      <4>2. (k + 1) - i = j + 1
        BY SMTT(30), <2>1
      <4> QED
        BY <4>1, <4>2
    <3>2. j + 1 \in 1..n
      <4>1. j + 1 \in 0..n
        BY <2>5, <2>7 DEF Behind, n
      <4> QED
        BY <4>1, <2>2
    <3>3. m + j + 1 = m + (j + 1) /\ m + (j + 1) \in 1..m + n
      <4> HIDE DEF j
      <4> QED
        BY <1>1, <2>2, <3>2
    <3>5. m + j + 1 \in DOMAIN s /\ s[m + j + 1] = new[j + 1]
      <4> HIDE DEF j
      <4> QED
        BY <1>4, <3>2, <3>3
    <3>4. i + j + 1 = k + 1
      BY <2>1
    <3> QED
      BY <2>4, <2>5, <2>7, <3>1, <3>4, <3>5
  <2> QED
    BY <2>6, <2>7
<1>7. \A k \in 0..m + n : Behind(old, new, passed[k], k - passed[k])
  <2> DEFINE T == {k \in Nat : k <= m + n => Behind(old, new, passed[k], k - passed[k])}
  <2>1. 0 \in T
    <3>1. Behind(old, new, 0, 0)
      BY DEF Behind
    <3>2. passed[0] = 0 /\ 0 - passed[0] = 0
      BY <1>5
    <3> QED
      BY <3>1, <3>2
  <2>2. ASSUME NEW k \in Nat, k \in T
        PROVE  k + 1 \in T
    <3> SUFFICES ASSUME k + 1 <= m + n
                 PROVE  Behind(old, new, passed[k + 1], (k + 1) - passed[k + 1])
      OBVIOUS
    <3>1. k \in 0..m + n - 1 /\ Behind(old, new, passed[k], k - passed[k])
      BY <1>1, <2>2
    <3> QED
      BY <3>1, <1>6
  <2> HIDE DEF T
  <2>3. Nat \subseteq T
    BY <2>1, <2>2, Induction
  <2> QED
    BY <2>3, <1>1 DEF T
<1>8. ASSUME NEW k \in 1..m + n
      PROVE  \E a \in DOMAIN s : Place(s, a) = k /\ t[k] = s[a]
  <2>1. k - 1 \in 0..m + n - 1 /\ (k - 1) + 1 = k /\ k - 1 \in 0..m + n
    BY <1>1
  <2> QED
    BY <2>1, <1>6, <1>7
<1>9. s \in Seq(Edits) /\ DOMAIN s = 1..m + n
  BY <1>4
<1>10. ASSUME NEW a \in DOMAIN s
       PROVE  t[Place(s, a)] = s[a]
  <2>1. Place(s, a) \in 1..m + n
    BY <1>4, <1>9, PlaceProperties
  <2>2. PICK b \in DOMAIN s : Place(s, b) = Place(s, a) /\ t[Place(s, a)] = s[b]
    BY <1>8, <2>1
  <2>3. a = b
    BY <1>9, <2>2, PlaceProperties
  <2> QED
    BY <2>2, <2>3
<1>11. t \in Seq(S) /\ Len(t) = m + n
  <2>1. \A k \in 1..m + n : t[k] \in S
    <3> SUFFICES ASSUME NEW k \in 1..m + n PROVE t[k] \in S
      OBVIOUS
    <3>1. PICK a \in DOMAIN s : t[k] = s[a]
      BY <1>8
    <3> QED
      BY <3>1, <1>4
  <2>2. DOMAIN t = 1..m + n /\ t = [k \in 1..m + n |-> t[k]]
    BY <1>2
  <2> QED
    BY <1>1, <2>1, <2>2
<1>12. t = InOrder(s)
  <2>1. Placed(t, s)
    BY <1>10 DEF Placed
  <2>2. s \in Seq(S) /\ Len(t) = Len(s)
    BY <1>4, <1>11
  <2> QED
    BY <1>11, <2>1, <2>2, InOrderUnique
<1> QED
  BY <1>12 DEF s, t

-----------------------------------------------------------------------------
(* Accepting one edit.                                                     *)

\* What the checks let pass is an edit whose range lies in the text.
LEMMA AcceptableType ==
    ASSUME NEW e \in Acceptable
    PROVE  /\ e \in Edits /\ e.start \in Nat /\ e.end \in Nat /\ e.text \in Seq(STRING)
           /\ e.start <= e.end /\ e.end <= Length
BY EditAssumption DEF Acceptable

\* The text is a sequence of bytes.
LEMMA LengthType == Length \in Nat /\ Source \in Seq(STRING) /\ Len(Source) = Length
BY EditAssumption DEF Length

\* Where the binary search ends and the edit there does not overlap, the new edit has
\* its place in the order, although the search goes by the ends and the order does not.
LEMMA PlaceOfOne ==
    ASSUME NEW old \in Seq(Acceptable), Ordered(old), NEW e \in Acceptable,
           NEW i \in 0..Len(old),
           i > 0 => old[i].end <= e.start,
           i < Len(old) => e.start < old[i + 1].end /\ ~ Overlaps(old[i + 1], e)
    PROVE  /\ \A k \in 1..i : ~ Precedes(e, old[k])
           /\ \A k \in i + 1..Len(old) : Precedes(e, old[k])
<1> DEFINE m == Len(old)
<1>1. m \in Nat /\ i \in Nat /\ i <= m /\ e \in Edits
      /\ \A k \in 1..m : old[k] \in Acceptable /\ old[k] \in Edits
  BY AcceptableType
<1>2. \A a, b \in 1..m : a < b => ~ Precedes(old[b], old[a])
  BY DEF Ordered
<1> HIDE DEF m
<1>3. ASSUME NEW k \in 1..i
      PROVE  ~ Precedes(e, old[k])
  <2>1. old[i].end <= e.start /\ old[i] \in Acceptable /\ i \in 1..m /\ k \in 1..m
    BY <1>1
  <2>2. ~ Precedes(e, old[i])
    BY SMTT(30), <2>1, AcceptableType DEF Precedes
  <2>3. k = i \/ ~ Precedes(old[i], old[k])
    BY <1>1, <1>2, <2>1
  <2> QED
    BY <1>1, <2>1, <2>2, <2>3, PrecedesIsWeakOrder
<1>4. ASSUME NEW k \in i + 1..m
      PROVE  Precedes(e, old[k])
  <2>1. i < m /\ i + 1 \in 1..m /\ k \in 1..m
    BY <1>1
  <2> DEFINE f == old[i + 1]
  <2>2. f \in Acceptable /\ e.start < f.end /\ ~ Overlaps(f, e)
    BY <1>1, <2>1 DEF m
  <2> HIDE DEF f
  <2>3. Precedes(e, f)
    BY <2>2, AcceptableType DEF Precedes, Overlaps, IsEmpty
  <2>4. k = i + 1 \/ ~ Precedes(old[k], f)
    BY <1>1, <1>2, <2>1 DEF f
  <2> QED
    BY <1>1, <2>1, <2>3, <2>4, PrecedesIsWeakOrder DEF f
<1> QED
  BY <1>3, <1>4 DEF m

\* So inserting it there keeps the list sorted, and is what stitch_one simulated.
LEMMA InsertIsInOrder ==
    ASSUME NEW old \in Seq(Acceptable), Ordered(old), NEW e \in Acceptable,
           NEW i \in 0..Len(old),
           i > 0 => old[i].end <= e.start,
           i < Len(old) => e.start < old[i + 1].end /\ ~ Overlaps(old[i + 1], e)
    PROVE  InsertAt(old, i + 1, e) = InOrder(old \o <<e>>)
<1> DEFINE m == Len(old)
           new == <<e>>
           s == old \o new
           t == InsertAt(old, i + 1, e)
<1>1. Acceptable \in SUBSET Edits
  BY AcceptableType
<1>2. new \in Seq(Acceptable) /\ Len(new) = 1 /\ new[1] = e /\ Ordered(new)
  BY DEF Ordered
<1>3. m \in Nat /\ i \in Nat /\ i <= m
  OBVIOUS
<1>4. /\ \A k \in 1..i : ~ Precedes(e, old[k])
      /\ \A k \in i + 1..m : Precedes(e, old[k])
  BY PlaceOfOne
<1>5. /\ s \in Seq(Acceptable) /\ Len(s) = m + 1
      /\ \A k \in 1..m : s[k] = old[k]
      /\ s[m + 1] = e
  BY <1>1, <1>2, PlacesOfTwo
<1>6. /\ t \in Seq(Acceptable) /\ Len(t) = m + 1
      /\ \A k \in 1..m + 1 : t[k] =
             IF k <= i THEN old[k] ELSE IF k = i + 1 THEN e ELSE old[k - 1]
  BY InsertAtProperties
<1> HIDE DEF m, new, s, t
<1>7. /\ \A a \in 0..i : Behind(old, new, a, 0)
      /\ \A a \in i..m : Behind(old, new, a, 1)
  BY <1>2, <1>3, <1>4 DEF Behind, m
<1>8. \A a, b : Behind(old, new, a, b) =>
          /\ Behind(old, new, a + 1, b) => Place(s, a + 1) = a + b + 1
          /\ Behind(old, new, a, b + 1) => Place(s, m + b + 1) = a + b + 1
  BY <1>1, <1>2, NextPlace DEF m, s
<1>9. ASSUME NEW k \in 1..i
      PROVE  Place(s, k) = k
  <2>1. Behind(old, new, k - 1, 0) /\ Behind(old, new, (k - 1) + 1, 0)
    BY <1>3, <1>7
  <2>2. Place(s, (k - 1) + 1) = (k - 1) + 0 + 1
    BY <1>8, <2>1
  <2> QED
    BY <1>3, <2>2
<1>10. ASSUME NEW k \in i + 1..m
       PROVE  Place(s, k) = k + 1
  <2>1. Behind(old, new, k - 1, 1) /\ Behind(old, new, (k - 1) + 1, 1)
    BY <1>3, <1>7
  <2>2. Place(s, (k - 1) + 1) = (k - 1) + 1 + 1
    BY <1>8, <2>1
  <2> QED
    BY <1>3, <2>2
<1>11. Place(s, m + 1) = i + 1
  <2>1. Behind(old, new, i, 0) /\ Behind(old, new, i, 0 + 1)
    BY <1>3, <1>7
  <2>2. Place(s, m + 0 + 1) = i + 0 + 1
    BY <1>8, <2>1
  <2> QED
    BY <1>3, <2>2
<1>12. ASSUME NEW k \in DOMAIN s
       PROVE  t[Place(s, k)] = s[k]
  <2>1. k \in 1..m + 1
    BY <1>5
  <2>2. CASE k \in 1..i
    BY <2>2, <1>3, <1>5, <1>6, <1>9
  <2>3. CASE k \in i + 1..m
    <3>1. Place(s, k) = k + 1 /\ s[k] = old[k]
      BY <2>3, <1>3, <1>5, <1>10
    <3>2. k + 1 \in 1..m + 1 /\ ~ (k + 1 <= i) /\ k + 1 # i + 1 /\ (k + 1) - 1 = k
      BY <2>3, <1>3
    <3> QED
      BY <1>6, <3>1, <3>2
  <2>4. CASE k = m + 1
    BY <2>4, <1>3, <1>5, <1>6, <1>11
  <2> QED
    BY <1>3, <2>1, <2>2, <2>3, <2>4
<1>13. t = InOrder(s)
  <2>1. Placed(t, s)
    BY <1>12 DEF Placed
  <2>2. /\ s \in Seq(Acceptable) /\ t \in Seq(Acceptable) /\ Len(t) = Len(s)
        /\ Acceptable \in SUBSET Edits
    BY <1>1, <1>5, <1>6
  <2> QED
    BY <2>1, <2>2, InOrderUnique
<1> QED
  BY <1>13 DEF t, s, new

-----------------------------------------------------------------------------
(* Writing, and what rearranging a sequence preserves.                     *)

\* Joining is associative.
LEMMA Associative ==
    \A s, t, u \in Seq(STRING) : (s \o t) \o u = s \o (t \o u)
BY ConcatAssociative

Page == [written : Seq(STRING), upto : Nat]

\* What is written, and the rest of the text up to offset p.
Filled(page, p) == page.written \o SubSeq(Source, page.upto + 1, p)

\* A part of the text is a sequence of bytes, empty if it ends before it starts, one byte
\* longer if it ends one byte later.
LEMMA PartOfSource ==
    ASSUME NEW a \in Nat, NEW b \in Nat, b <= Length
    PROVE  /\ SubSeq(Source, a + 1, b) \in Seq(STRING)
           /\ b <= a => SubSeq(Source, a + 1, b) = <<>>
           /\ a <= b /\ b < Length =>
                  /\ <<Source[b + 1]>> \in Seq(STRING)
                  /\ SubSeq(Source, a + 1, b + 1) = SubSeq(Source, a + 1, b) \o <<Source[b + 1]>>
<1>1. Source \in Seq(STRING) /\ Len(Source) = Length /\ Length \in Nat
  BY LengthType
<1>2. \A i \in a + 1..b : Source[i] \in STRING
  BY <1>1
<1>3. SubSeq(Source, a + 1, b) \in Seq(STRING)
  BY <1>2, SubSeqProperties
<1>4. b <= a => SubSeq(Source, a + 1, b) = <<>>
  BY SubSeqEmpty
<1>5. ASSUME a <= b, b < Length
      PROVE  /\ <<Source[b + 1]>> \in Seq(STRING)
             /\ SubSeq(Source, a + 1, b + 1) = SubSeq(Source, a + 1, b) \o <<Source[b + 1]>>
  <2>1. a + 1 \in 1..Len(Source) /\ b + 1 \in a + 1..Len(Source) /\ (b + 1) - 1 = b
    BY <1>1, <1>5
  <2>2. SubSeq(Source, a + 1, b + 1) = SubSeq(Source, a + 1, (b + 1) - 1) \o <<Source[b + 1]>>
    BY <1>1, <2>1, SubSeqRecursiveSecond
  <2>3. Source[b + 1] \in STRING
    BY <1>1, <1>5
  <2> QED
    BY <2>1, <2>2, <2>3
<1> QED
  BY <1>3, <1>4, <1>5

\* It is a sequence of bytes.
LEMMA FilledType ==
    ASSUME NEW page \in Page, NEW p \in Nat, p <= Length
    PROVE  Filled(page, p) \in Seq(STRING)
<1>1. page.written \in Seq(STRING) /\ page.upto \in Nat
  BY DEF Page
<1>2. SubSeq(Source, page.upto + 1, p) \in Seq(STRING)
  BY <1>1, PartOfSource
<1> QED
  BY <1>1, <1>2, ConcatProperties DEF Filled

\* The byte at p is kept if the page is not beyond it.
LEMMA FillOneByte ==
    ASSUME NEW page \in Page, NEW p \in Nat, p < Length
    PROVE  Filled(page, p + 1) = Filled(page, p)
               \o (IF page.upto <= p THEN <<Source[p + 1]>> ELSE <<>>)
<1>1. page.written \in Seq(STRING) /\ page.upto \in Nat /\ Length \in Nat /\ p <= Length
  BY LengthType DEF Page
<1>2. SubSeq(Source, page.upto + 1, p) \in Seq(STRING)
  BY <1>1, PartOfSource
<1>3. CASE page.upto <= p
  <2>1. /\ <<Source[p + 1]>> \in Seq(STRING)
        /\ SubSeq(Source, page.upto + 1, p + 1)
               = SubSeq(Source, page.upto + 1, p) \o <<Source[p + 1]>>
    BY <1>1, <1>3, PartOfSource
  <2>2. page.written \o (SubSeq(Source, page.upto + 1, p) \o <<Source[p + 1]>>)
            = (page.written \o SubSeq(Source, page.upto + 1, p)) \o <<Source[p + 1]>>
    <3> DEFINE a == page.written
               b == SubSeq(Source, page.upto + 1, p)
               c == <<Source[p + 1]>>
    <3>1. a \in Seq(STRING) /\ b \in Seq(STRING) /\ c \in Seq(STRING)
      BY <1>1, <1>2, <2>1
    <3> HIDE DEF a, b, c
    <3>2. a \o (b \o c) = (a \o b) \o c
      BY <3>1, Associative, Zenon
    <3> QED
      BY <3>2 DEF a, b, c
  <2> QED
    BY <1>3, <2>1, <2>2 DEF Filled
<1>4. CASE ~ page.upto <= p
  <2>1. SubSeq(Source, page.upto + 1, p) = <<>> /\ SubSeq(Source, page.upto + 1, p + 1) = <<>>
    BY <1>1, <1>4, PartOfSource
  <2>2. (page.written \o <<>>) \o <<>> = page.written \o <<>>
    BY <1>1, ConcatProperties, ConcatEmptySeq
  <2> QED
    BY <1>4, <2>1, <2>2 DEF Filled
<1> QED
  BY <1>3, <1>4

\* An edit at p adds its text to what is written up to p, and the text goes on behind it.
LEMMA WriteFills ==
    ASSUME NEW page \in Page, NEW e \in Acceptable
    PROVE  /\ Write(page, e) \in Page
           /\ Write(page, e).upto = e.end
           /\ Filled(page, e.start) \in Seq(STRING)
           /\ IsEmpty(e) => Filled(Write(page, e), e.start) = Filled(page, e.start) \o e.text
           /\ ~ IsEmpty(e) =>
                  /\ e.start < Length
                  /\ Filled(Write(page, e), e.start + 1) = Filled(page, e.start) \o e.text
<1>1. /\ page.written \in Seq(STRING) /\ page.upto \in Nat /\ Length \in Nat
      /\ e.start \in Nat /\ e.end \in Nat /\ e.text \in Seq(STRING)
      /\ e.start <= e.end /\ e.end <= Length /\ e.start <= Length
  BY LengthType, AcceptableType DEF Page
<1>2. SubSeq(Source, page.upto + 1, e.start) \in Seq(STRING)
  BY <1>1, PartOfSource
<1>3. Filled(page, e.start) \in Seq(STRING)
  BY <1>1, <1>2, ConcatProperties DEF Filled
<1>4. Filled(page, e.start) \o e.text \in Seq(STRING)
  BY <1>1, <1>3, ConcatProperties
<1>5. Write(page, e) = [written |-> Filled(page, e.start) \o e.text, upto |-> e.end]
  BY DEF Write, Filled
<1>6. /\ Write(page, e) \in Page /\ Write(page, e).upto = e.end
      /\ Write(page, e).written = Filled(page, e.start) \o e.text
  <2> DEFINE text == Filled(page, e.start) \o e.text
  <2>1. text \in Seq(STRING) /\ Write(page, e) = [written |-> text, upto |-> e.end]
    BY <1>4, <1>5
  <2> HIDE DEF text
  <2>2. Write(page, e) \in Page /\ Write(page, e).upto = e.end /\ Write(page, e).written = text
    BY <1>1, <2>1 DEF Page
  <2> QED
    BY <2>2 DEF text
<1>7. ASSUME NEW q \in Nat, q <= e.end, q <= Length
      PROVE  Filled(Write(page, e), q) = Filled(page, e.start) \o e.text
  <2>1. SubSeq(Source, e.end + 1, q) = <<>>
    BY <1>1, <1>7, PartOfSource
  <2> QED
    BY <1>4, <1>6, <2>1, ConcatEmptySeq DEF Filled
<1>8. IsEmpty(e) => e.start <= e.end /\ e.start <= Length
  BY <1>1
<1>9. ~ IsEmpty(e) => e.start + 1 <= e.end /\ e.start + 1 <= Length /\ e.start < Length
  BY <1>1 DEF IsEmpty
<1>10. IsEmpty(e) => Filled(Write(page, e), e.start) = Filled(page, e.start) \o e.text
  BY <1>1, <1>7, <1>8
<1>11. ~ IsEmpty(e) => Filled(Write(page, e), e.start + 1) = Filled(page, e.start) \o e.text
  <2>1. e.start + 1 \in Nat
    BY <1>1
  <2> QED
    BY <1>7, <1>9, <2>1
<1> QED
  BY <1>3, <1>6, <1>9, <1>10, <1>11

\* The pages of stitch.
Pages(s, page) ==
    /\ page[0] = [written |-> <<>>, upto |-> 0]
    /\ \A k \in 1..Len(s) : page[k] = Write(page[k - 1], s[k])

\* stitch writes page after page, and the rest of the text behind the last one.
LEMMA StitchPages ==
    ASSUME NEW s \in Seq(Acceptable)
    PROVE  \E page \in [0..Len(s) -> Page] :
               Pages(s, page) /\ Stitch(s) = Filled(page[Len(s)], Length)
<1> DEFINE n == Len(s)
           blank == [written |-> <<>>, upto |-> 0]
           step == [k \in 1..n |-> [p \in Page |-> Write(p, s[k])]]
<1>1. n \in Nat /\ \A k \in 1..n : s[k] \in Acceptable
  OBVIOUS
<1> DEFINE Eq(g) == g = [k \in 0..n |-> IF k = 0 THEN blank ELSE Write(g[k - 1], s[k])]
<1>2. \E f \in [0..n -> Page] : Eq(f)
  <2>1. blank \in Page
    BY DEF Page
  <2>2. step \in [1..n -> [Page -> Page]]
    BY <1>1, WriteFills
  <2> HIDE DEF step, blank
  <2>3. PICK f \in [0..n -> Page] : Solves(f, n, blank, step)
    BY <1>1, <2>1, <2>2, Recursion
  <2>4. ASSUME NEW k \in 1..n
        PROVE  f[k] = Write(f[k - 1], s[k])
    <3>1. f[k] = step[k][f[k - 1]] /\ f[k - 1] \in Page
      BY <1>1, <2>3 DEF Solves
    <3>2. step[k][f[k - 1]] = Write(f[k - 1], s[k])
      BY <3>1 DEF step
    <3> QED
      BY <3>1, <3>2
  <2>5. f[0] = blank
    BY <2>3 DEF Solves
  <2>6. \A k \in 0..n : f[k] = IF k = 0 THEN blank ELSE Write(f[k - 1], s[k])
    BY <1>1, <2>4, <2>5
  <2>7. Eq(f)
    BY <2>6
  <2> QED
    BY <2>7
<1> DEFINE page == CHOOSE g : Eq(g)
<1>3. Stitch(s) = Filled(page[n], Length)
  BY DEF Stitch, Filled
<1>4. Eq(page)
  <2> HIDE DEF Eq
  <2> QED
    BY <1>2
<1> HIDE DEF page, blank
<1>5. page[0] = blank /\ \A k \in 1..n : page[k] = Write(page[k - 1], s[k])
  BY <1>1, <1>4
<1>6. \A k \in 0..n : page[k] \in Page
  <2> DEFINE T == {k \in Nat : k <= n => page[k] \in Page}
  <2>1. 0 \in T
    <3>1. blank \in Page
      BY DEF blank, Page
    <3> QED
      BY <3>1, <1>5
  <2>2. ASSUME NEW k \in Nat, k \in T
        PROVE  k + 1 \in T
    <3> SUFFICES ASSUME k + 1 <= n
                 PROVE  page[k + 1] \in Page
      OBVIOUS
    <3>1. page[k] \in Page /\ k + 1 \in 1..n /\ (k + 1) - 1 = k
      BY <1>1, <2>2
    <3>2. page[k + 1] = Write(page[k], s[k + 1]) /\ s[k + 1] \in Acceptable
      BY <1>1, <1>5, <3>1
    <3> QED
      BY <3>1, <3>2, WriteFills
  <2> HIDE DEF T
  <2>3. Nat \subseteq T
    BY <2>1, <2>2, Induction
  <2> QED
    BY <2>3, <1>1 DEF T
<1>7. page \in [0..n -> Page]
  <2>1. page = [k \in 0..n |-> page[k]]
    BY <1>4
  <2> QED
    BY <1>6, <2>1
<1>8. Pages(s, page)
  BY <1>5 DEF Pages, blank
<1> QED
  BY <1>3, <1>7, <1>8

\* stitch writes bytes.
LEMMA StitchType ==
    ASSUME NEW s \in Seq(Acceptable)
    PROVE  Stitch(s) \in Seq(STRING)
<1>1. PICK page \in [0..Len(s) -> Page] : Stitch(s) = Filled(page[Len(s)], Length)
  BY StitchPages
<1>2. Len(s) \in 0..Len(s)
  OBVIOUS
<1>3. page[Len(s)] \in Page
  BY <1>2
<1> QED
  BY <1>1, <1>3, FilledType, LengthType

\* t has the elements of s with the indices D, each once.
Rearranged(t, s, D) ==
    \E place \in [D -> DOMAIN t] :
        /\ \A i \in D : t[place[i]] = s[i]
        /\ \A a \in DOMAIN t : \E i \in D : place[i] = a
        /\ \A i, j \in D : place[i] = place[j] => i = j

\* The sort keeps the edits, each once.
LEMMA InOrderRearranges ==
    ASSUME NEW S \in SUBSET Edits, NEW s \in Seq(S)
    PROVE  Rearranged(InOrder(s), s, DOMAIN s)
<1> DEFINE place == [i \in DOMAIN s |-> Place(s, i)]
           t == InOrder(s)
<1>1. /\ t \in Seq(S) /\ Len(t) = Len(s)
      /\ \A k \in 1..Len(s) : \E i \in DOMAIN s : Place(s, i) = k
      /\ \A i \in DOMAIN s : t[Place(s, i)] = s[i]
  BY InOrderProperties
<1>2. s \in Seq(Edits)
  OBVIOUS
<1>3. /\ \A i \in DOMAIN s : Place(s, i) \in 1..Len(s)
      /\ \A i, j \in DOMAIN s : Place(s, i) = Place(s, j) => i = j
  BY <1>2, PlaceProperties
<1>4. DOMAIN t = 1..Len(s)
  BY <1>1
<1> HIDE DEF t
<1>5. /\ place \in [DOMAIN s -> DOMAIN t]
      /\ \A i \in DOMAIN s : t[place[i]] = s[i]
      /\ \A a \in DOMAIN t : \E i \in DOMAIN s : place[i] = a
      /\ \A i, j \in DOMAIN s : place[i] = place[j] => i = j
  BY <1>1, <1>3, <1>4
<1> HIDE DEF place
<1>6. Rearranged(t, s, DOMAIN s)
  BY <1>5 DEF Rearranged
<1> QED
  BY <1>6 DEF t

\* The place of i among the indices `kept'.
PlaceIn(kept, i) == Cardinality({j \in kept : j <= i})

\* What retain keeps stays in its order.
LEMMA RetainedPlaces ==
    ASSUME NEW S, NEW s \in Seq(S), NEW kept \in SUBSET DOMAIN s
    PROVE  /\ Retained(s, kept) \in Seq(S)
           /\ IsFiniteSet(kept) /\ Cardinality(kept) \in Nat
           /\ Len(Retained(s, kept)) = Cardinality(kept)
           /\ \A k \in 1..Cardinality(kept) : \E i \in kept : PlaceIn(kept, i) = k
           /\ \A i \in kept : /\ PlaceIn(kept, i) \in 1..Cardinality(kept)
                              /\ Retained(s, kept)[PlaceIn(kept, i)] = s[i]
           /\ \A i, j \in kept : PlaceIn(kept, i) = PlaceIn(kept, j) => i = j
<1> DEFINE upTo(i) == {j \in kept : j <= i}
           place == [i \in kept |-> Cardinality(upTo(i))]
           t == Arranged(s, place)
<1>1. Retained(s, kept) = t
  BY DEF Retained
<1>2. kept \subseteq Nat /\ IsFiniteSet(kept)
  <2>1. DOMAIN s = 1..Len(s) /\ Len(s) \in Nat
    OBVIOUS
  <2>2. IsFiniteSet(DOMAIN s)
    BY <2>1, FS_Interval
  <2> QED
    BY <2>1, <2>2, FS_Subset
<1>3. \A i \in kept : /\ IsFiniteSet(upTo(i)) /\ Cardinality(upTo(i)) \in Nat
                      /\ Cardinality(upTo(i)) <= Cardinality(kept)
                      /\ i \in upTo(i) /\ Cardinality(upTo(i)) # 0
  <2> SUFFICES ASSUME NEW i \in kept
               PROVE  /\ IsFiniteSet(upTo(i)) /\ Cardinality(upTo(i)) \in Nat
                      /\ Cardinality(upTo(i)) <= Cardinality(kept)
                      /\ i \in upTo(i) /\ Cardinality(upTo(i)) # 0
    OBVIOUS
  <2>1. upTo(i) \in SUBSET kept /\ i \in upTo(i)
    BY <1>2
  <2> HIDE DEF upTo
  <2>2. IsFiniteSet(upTo(i)) /\ Cardinality(upTo(i)) <= Cardinality(kept)
    BY <1>2, <2>1, FS_Subset
  <2> QED
    BY <2>1, <2>2, FS_CardinalityType, FS_EmptySet
<1>4. ASSUME NEW i \in kept, NEW j \in kept, Cardinality(upTo(i)) = Cardinality(upTo(j)),
             i < j
      PROVE  FALSE
  <2>1. upTo(i) \subseteq upTo(j) /\ j \notin upTo(i) /\ j \in upTo(j)
    BY <1>2, <1>4
  <2>2. upTo(i) = upTo(j)
    BY <1>3, <1>4, <2>1, FS_Subset
  <2> QED
    BY <2>1, <2>2
<1>5. \A i, j \in kept : Cardinality(upTo(i)) = Cardinality(upTo(j)) => i = j
  <2> HIDE DEF upTo
  <2> QED
    BY <1>2, <1>4
<1>6. \A i \in kept : PlaceIn(kept, i) = place[i]
  BY DEF PlaceIn
<1> HIDE DEF upTo
<1>7. Cardinality(kept) \in Nat
  BY <1>2, FS_CardinalityType
<1>8. /\ place \in [kept -> 1..Cardinality(kept)]
      /\ \A i, j \in kept : place[i] = place[j] => i = j
  BY <1>3, <1>5, <1>7
<1> HIDE DEF place
<1>9. /\ t \in Seq(S) /\ Len(t) = Cardinality(kept)
      /\ \A k \in 1..Cardinality(kept) : \E i \in kept : place[i] = k
      /\ \A i \in kept : t[place[i]] = s[i]
  BY <1>8, ArrangedProperties
<1> HIDE DEF t
<1> QED
  BY <1>1, <1>2, <1>6, <1>7, <1>8, <1>9

\* One edit taken out of a list is a list of one.
LEMMA RetainedOne ==
    ASSUME NEW S, NEW s \in Seq(S), NEW i \in DOMAIN s
    PROVE  /\ Retained(s, {i}) \in Seq(S) /\ Len(Retained(s, {i})) = 1
           /\ Retained(s, {i})[1] = s[i]
<1> DEFINE kept == {i}
<1>1. kept \in SUBSET DOMAIN s /\ Cardinality(kept) = 1 /\ i \in kept
  BY FS_Singleton
<1> HIDE DEF kept
<1>2. /\ Retained(s, kept) \in Seq(S)
      /\ IsFiniteSet(kept) /\ Cardinality(kept) \in Nat
      /\ Len(Retained(s, kept)) = Cardinality(kept)
      /\ \A k \in 1..Cardinality(kept) : \E j \in kept : PlaceIn(kept, j) = k
      /\ \A j \in kept : /\ PlaceIn(kept, j) \in 1..Cardinality(kept)
                         /\ Retained(s, kept)[PlaceIn(kept, j)] = s[j]
      /\ \A j, k \in kept : PlaceIn(kept, j) = PlaceIn(kept, k) => j = k
  BY <1>1, RetainedPlaces, Zenon
<1>3. PlaceIn(kept, i) = 1
  BY <1>1, <1>2
<1> QED
  BY <1>1, <1>2, <1>3 DEF kept

\* retain keeps what it keeps, in a list of its own.
LEMMA RetainedRearranges ==
    ASSUME NEW S, NEW s \in Seq(S), NEW kept \in SUBSET DOMAIN s
    PROVE  /\ Retained(s, kept) \in Seq(S)
           /\ Rearranged(Retained(s, kept), s, kept)
<1> DEFINE t == Retained(s, kept)
           place == [i \in kept |-> PlaceIn(kept, i)]
<1>1. /\ t \in Seq(S) /\ Len(t) = Cardinality(kept) /\ DOMAIN t = 1..Cardinality(kept)
      /\ \A k \in 1..Cardinality(kept) : \E i \in kept : PlaceIn(kept, i) = k
      /\ \A i \in kept : /\ PlaceIn(kept, i) \in 1..Cardinality(kept)
                         /\ t[PlaceIn(kept, i)] = s[i]
      /\ \A i, j \in kept : PlaceIn(kept, i) = PlaceIn(kept, j) => i = j
  BY RetainedPlaces
<1> HIDE DEF t
<1>2. /\ place \in [kept -> DOMAIN t]
      /\ \A i \in kept : t[place[i]] = s[i]
      /\ \A a \in DOMAIN t : \E i \in kept : place[i] = a
      /\ \A i, j \in kept : place[i] = place[j] => i = j
  BY <1>1
<1> HIDE DEF place
<1>3. Rearranged(t, s, kept)
  BY <1>2 DEF Rearranged
<1> QED
  BY <1>1, <1>3 DEF t

\* Distinct places hold elements of distinct indices.
LEMMA RearrangedElements ==
    ASSUME NEW t, NEW s, NEW D, Rearranged(t, s, D)
    PROVE  /\ \A i \in D : \E a \in DOMAIN t : t[a] = s[i]
           /\ \A a \in DOMAIN t : \E i \in D : t[a] = s[i]
           /\ \A a, b \in DOMAIN t :
                  a # b => \E i, j \in D : i # j /\ t[a] = s[i] /\ t[b] = s[j]
BY DEF Rearranged

\* How many of the indices D have x.
Times(s, D, x) == Cardinality({i \in D : s[i] = x})

\* An element occurs as often.
LEMMA RearrangedCount ==
    ASSUME NEW t, NEW s, NEW D, IsFiniteSet(D), Rearranged(t, s, D), NEW x
    PROVE  Times(t, DOMAIN t, x) = Times(s, D, x)
<1>1. PICK place \in [D -> DOMAIN t] :
          /\ \A i \in D : t[place[i]] = s[i]
          /\ \A a \in DOMAIN t : \E i \in D : place[i] = a
          /\ \A i, j \in D : place[i] = place[j] => i = j
  BY DEF Rearranged
<1> DEFINE A == {i \in D : s[i] = x}
           B == {a \in DOMAIN t : t[a] = x}
           f == [i \in A |-> place[i]]
<1>2. f \in Bijection(A, B)
  BY <1>1 DEF Bijection, Injection, Surjection, IsInjective
<1>3. IsFiniteSet(A)
  BY FS_Subset
<1>4. ExistsBijection(A, B)
  <2> HIDE DEF A, B, f
  <2> QED
    BY <1>2 DEF ExistsBijection
<1> HIDE DEF A, B
<1>5. Cardinality(B) = Cardinality(A)
  BY <1>3, <1>4, FS_Bijection
<1> QED
  BY <1>5 DEF A, B, Times

\* Ranges that overlap are in conflict, byte by byte.
LEMMA OverlapsInConflict ==
    ASSUME NEW e \in Edits, NEW f \in Edits, e.start <= e.end, f.start <= f.end,
           Overlaps(e, f)
    PROVE  InConflict(e, f) /\ InConflict(f, e)
<1>1. e.start \in Nat /\ e.end \in Nat /\ f.start \in Nat /\ f.end \in Nat
  BY EditAssumption
<1>2. CASE IsEmpty(e) /\ ~ IsEmpty(f) /\ f.start < e.start /\ e.start < f.end
  <2>1. {e.start - 1, e.start} \subseteq Bytes(f)
    BY <1>1, <1>2 DEF Bytes
  <2> QED
    BY <1>2, <2>1 DEF InConflict
<1>3. CASE ~ IsEmpty(e) /\ IsEmpty(f) /\ e.start < f.start /\ f.start < e.end
  <2>1. {f.start - 1, f.start} \subseteq Bytes(e)
    BY <1>1, <1>3 DEF Bytes
  <2> QED
    BY <1>3, <2>1 DEF InConflict
<1>4. CASE ~ IsEmpty(e) /\ ~ IsEmpty(f) /\ e.start < f.end /\ f.start < e.end
  <2>1. CASE e.start <= f.start
    <3>1. f.start \in Bytes(e) /\ f.start \in Bytes(f)
      BY <1>1, <1>4, <2>1 DEF Bytes, IsEmpty
    <3> QED
      BY <3>1 DEF InConflict
  <2>2. CASE f.start <= e.start
    <3>1. e.start \in Bytes(e) /\ e.start \in Bytes(f)
      BY <1>1, <1>4, <2>2 DEF Bytes, IsEmpty
    <3> QED
      BY <3>1 DEF InConflict
  <2> QED
    BY <1>1, <2>1, <2>2
<1> QED
  BY <1>2, <1>3, <1>4 DEF Overlaps

\* The loop over the two lists reports a pair it compared.
LEMMA ConflictIsAPair ==
    ASSUME NEW old, NEW new, Len(old) \in Nat, Len(new) \in Nat, Conflict(old, new)
    PROVE  \E i \in 1..Len(old), j \in 1..Len(new) : Overlaps(old[i], new[j])
<1>1. PICK i \in 0..Len(old) - 1, j \in 0..Len(new) - 1 : Overlaps(old[i + 1], new[j + 1])
  BY DEF Conflict
<1>2. i + 1 \in 1..Len(old) /\ j + 1 \in 1..Len(new)
  OBVIOUS
<1> QED
  BY <1>1, <1>2

-----------------------------------------------------------------------------
(* The edits of one offset. *)

\* The accepted edits that start before p.
Before(p) == {i \in DOMAIN accepted : accepted[i].start < p}

\* What two disjoint sets have together.
LEMMA DisjointUnion ==
    ASSUME NEW S, IsFiniteSet(S), NEW T, IsFiniteSet(T), S \cap T = {}
    PROVE  /\ IsFiniteSet(S \cup T)
           /\ Cardinality(S) \in Nat /\ Cardinality(T) \in Nat
           /\ Cardinality(S \cup T) = Cardinality(S) + Cardinality(T)
<1>1. Cardinality(S) \in Nat /\ Cardinality(T) \in Nat
  BY FS_CardinalityType
<1> QED
  BY <1>1, FS_Union, FS_EmptySet

\* The accepted edits before an offset, the insertions there and the replacements from
\* there are the accepted edits before the next offset.
LEMMA BeforeNext ==
    ASSUME accepted \in Seq(Acceptable), NEW p \in Nat
    PROVE  /\ IsFiniteSet(Before(p)) /\ Cardinality(Before(p)) \in Nat
           /\ IsFiniteSet(Insertions(p)) /\ Cardinality(Insertions(p)) \in Nat
           /\ IsFiniteSet(Replacements(p)) /\ Cardinality(Replacements(p)) \in Nat
           /\ Cardinality(Before(p + 1)) = Cardinality(Before(p)) + Cardinality(Insertions(p))
                                               + Cardinality(Replacements(p))
<1>1. IsFiniteSet(DOMAIN accepted)
  BY FS_Interval
<1>2. \A i \in DOMAIN accepted : accepted[i] \in Acceptable
  OBVIOUS
<1>3. \A i \in DOMAIN accepted : accepted[i].start \in Nat
  BY <1>2, AcceptableType
<1>4. /\ IsFiniteSet(Before(p)) /\ Cardinality(Before(p)) \in Nat
      /\ IsFiniteSet(Insertions(p)) /\ Cardinality(Insertions(p)) \in Nat
      /\ IsFiniteSet(Replacements(p)) /\ Cardinality(Replacements(p)) \in Nat
  <2>1. /\ Before(p) \subseteq DOMAIN accepted /\ Insertions(p) \subseteq DOMAIN accepted
        /\ Replacements(p) \subseteq DOMAIN accepted
    BY DEF Before, Insertions, Replacements
  <2> QED
    BY <1>1, <2>1, FS_Subset, FS_CardinalityType
<1>5. /\ Before(p) \cap Insertions(p) = {}
      /\ (Before(p) \cup Insertions(p)) \cap Replacements(p) = {}
      /\ Before(p + 1) = (Before(p) \cup Insertions(p)) \cup Replacements(p)
  BY <1>3 DEF Before, Insertions, Replacements
<1>6. /\ IsFiniteSet(Before(p) \cup Insertions(p))
      /\ Cardinality(Before(p) \cup Insertions(p))
             = Cardinality(Before(p)) + Cardinality(Insertions(p))
  BY <1>4, <1>5, DisjointUnion
<1>7. Cardinality(Before(p + 1)) = Cardinality(Before(p) \cup Insertions(p))
                                       + Cardinality(Replacements(p))
  BY <1>4, <1>5, <1>6, DisjointUnion
<1> QED
  BY <1>4, <1>6, <1>7

\* The first places are those of the edits that start first.
LEMMA PlaceOfStart ==
    ASSUME accepted \in Seq(Acceptable), NEW p \in Nat, NEW i \in DOMAIN accepted
    PROVE  Place(accepted, i) <= Cardinality(Before(p)) <=> accepted[i].start < p
<1>1. /\ \A j \in DOMAIN accepted : /\ accepted[j].start \in Nat /\ accepted[j].end \in Nat
                                    /\ accepted[j] \in Edits
  <2>1. \A j \in DOMAIN accepted : accepted[j] \in Acceptable
    OBVIOUS
  <2> QED
    BY <2>1, AcceptableType
<1> DEFINE upTo == {j \in DOMAIN accepted : UpTo(accepted, j, i)}
<1>2. Place(accepted, i) = Cardinality(upTo)
  BY DEF Place
<1>3. IsFiniteSet(upTo) /\ Cardinality(upTo) \in Nat /\ IsFiniteSet(Before(p))
      /\ Cardinality(Before(p)) \in Nat
  <2>1. IsFiniteSet(DOMAIN accepted)
    BY FS_Interval
  <2>2. upTo \subseteq DOMAIN accepted /\ Before(p) \subseteq DOMAIN accepted
    BY DEF Before
  <2> QED
    BY <2>1, <2>2, FS_Subset, FS_CardinalityType
<1>4. CASE accepted[i].start < p
  <2>1. upTo \subseteq Before(p)
    BY <1>1, <1>4 DEF UpTo, Precedes, Before
  <2> HIDE DEF upTo
  <2>2. Cardinality(upTo) <= Cardinality(Before(p))
    BY <1>3, <2>1, FS_Subset
  <2> QED
    BY <1>2, <1>4, <2>2
<1>5. CASE ~ accepted[i].start < p
  <2>1. Before(p) \subseteq upTo /\ i \in upTo /\ i \notin Before(p)
    BY <1>1, <1>5 DEF UpTo, Precedes, Before
  <2> HIDE DEF upTo
  <2>2. Cardinality(Before(p)) < Cardinality(upTo)
    BY <1>3, <2>1, FS_Subset
  <2> QED
    BY <1>2, <1>3, <1>5, <2>2
<1> QED
  BY <1>4, <1>5

\* The insertions at p come next, in the order they were accepted.
LEMMA PlaceOfInsertion ==
    ASSUME accepted \in Seq(Acceptable), NEW p \in Nat, NEW i \in Insertions(p)
    PROVE  Place(accepted, i) = Cardinality(Before(p)) + PlaceIn(Insertions(p), i)
<1>1. \A j \in DOMAIN accepted : /\ accepted[j].start \in Nat /\ accepted[j].end \in Nat
                                 /\ accepted[j].start <= accepted[j].end
  <2>1. \A j \in DOMAIN accepted : accepted[j] \in Acceptable
    OBVIOUS
  <2> QED
    BY <2>1, AcceptableType
<1> DEFINE upTo == {j \in DOMAIN accepted : UpTo(accepted, j, i)}
           same == {j \in Insertions(p) : j <= i}
<1>2. upTo = Before(p) \cup same /\ Before(p) \cap same = {}
  <2>1. /\ i \in DOMAIN accepted /\ DOMAIN accepted \subseteq Nat
        /\ accepted[i].start = p /\ accepted[i].end = p
    BY DEF Insertions, IsEmpty
  <2>2. ASSUME NEW j \in DOMAIN accepted
        PROVE  UpTo(accepted, j, i) <=> j \in Before(p) \/ j \in same
    BY <1>1, <2>1, <2>2 DEF UpTo, Precedes, Before, Insertions, IsEmpty
  <2>3. \A j \in same : j \in DOMAIN accepted /\ accepted[j].start = p
    BY DEF Insertions
  <2> QED
    BY <1>1, <2>2, <2>3 DEF Before
<1>3. IsFiniteSet(Before(p)) /\ IsFiniteSet(same)
  <2>1. same \subseteq Insertions(p)
    OBVIOUS
  <2> HIDE DEF same
  <2> QED
    BY <2>1, BeforeNext, FS_Subset
<1>4. Cardinality(upTo) = Cardinality(Before(p)) + Cardinality(same)
  <2> HIDE DEF upTo, same
  <2> QED
    BY <1>2, <1>3, DisjointUnion
<1> QED
  BY <1>4 DEF Place, PlaceIn

\* Then comes the replacement from p, if there is one only.
LEMMA PlaceOfReplacement ==
    ASSUME accepted \in Seq(Acceptable), NEW p \in Nat, NEW i, Replacements(p) = {i}
    PROVE  /\ i \in DOMAIN accepted
           /\ Place(accepted, i) = Cardinality(Before(p)) + Cardinality(Insertions(p)) + 1
<1>1. \A j \in DOMAIN accepted : /\ accepted[j].start \in Nat /\ accepted[j].end \in Nat
                                 /\ accepted[j].start <= accepted[j].end
  <2>1. \A j \in DOMAIN accepted : accepted[j] \in Acceptable
    OBVIOUS
  <2> QED
    BY <2>1, AcceptableType
<1>2. i \in DOMAIN accepted /\ accepted[i].start = p /\ p < accepted[i].end
  <2>1. i \in Replacements(p)
    OBVIOUS
  <2>2. i \in DOMAIN accepted /\ accepted[i].start = p /\ accepted[i].start # accepted[i].end
    BY <2>1 DEF Replacements, IsEmpty
  <2> QED
    BY <1>1, <2>2
<1> DEFINE upTo == {j \in DOMAIN accepted : UpTo(accepted, j, i)}
<1>3. upTo = Before(p + 1)
  <2>1. ASSUME NEW j \in DOMAIN accepted
        PROVE  UpTo(accepted, j, i) <=> accepted[j].start < p + 1
    <3>1. CASE accepted[j].start = p
      <4>1. CASE accepted[j].end = p
        BY <1>1, <1>2, <3>1, <4>1 DEF UpTo, Precedes
      <4>2. CASE accepted[j].end # p
        <5>1. j \in Replacements(p)
          BY <3>1, <4>2 DEF Replacements, IsEmpty
        <5>2. j = i
          BY <5>1
        <5> QED
          BY <1>1, <1>2, <5>2 DEF UpTo, Precedes
      <4> QED
        BY <4>1, <4>2
    <3>2. CASE accepted[j].start # p
      BY <1>1, <1>2, <3>2 DEF UpTo, Precedes
    <3> QED
      BY <3>1, <3>2
  <2> QED
    BY <2>1 DEF Before
<1>4. Cardinality({i}) = 1
  BY FS_Singleton
<1>5. Cardinality(Replacements(p)) = 1
  BY <1>4
<1> QED
  BY <1>2, <1>3, <1>5, BeforeNext DEF Place

\* The texts of edits are joined from the first to the last.
LEMMA TextsProperties ==
    ASSUME NEW s \in Seq(Acceptable)
    PROVE  /\ Texts(s) \in Seq(STRING)
           /\ \E g \in [0..Len(s) -> Seq(STRING)] :
                  /\ g[0] = <<>> /\ g[Len(s)] = Texts(s)
                  /\ \A k \in 1..Len(s) : g[k] = g[k - 1] \o s[k].text
<1> DEFINE t == [k \in DOMAIN s |-> s[k].text]
<1>1. /\ Len(s) \in Nat /\ DOMAIN s = 1..Len(s)
      /\ \A k \in 1..Len(s) : s[k] \in Acceptable
  OBVIOUS
<1>2. \A k \in 1..Len(s) : s[k].text \in Seq(STRING)
  BY <1>1, AcceptableType
<1>3. t \in Seq(Seq(STRING)) /\ Len(t) = Len(s) /\ \A k \in 1..Len(s) : t[k] = s[k].text
  BY <1>1, <1>2
<1>4. Texts(s) = FlattenSeq(t)
  BY DEF Texts
<1> HIDE DEF t
<1>5. PICK g \in [0..Len(t) -> Seq(STRING)] : Joined(t, g) /\ FlattenSeq(t) = g[Len(t)]
  BY <1>3, FlattenProperties
<1>6. /\ g \in [0..Len(s) -> Seq(STRING)] /\ g[0] = <<>> /\ g[Len(s)] = Texts(s)
      /\ \A k \in 1..Len(s) : g[k] = g[k - 1] \o s[k].text
  BY <1>3, <1>4, <1>5 DEF Joined
<1>7. Texts(s) \in Seq(STRING)
  BY <1>1, <1>6
<1> QED
  BY <1>6, <1>7

\* The accepted edits, their places, and the pages stitch writes of them.
Writing(page) ==
    /\ accepted \in Seq(Acceptable) /\ edits = InOrder(accepted)
    /\ page \in [0..Len(edits) -> Page] /\ Pages(edits, page)

\* The page before offset p, and the page with the insertions there.
BeforeAt(p)   == Cardinality(Before(p))
InsertedAt(p) == BeforeAt(p) + Cardinality(Insertions(p))

\* These are pages.
LEMMA PagesBound ==
    ASSUME accepted \in Seq(Acceptable), edits = InOrder(accepted), NEW p \in Nat
    PROVE  /\ Len(edits) = Len(accepted) /\ Len(edits) \in Nat
           /\ edits \in Seq(Acceptable)
           /\ BeforeAt(p) \in Nat /\ InsertedAt(p) \in Nat /\ BeforeAt(p + 1) \in Nat
           /\ BeforeAt(p) <= InsertedAt(p) /\ InsertedAt(p) <= BeforeAt(p + 1)
           /\ BeforeAt(p + 1) <= Len(edits)
           /\ BeforeAt(p + 1) = InsertedAt(p) + Cardinality(Replacements(p))
<1>1. Acceptable \in SUBSET Edits
  BY DEF Acceptable
<1>2. Len(edits) = Len(accepted) /\ Len(edits) \in Nat /\ edits \in Seq(Acceptable)
  BY <1>1, InOrderProperties
<1>3. IsFiniteSet(DOMAIN accepted) /\ Cardinality(DOMAIN accepted) = Len(accepted)
  <2> DEFINE n == Len(accepted)
  <2>1. DOMAIN accepted = 1..n /\ n \in Nat
    OBVIOUS
  <2> HIDE DEF n
  <2>2. IsFiniteSet(1..n) /\ Cardinality(1..n) = n
    BY <2>1, FS_Interval
  <2> QED
    BY <2>1, <2>2 DEF n
<1>4. Before(p + 1) \subseteq DOMAIN accepted
  BY DEF Before
<1>5. Cardinality(Before(p + 1)) <= Len(accepted)
  BY <1>3, <1>4, FS_Subset
<1>6. /\ Cardinality(Before(p)) \in Nat /\ Cardinality(Insertions(p)) \in Nat
      /\ Cardinality(Replacements(p)) \in Nat
      /\ Cardinality(Before(p + 1)) = Cardinality(Before(p)) + Cardinality(Insertions(p))
                                          + Cardinality(Replacements(p))
  BY BeforeNext
<1> QED
  BY <1>2, <1>5, <1>6 DEF BeforeAt, InsertedAt

\* The insertions at p are written one after the other, in the order they were accepted.
LEMMA WriteInsertions ==
    ASSUME NEW page, Writing(page), NEW p \in Nat, p <= Length
    PROVE  /\ Filled(page[BeforeAt(p)], p) \in Seq(STRING)
           /\ Texts(Retained(accepted, Insertions(p))) \in Seq(STRING)
           /\ Filled(page[InsertedAt(p)], p)
                  = Filled(page[BeforeAt(p)], p) \o Texts(Retained(accepted, Insertions(p)))
<1> DEFINE n == BeforeAt(p)
           c == Cardinality(Insertions(p))
           s == Retained(accepted, Insertions(p))
           base == Filled(page[n], p)
<1>1. accepted \in Seq(Acceptable) /\ edits = InOrder(accepted)
      /\ page \in [0..Len(edits) -> Page] /\ Pages(edits, page)
  BY DEF Writing
<1>2. n \in Nat /\ c \in Nat /\ n + c <= Len(edits) /\ Len(edits) \in Nat
      /\ edits \in Seq(Acceptable) /\ InsertedAt(p) = n + c
  <2>1. c \in Nat /\ InsertedAt(p) = n + c
    BY <1>1, BeforeNext DEF InsertedAt
  <2> HIDE DEF n, c
  <2>2. n \in Nat /\ InsertedAt(p) \in Nat /\ InsertedAt(p) <= Len(edits)
        /\ Len(edits) \in Nat /\ edits \in Seq(Acceptable)
    <3>1. /\ Len(edits) \in Nat /\ edits \in Seq(Acceptable)
          /\ BeforeAt(p) \in Nat /\ InsertedAt(p) \in Nat /\ BeforeAt(p + 1) \in Nat
          /\ InsertedAt(p) <= BeforeAt(p + 1) /\ BeforeAt(p + 1) <= Len(edits)
      BY <1>1, PagesBound
    <3> QED
      BY <3>1 DEF n
  <2> QED
    BY <2>1, <2>2
<1>3. Insertions(p) \in SUBSET DOMAIN accepted
  BY DEF Insertions
<1>4. /\ s \in Seq(Acceptable) /\ Len(s) = c
      /\ \A k \in 1..c : \E i \in Insertions(p) : PlaceIn(Insertions(p), i) = k
      /\ \A i \in Insertions(p) : s[PlaceIn(Insertions(p), i)] = accepted[i]
  BY <1>1, <1>3, RetainedPlaces
<1>5. \A i \in DOMAIN accepted : edits[Place(accepted, i)] = accepted[i]
  <2>1. Acceptable \in SUBSET Edits
    BY DEF Acceptable
  <2> QED
    BY <1>1, <2>1, InOrderProperties
<1> HIDE DEF n, c, s, base
<1>6. \A k \in 1..c : edits[n + k] = s[k] /\ s[k].start = p /\ IsEmpty(s[k])
                      /\ s[k] \in Acceptable
  <2> SUFFICES ASSUME NEW k \in 1..c
               PROVE  edits[n + k] = s[k] /\ s[k].start = p /\ IsEmpty(s[k])
                      /\ s[k] \in Acceptable
    OBVIOUS
  <2>1. PICK i \in Insertions(p) : PlaceIn(Insertions(p), i) = k
    BY <1>4
  <2>2. Place(accepted, i) = n + k
    BY <1>1, <2>1, PlaceOfInsertion DEF n, BeforeAt
  <2>3. i \in DOMAIN accepted /\ accepted[i].start = p /\ IsEmpty(accepted[i])
    BY DEF Insertions
  <2>4. edits[n + k] = accepted[i] /\ s[k] = accepted[i] /\ accepted[i] \in Acceptable
    BY <1>1, <1>4, <1>5, <2>1, <2>2, <2>3
  <2> QED
    BY <2>3, <2>4
<1>7. Texts(s) \in Seq(STRING)
  BY <1>4, TextsProperties
<1>8. PICK g \in [0..c -> Seq(STRING)] :
          /\ g[0] = <<>> /\ g[c] = Texts(s)
          /\ \A k \in 1..c : g[k] = g[k - 1] \o s[k].text
  BY <1>4, TextsProperties
<1>9. base \in Seq(STRING)
  <2>1. n \in 0..Len(edits)
    BY <1>2
  <2>2. page[n] \in Page
    BY <1>1, <2>1
  <2> QED
    BY <2>2, FilledType DEF base
<1>10. \A k \in 0..c : Filled(page[n + k], p) = base \o g[k]
  <2> DEFINE T == {k \in Nat : k <= c => Filled(page[n + k], p) = base \o g[k]}
  <2>1. 0 \in T
    <3>1. n + 0 = n /\ base \o <<>> = base
      BY <1>2, <1>9, ConcatEmptySeq
    <3> QED
      BY <1>8, <3>1 DEF base
  <2>2. ASSUME NEW k \in Nat, k \in T
        PROVE  k + 1 \in T
    <3> SUFFICES ASSUME k + 1 <= c
                 PROVE  Filled(page[n + (k + 1)], p) = base \o g[k + 1]
      OBVIOUS
    <3>1. /\ k \in 0..c /\ k + 1 \in 1..c /\ (k + 1) - 1 = k
          /\ n + (k + 1) \in 1..Len(edits) /\ (n + (k + 1)) - 1 = n + k /\ n + k \in 0..Len(edits)
      BY <1>2
    <3>2. /\ s[k + 1] \in Acceptable /\ s[k + 1].start = p /\ IsEmpty(s[k + 1])
          /\ page[n + k] \in Page /\ page[n + (k + 1)] = Write(page[n + k], s[k + 1])
      <4>1. edits[n + (k + 1)] = s[k + 1] /\ s[k + 1].start = p /\ IsEmpty(s[k + 1])
            /\ s[k + 1] \in Acceptable
        BY <1>6, <3>1
      <4>2. page[n + (k + 1)] = Write(page[(n + (k + 1)) - 1], edits[n + (k + 1)])
        BY <1>1, <3>1 DEF Pages
      <4> QED
        BY <1>1, <3>1, <4>1, <4>2
    <3>3. Filled(page[n + (k + 1)], p) = Filled(page[n + k], p) \o s[k + 1].text
      BY <3>2, WriteFills
    <3>4. Filled(page[n + k], p) = base \o g[k]
      BY <2>2, <3>1
    <3>5. (base \o g[k]) \o s[k + 1].text = base \o (g[k] \o s[k + 1].text)
      <4>1. g[k] \in Seq(STRING) /\ s[k + 1].text \in Seq(STRING)
        BY <3>1, <3>2, AcceptableType
      <4> QED
        BY <1>9, <4>1, Associative, Zenon
    <3>6. g[k + 1] = g[k] \o s[k + 1].text
      BY <1>8, <3>1
    <3> QED
      BY <3>3, <3>4, <3>5, <3>6
  <2> HIDE DEF T
  <2>3. Nat \subseteq T
    BY <2>1, <2>2, Induction
  <2>4. ASSUME NEW k \in 0..c
        PROVE  Filled(page[n + k], p) = base \o g[k]
    <3>1. k \in Nat /\ k <= c
      BY <1>2
    <3>2. k \in T
      BY <2>3, <3>1
    <3> HIDE DEF base, n
    <3> QED
      BY <3>1, <3>2, Zenon DEF T
  <2> QED
    BY <2>4
<1>11. Filled(page[n + c], p) = base \o Texts(s)
  <2>1. c \in 0..c
    BY <1>2
  <2> QED
    BY <1>8, <1>10, <2>1
<1> QED
  BY <1>2, <1>7, <1>9, <1>11 DEF n, s, base

\* Accepted edits that are free of conflicts have at most one replacement from an offset.
LEMMA AcceptedFree ==
    ASSUME accepted \in Seq(Acceptable), edits = InOrder(accepted), NonOverlapping,
           NEW i \in DOMAIN accepted, NEW j \in DOMAIN accepted, i # j
    PROVE  ~ InConflict(accepted[i], accepted[j])
<1>1. accepted \in Seq(Edits) /\ Acceptable \in SUBSET Edits
  BY DEF Acceptable
<1>2. /\ Len(edits) = Len(accepted) /\ edits \in Seq(Acceptable)
      /\ \A k \in DOMAIN accepted : edits[Place(accepted, k)] = accepted[k]
  BY <1>1, InOrderProperties
<1>3. /\ Place(accepted, i) \in 1..Len(accepted) /\ Place(accepted, j) \in 1..Len(accepted)
      /\ Place(accepted, i) # Place(accepted, j)
  BY <1>1, PlaceProperties
<1>4. Place(accepted, i) \in DOMAIN edits /\ Place(accepted, j) \in DOMAIN edits
  BY <1>2, <1>3
<1>5. ~ InConflict(edits[Place(accepted, i)], edits[Place(accepted, j)])
  BY <1>3, <1>4 DEF NonOverlapping
<1> QED
  BY <1>2, <1>5

\* Two replacements from one offset replace its byte both.
LEMMA OneReplacement ==
    ASSUME accepted \in Seq(Acceptable), edits = InOrder(accepted), NonOverlapping,
           NEW p \in Nat, NEW i \in Replacements(p)
    PROVE  Replacements(p) = {i}
<1>1. ASSUME NEW j \in Replacements(p), j # i
      PROVE  FALSE
  <2>1. /\ i \in DOMAIN accepted /\ j \in DOMAIN accepted
        /\ accepted[i].start = p /\ accepted[j].start = p
        /\ accepted[i].end # p /\ accepted[j].end # p
    BY DEF Replacements, IsEmpty
  <2>2. /\ accepted[i] \in Acceptable /\ accepted[j] \in Acceptable
    BY <2>1
  <2>3. p < accepted[i].end /\ p < accepted[j].end
        /\ accepted[i].end \in Nat /\ accepted[j].end \in Nat
    <3>1. \A e \in Acceptable : e.start \in Nat /\ e.end \in Nat /\ e.start <= e.end
      BY AcceptableType
    <3> QED
      BY <2>1, <2>2, <3>1
  <2>4. p \in Bytes(accepted[i]) /\ p \in Bytes(accepted[j])
    BY <2>1, <2>3 DEF Bytes
  <2>5. InConflict(accepted[i], accepted[j])
    BY <2>4 DEF InConflict
  <2> QED
    BY <1>1, <2>1, <2>5, AcceptedFree
<1> QED
  BY <1>1

\* Nothing is retained of no indices, and the one edit of one index.
LEMMA TextsOfFew ==
    ASSUME accepted \in Seq(Acceptable)
    PROVE  /\ Texts(Retained(accepted, {})) = <<>>
           /\ \A i \in DOMAIN accepted : Texts(Retained(accepted, {i})) = accepted[i].text
<1>1. Texts(Retained(accepted, {})) = <<>>
  <2> DEFINE s == Retained(accepted, {})
  <2>1. s \in Seq(Acceptable) /\ Len(s) = 0
    <3>1. {} \in SUBSET DOMAIN accepted /\ Cardinality({}) = 0
      BY FS_EmptySet
    <3> QED
      BY <3>1, RetainedPlaces
  <2> HIDE DEF s
  <2>2. PICK g \in [0..Len(s) -> Seq(STRING)] : g[0] = <<>> /\ g[Len(s)] = Texts(s)
    BY <2>1, TextsProperties
  <2> QED
    BY <2>1, <2>2 DEF s
<1>2. ASSUME NEW i \in DOMAIN accepted
      PROVE  Texts(Retained(accepted, {i})) = accepted[i].text
  <2> DEFINE s == Retained(accepted, {i})
  <2>1. {i} \in SUBSET DOMAIN accepted /\ Cardinality({i}) = 1
    BY FS_Singleton
  <2>2. s \in Seq(Acceptable) /\ Len(s) = 1 /\ s[1] = accepted[i]
    BY RetainedOne
  <2> HIDE DEF s
  <2>4. PICK g \in [0..Len(s) -> Seq(STRING)] :
            /\ g[0] = <<>> /\ g[Len(s)] = Texts(s)
            /\ \A k \in 1..Len(s) : g[k] = g[k - 1] \o s[k].text
    BY <2>2, TextsProperties
  <2>5. g[1] = g[1 - 1] \o s[1].text /\ 1 - 1 = 0
    BY <2>2, <2>4
  <2>6. accepted[i].text \in Seq(STRING)
    <3>1. accepted[i] \in Acceptable
      OBVIOUS
    <3> QED
      BY <3>1, AcceptableType
  <2>7. <<>> \o accepted[i].text = accepted[i].text
    BY <2>6, ConcatEmptySeq
  <2>8. Texts(s) = accepted[i].text
    BY <2>2, <2>2, <2>4, <2>5, <2>7
  <2> QED
    BY <2>8 DEF s
<1> QED
  BY <1>1, <1>2

\* A byte is kept if the page with the edits up to it does not end beyond it: an edit that
\* replaces the byte is the last of them, or the last one would be in its way.
LEMMA KeptIsAhead ==
    ASSUME NEW page, Writing(page), NonOverlapping, NEW p \in Nat, p < Length,
           Replacements(p) = {}
    PROVE  Kept(p) <=> page[BeforeAt(p + 1)].upto <= p
<1> DEFINE m == BeforeAt(p + 1)
<1>1. accepted \in Seq(Acceptable) /\ edits = InOrder(accepted)
      /\ page \in [0..Len(edits) -> Page] /\ Pages(edits, page)
  BY DEF Writing
<1>2. m \in Nat /\ m <= Len(edits) /\ Len(edits) = Len(accepted) /\ Len(edits) \in Nat
  BY <1>1, PagesBound
<1>3. \A i \in DOMAIN accepted :
          /\ accepted[i] \in Edits /\ accepted[i].start \in Nat /\ accepted[i].end \in Nat
          /\ accepted[i].start <= accepted[i].end
  <2>1. \A i \in DOMAIN accepted : accepted[i] \in Acceptable
    BY <1>1
  <2> QED
    BY <2>1, AcceptableType
<1>4. accepted \in Seq(Edits) /\ Acceptable \in SUBSET Edits
  BY <1>1 DEF Acceptable
<1>5. \A i \in DOMAIN accepted : Place(accepted, i) <= m <=> accepted[i].start <= p
  <2>1. \A i \in DOMAIN accepted : Place(accepted, i) <= m <=> accepted[i].start < p + 1
    BY <1>1, PlaceOfStart DEF BeforeAt
  <2> QED
    BY <1>3, <2>1
<1>6. \A i \in DOMAIN accepted : Place(accepted, i) \in 1..Len(accepted)
  BY <1>4, PlaceProperties
<1>7. \A i \in DOMAIN accepted : p \in Bytes(accepted[i])
          <=> accepted[i].start <= p /\ p < accepted[i].end
  BY <1>3 DEF Bytes
<1> HIDE DEF m
<1>8. CASE m = 0
  <2>1. page[0].upto = 0
    BY <1>1 DEF Pages
  <2>2. \A i \in DOMAIN accepted : p \notin Bytes(accepted[i])
    BY <1>5, <1>6, <1>7, <1>8
  <2> QED
    BY <1>8, <2>1, <2>2 DEF Kept, m
<1>9. CASE m # 0
  <2>1. /\ \A k \in 1..Len(accepted) : \E i \in DOMAIN accepted : Place(accepted, i) = k
        /\ \A i \in DOMAIN accepted : edits[Place(accepted, i)] = accepted[i]
    BY <1>1, <1>4, InOrderProperties
  <2>2. m \in 1..Len(accepted)
    BY <1>2, <1>9
  <2>3. PICK l \in DOMAIN accepted : Place(accepted, l) = m
    BY <2>1, <2>2
  <2>4. accepted[l].start <= p
    BY <1>2, <1>5, <2>3
  <2>5. page[m].upto = accepted[l].end
    <3>1. page[m] = Write(page[m - 1], accepted[l])
      BY <1>1, <1>2, <2>1, <2>2, <2>3 DEF Pages
    <3> QED
      BY <3>1 DEF Write
  <2>6. ASSUME Kept(p)
        PROVE  accepted[l].end <= p
    BY <1>3, <1>7, <2>4, <2>6 DEF Kept
  <2>7. ASSUME accepted[l].end <= p, NEW i \in DOMAIN accepted, p \in Bytes(accepted[i])
        PROVE  FALSE
    <3>1. accepted[i].start <= p /\ p < accepted[i].end
      BY <1>7, <2>7
    <3>2. i # l
      BY <1>3, <2>7, <3>1
    <3>3. accepted[i].start # p
      BY <1>3, <3>1 DEF Replacements, IsEmpty
    <3>4. UpTo(accepted, i, l)
      <4>1. Place(accepted, i) <= Place(accepted, l)
        BY <1>5, <2>3, <3>1
      <4> QED
        BY <1>4, <4>1, PlaceProperties
    <3>5. accepted[i].start < accepted[l].start
      BY <1>3, <2>7, <3>1, <3>4 DEF UpTo, Precedes
    <3>6. InConflict(accepted[i], accepted[l])
      <4>1. CASE IsEmpty(accepted[l])
        <5>1. {accepted[l].start - 1, accepted[l].start} \subseteq Bytes(accepted[i])
          BY <1>3, <2>4, <3>1, <3>5 DEF Bytes
        <5> QED
          BY <4>1, <5>1 DEF InConflict
      <4>2. CASE ~ IsEmpty(accepted[l])
        <5>1. accepted[l].start \in Bytes(accepted[l])
          BY <1>3, <4>2 DEF Bytes, IsEmpty
        <5>2. accepted[l].start \in Bytes(accepted[i])
          BY <1>3, <2>4, <3>1, <3>5 DEF Bytes
        <5> QED
          BY <5>1, <5>2 DEF InConflict
      <4> QED
        BY <4>1, <4>2
    <3> QED
      BY <1>1, <3>2, <3>6, AcceptedFree
  <2>8. accepted[l].end <= p => Kept(p)
    BY <2>7 DEF Kept
  <2> QED
    BY <2>5, <2>6, <2>8 DEF m
<1> QED
  BY <1>8, <1>9

\* From one offset to the next stitch writes what is meant there.
LEMMA WriteOffset ==
    ASSUME NEW page, Writing(page), NonOverlapping, NEW p \in Nat, p < Length
    PROVE  /\ MeantAt(p) \in Seq(STRING)
           /\ Filled(page[BeforeAt(p + 1)], p + 1) = Filled(page[BeforeAt(p)], p) \o MeantAt(p)
<1> DEFINE n == BeforeAt(p)
           m == InsertedAt(p)
           base == Filled(page[n], p)
           inserted == Texts(Retained(accepted, Insertions(p)))
           replaced == Texts(Retained(accepted, Replacements(p)))
           byte == IF Kept(p) THEN <<Source[p + 1]>> ELSE <<>>
<1>1. accepted \in Seq(Acceptable) /\ edits = InOrder(accepted)
      /\ page \in [0..Len(edits) -> Page] /\ Pages(edits, page)
  BY DEF Writing
<1>2. /\ n \in Nat /\ m \in Nat /\ n <= m /\ m <= BeforeAt(p + 1)
      /\ BeforeAt(p + 1) <= Len(edits) /\ Len(edits) \in Nat
      /\ BeforeAt(p + 1) = m + Cardinality(Replacements(p))
  BY <1>1, PagesBound
<1>3. /\ base \in Seq(STRING) /\ inserted \in Seq(STRING)
      /\ Filled(page[m], p) = base \o inserted
  <2>1. p <= Length
    BY LengthType
  <2> QED
    BY <2>1, WriteInsertions
<1>4. base \o inserted \in Seq(STRING)
  BY <1>3, ConcatProperties
<1>5. byte \in Seq(STRING) /\ <<>> \in Seq(STRING)
  <2>1. 0 <= p /\ p <= p
    OBVIOUS
  <2>2. <<Source[p + 1]>> \in Seq(STRING)
    BY <2>1, LengthType, PartOfSource
  <2>3. <<>> \in Seq(STRING)
    OBVIOUS
  <2> QED
    BY <2>2, <2>3, Zenon
<1>6. MeantAt(p) = (inserted \o replaced) \o byte
  BY DEF MeantAt
<1>7. m \in 0..Len(edits) /\ page[m] \in Page
  <2> HIDE DEF m
  <2>1. m \in 0..Len(edits)
    <3>1. Cardinality(Replacements(p)) \in Nat
      BY <1>1, BeforeNext
    <3> QED
      BY <1>2, <3>1
  <2> QED
    BY <1>1, <2>1
<1> HIDE DEF base, inserted, byte
<1>8. CASE Replacements(p) = {}
  <2>1. replaced = <<>>
    BY <1>1, <1>8, TextsOfFew
  <2>2. BeforeAt(p + 1) = m
    BY <1>2, <1>8, FS_EmptySet
  <2>3. Kept(p) <=> page[m].upto <= p
    BY <1>8, <2>2, KeptIsAhead
  <2>4. Filled(page[m], p + 1) = (base \o inserted) \o byte
    <3>1. Filled(page[m], p + 1) = Filled(page[m], p)
              \o (IF page[m].upto <= p THEN <<Source[p + 1]>> ELSE <<>>)
      BY <1>7, FillOneByte
    <3> QED
      BY <1>3, <2>3, <3>1 DEF byte
  <2> HIDE DEF replaced
  <2>5. inserted \o replaced = inserted
    BY <1>3, <2>1, ConcatEmptySeq
  <2>6. MeantAt(p) = inserted \o byte
    BY <1>6, <2>5
  <2>7. inserted \o byte \in Seq(STRING)
    BY <1>3, <1>5, ConcatProperties
  <2>8. (base \o inserted) \o byte = base \o (inserted \o byte)
    BY <1>3, <1>5, Associative, Zenon
  <2> QED
    BY <2>2, <2>4, <2>6, <2>7, <2>8 DEF base
<1>9. CASE Replacements(p) # {}
  <2>1. PICK i : i \in Replacements(p)
    BY <1>9
  <2>2. Replacements(p) = {i}
    BY <1>1, <2>1, OneReplacement
  <2>3. /\ i \in DOMAIN accepted /\ accepted[i].start = p /\ ~ IsEmpty(accepted[i])
        /\ accepted[i] \in Acceptable
    BY <1>1, <2>1 DEF Replacements
  <2>4. replaced = accepted[i].text
    BY <1>1, <2>2, <2>3, TextsOfFew
  <2>5. BeforeAt(p + 1) = m + 1
    <3>1. Cardinality({i}) = 1
      BY FS_Singleton
    <3> QED
      BY <1>2, <2>2, <3>1
  <2>6. ~ Kept(p)
    <3>1. p \in Bytes(accepted[i])
      BY <2>3, AcceptableType DEF Bytes, IsEmpty
    <3> QED
      BY <2>3, <3>1 DEF Kept
  <2>7. page[m + 1] = Write(page[m], accepted[i])
    <3>1. Place(accepted, i) = m + 1
      BY <1>1, <2>2, PlaceOfReplacement DEF InsertedAt, BeforeAt
    <3>2. edits[m + 1] = accepted[i]
      <4>1. Acceptable \in SUBSET Edits
        BY DEF Acceptable
      <4>2. \A j \in DOMAIN accepted : edits[Place(accepted, j)] = accepted[j]
        BY <1>1, <4>1, InOrderProperties
      <4> QED
        BY <2>3, <3>1, <4>2
    <3>3. m + 1 \in 1..Len(edits) /\ (m + 1) - 1 = m
      BY <1>2, <2>5
    <3>4. page[m + 1] = Write(page[(m + 1) - 1], edits[m + 1])
      BY <1>1, <3>3 DEF Pages
    <3> QED
      BY <3>2, <3>3, <3>4
  <2>8. Filled(page[m + 1], p + 1) = (base \o inserted) \o accepted[i].text
    BY <1>3, <1>7, <2>3, <2>7, WriteFills
  <2>9. accepted[i].text \in Seq(STRING)
    BY <2>3, AcceptableType
  <2> HIDE DEF replaced
  <2>10. (base \o inserted) \o accepted[i].text = base \o (inserted \o accepted[i].text)
    BY <1>3, <2>9, Associative, Zenon
  <2>11. inserted \o accepted[i].text \in Seq(STRING)
    BY <1>3, <2>9, ConcatProperties
  <2>12. MeantAt(p) = inserted \o accepted[i].text
    <3>1. byte = <<>>
      BY <2>6 DEF byte
    <3>2. (inserted \o accepted[i].text) \o <<>> = inserted \o accepted[i].text
      BY <2>11, ConcatEmptySeq
    <3> QED
      BY <1>6, <2>4, <3>1, <3>2
  <2> QED
    BY <2>5, <2>8, <2>10, <2>11, <2>12 DEF base
<1> QED
  BY <1>8, <1>9

\* At the end of the text there are insertions only.
LEMMA WriteEnd ==
    ASSUME NEW page, Writing(page)
    PROVE  /\ MeantAt(Length) \in Seq(STRING)
           /\ Filled(page[Len(edits)], Length)
                  = Filled(page[BeforeAt(Length)], Length) \o MeantAt(Length)
<1> DEFINE inserted == Texts(Retained(accepted, Insertions(Length)))
<1>1. accepted \in Seq(Acceptable) /\ edits = InOrder(accepted)
      /\ Length \in Nat
  BY LengthType DEF Writing
<1>2. \A i \in DOMAIN accepted : /\ accepted[i].start \in Nat /\ accepted[i].end \in Nat
                                 /\ accepted[i].start <= accepted[i].end
                                 /\ accepted[i].end <= Length
  <2>1. \A i \in DOMAIN accepted : accepted[i] \in Acceptable
    BY <1>1
  <2> QED
    BY <2>1, AcceptableType
<1>3. Replacements(Length) = {}
  BY <1>1, <1>2 DEF Replacements, IsEmpty
<1>4. ~ Kept(Length)
  BY <1>1 DEF Kept
<1>5. Before(Length + 1) = DOMAIN accepted
  <2>1. \A i \in DOMAIN accepted : accepted[i].start < Length + 1
    BY <1>1, <1>2
  <2> QED
    BY <2>1 DEF Before
<1>6. InsertedAt(Length) = Len(edits)
  <2>1. /\ BeforeAt(Length + 1) = InsertedAt(Length) + Cardinality(Replacements(Length))
        /\ InsertedAt(Length) \in Nat /\ Len(edits) = Len(accepted)
    BY <1>1, PagesBound
  <2>2. Cardinality(Replacements(Length)) = 0
    BY <1>3, FS_EmptySet
  <2>3. BeforeAt(Length + 1) = Len(accepted)
    <3>1. DOMAIN accepted = 1..Len(accepted) /\ Len(accepted) \in Nat
      BY <1>1
    <3> DEFINE n == Len(accepted)
    <3>2. DOMAIN accepted = 1..n /\ n \in Nat
      BY <3>1
    <3> HIDE DEF n
    <3>3. Cardinality(1..n) = n
      BY <3>2, FS_Interval
    <3>4. BeforeAt(Length + 1) = Cardinality(1..n)
      BY <1>5, <3>2 DEF BeforeAt
    <3> QED
      BY <3>3, <3>4 DEF n
  <2> QED
    BY <2>1, <2>2, <2>3
<1>7. /\ inserted \in Seq(STRING)
      /\ Filled(page[Len(edits)], Length) = Filled(page[BeforeAt(Length)], Length) \o inserted
  <2>1. Length <= Length
    BY <1>1
  <2> QED
    BY <1>1, <1>6, <2>1, WriteInsertions
<1>8. MeantAt(Length) = (inserted \o <<>>) \o <<>>
  BY <1>1, <1>3, <1>4, TextsOfFew DEF MeantAt
<1> HIDE DEF inserted
<1>9. (inserted \o <<>>) \o <<>> = inserted
  BY <1>7, ConcatEmptySeq
<1> QED
  BY <1>7, <1>8, <1>9

\* One pass over the sorted edits writes what they mean.
LEMMA StitchIsIntended ==
    ASSUME accepted \in Seq(Acceptable), edits = InOrder(accepted), NonOverlapping
    PROVE  Stitch(edits) = Intended
<1> DEFINE meant == [k \in 1..Length + 1 |-> MeantAt(k - 1)]
<1>1. Length \in Nat /\ edits \in Seq(Acceptable) /\ Len(edits) \in Nat
  BY LengthType, PagesBound
<1>2. PICK page \in [0..Len(edits) -> Page] :
          Pages(edits, page) /\ Stitch(edits) = Filled(page[Len(edits)], Length)
  BY <1>1, StitchPages
<1>3. Writing(page)
  BY <1>2 DEF Writing
<1>4. \A p \in 0..Length : MeantAt(p) \in Seq(STRING)
  <2>1. ASSUME NEW p \in 0..Length
        PROVE  MeantAt(p) \in Seq(STRING)
    <3>1. CASE p = Length
      BY <1>3, <3>1, WriteEnd
    <3>2. CASE p # Length
      <4>1. p \in Nat /\ p < Length
        BY <1>1, <3>2
      <4> QED
        BY <1>3, <4>1, WriteOffset
    <3> QED
      BY <3>1, <3>2
  <2> QED
    BY <2>1
<1>5. meant \in Seq(Seq(STRING)) /\ Len(meant) = Length + 1
      /\ \A p \in 0..Length : meant[p + 1] = MeantAt(p)
  <2>1. \A k \in 1..Length + 1 : k - 1 \in 0..Length
    BY <1>1
  <2>2. \A p \in 0..Length : p + 1 \in 1..Length + 1 /\ (p + 1) - 1 = p
    BY <1>1
  <2> QED
    BY <1>1, <1>4, <2>1, <2>2
<1>6. Intended = FlattenSeq(meant)
  BY DEF Intended
<1> HIDE DEF meant
<1>7. PICK g \in [0..Length + 1 -> Seq(STRING)] :
          Joined(meant, g) /\ Intended = g[Length + 1]
  BY <1>5, <1>6, FlattenProperties
<1>8. g[0] = <<>> /\ \A p \in 0..Length : g[p + 1] = g[p] \o MeantAt(p)
  <2>1. \A p \in 0..Length : p + 1 \in 1..Length + 1 /\ (p + 1) - 1 = p
    BY <1>1
  <2> QED
    BY <1>5, <1>7, <2>1 DEF Joined
<1>9. \A p \in 0..Length : g[p] = Filled(page[BeforeAt(p)], p)
  <2> DEFINE T == {p \in Nat : p <= Length => g[p] = Filled(page[BeforeAt(p)], p)}
  <2>1. 0 \in T
    <3>1. Before(0) = {}
      <4>1. \A i \in DOMAIN accepted : accepted[i] \in Acceptable
        OBVIOUS
      <4>2. \A i \in DOMAIN accepted : accepted[i].start \in Nat
        BY <4>1, AcceptableType
      <4> QED
        BY <4>2 DEF Before
    <3>2. BeforeAt(0) = 0
      BY <3>1, FS_EmptySet DEF BeforeAt
    <3>3. page[0] = [written |-> <<>>, upto |-> 0]
      BY <1>2 DEF Pages
    <3>4. SubSeq(Source, 0 + 1, 0) = <<>>
      BY <1>1, PartOfSource
    <3>5. Filled(page[0], 0) = <<>> \o <<>>
      BY <3>3, <3>4 DEF Filled
    <3>6. <<>> \o <<>> = <<>>
      BY ConcatEmptySeq, EmptySeq
    <3> QED
      BY <1>8, <3>2, <3>5, <3>6
  <2>2. ASSUME NEW p \in Nat, p \in T
        PROVE  p + 1 \in T
    <3> SUFFICES ASSUME p + 1 <= Length
                 PROVE  g[p + 1] = Filled(page[BeforeAt(p + 1)], p + 1)
      OBVIOUS
    <3>1. p < Length /\ p \in 0..Length
      BY <1>1
    <3>2. g[p] = Filled(page[BeforeAt(p)], p)
      BY <1>1, <2>2, <3>1
    <3>3. Filled(page[BeforeAt(p + 1)], p + 1) = Filled(page[BeforeAt(p)], p) \o MeantAt(p)
      BY <1>3, <3>1, WriteOffset
    <3> QED
      BY <1>8, <3>1, <3>2, <3>3
  <2> HIDE DEF T
  <2>3. Nat \subseteq T
    BY <2>1, <2>2, Induction
  <2> QED
    BY <1>1, <2>3 DEF T
<1>10. g[Length + 1] = Filled(page[BeforeAt(Length)], Length) \o MeantAt(Length)
  <2>1. Length \in 0..Length
    BY <1>1
  <2> QED
    BY <1>8, <1>9, <2>1
<1> QED
  BY <1>2, <1>3, <1>7, <1>10, WriteEnd

-----------------------------------------------------------------------------
(* The order of acceptance. *)

\* Sorting what is sorted with more behind it gives what sorting all at once gives.
LEMMA SortedInParts ==
    ASSUME NEW S \in SUBSET Edits, NEW s \in Seq(S), NEW new \in Seq(S)
    PROVE  InOrder(InOrder(s) \o new) = InOrder(s \o new)
<1> DEFINE u == InOrder(s)
           m == Len(s)
           a == s \o new
           b == u \o new
           n == m + Len(new)
           to(i) == IF i <= m THEN Place(s, i) ELSE i
<1>1. s \in Seq(Edits) /\ new \in Seq(Edits)
  OBVIOUS
<1>2. /\ u \in Seq(S) /\ Len(u) = m /\ m \in Nat
      /\ \A k \in 1..m : \E i \in DOMAIN s : Place(s, i) = k
      /\ \A i \in DOMAIN s : u[Place(s, i)] = s[i]
  <2>1. Len(s) \in Nat
    OBVIOUS
  <2> QED
    BY <2>1, InOrderProperties
<1>3. \A i \in 1..m : /\ Place(s, i) \in 1..m
                      /\ \A j \in 1..m : /\ Place(s, i) <= Place(s, j) => UpTo(s, i, j)
                                         /\ Place(s, i) = Place(s, j) => i = j
  <2> DEFINE D == DOMAIN s
  <2>1. \A i, j \in D : /\ Place(s, i) \in 1..m
                        /\ Place(s, i) <= Place(s, j) => UpTo(s, i, j)
                        /\ Place(s, i) = Place(s, j) => i = j
    BY <1>1, PlaceProperties
  <2>2. D = 1..m
    OBVIOUS
  <2> HIDE DEF D, m
  <2> QED
    BY <2>1, <2>2
<1> HIDE DEF u
<1>4. /\ a \in Seq(S) /\ Len(a) = n /\ n \in Nat /\ DOMAIN a = 1..n
      /\ b \in Seq(S) /\ Len(b) = n /\ DOMAIN b = 1..n
      /\ \A i \in 1..n : a[i] = IF i <= m THEN s[i] ELSE new[i - m]
      /\ \A i \in 1..n : b[i] = IF i <= m THEN u[i] ELSE new[i - m]
  <2>1. /\ a \in Seq(S) /\ Len(a) = Len(s) + Len(new)
        /\ \A i \in 1..Len(s) + Len(new) : a[i] = IF i <= Len(s) THEN s[i] ELSE new[i - Len(s)]
    BY ConcatProperties
  <2>2. /\ b \in Seq(S) /\ Len(b) = Len(u) + Len(new)
        /\ \A i \in 1..Len(u) + Len(new) : b[i] = IF i <= Len(u) THEN u[i] ELSE new[i - Len(u)]
    BY <1>2, ConcatProperties
  <2>3. DOMAIN a = 1..Len(a) /\ DOMAIN b = 1..Len(b) /\ Len(a) \in Nat
    BY <2>1, <2>2
  <2> HIDE DEF a, b
  <2> QED
    BY <1>2, <2>1, <2>2, <2>3
<1>5. DOMAIN s = 1..m /\ Len(new) \in Nat
  OBVIOUS
<1> HIDE DEF a, b, m
<1>6. \A i \in 1..n : to(i) \in 1..n /\ b[to(i)] = a[i]
  <2> SUFFICES ASSUME NEW i \in 1..n
               PROVE  to(i) \in 1..n /\ b[to(i)] = a[i]
    OBVIOUS
  <2>1. CASE i <= m
    <3>1. i \in 1..m /\ Place(s, i) \in 1..m
      BY <1>2, <1>3, <1>5, <2>1
    <3>2. Place(s, i) \in 1..n /\ Place(s, i) <= m
      BY <1>2, <1>5, <3>1
    <3> QED
      BY <1>2, <1>4, <1>5, <2>1, <3>1, <3>2
  <2>2. CASE ~ i <= m
    BY <1>4, <2>2
  <2> QED
    BY <2>1, <2>2
<1>7. \A i, j \in 1..n : to(i) = to(j) => i = j
  BY <1>2, <1>3, <1>5
<1>8. \A k \in 1..n : \E i \in 1..n : to(i) = k
  <2> SUFFICES ASSUME NEW k \in 1..n
               PROVE  \E i \in 1..n : to(i) = k
    OBVIOUS
  <2>1. CASE k <= m
    <3>1. k \in 1..m
      BY <1>2, <2>1
    <3>2. PICK i \in 1..m : Place(s, i) = k
      BY <1>2, <1>5, <3>1
    <3> QED
      BY <1>2, <1>5, <3>2
  <2>2. CASE ~ k <= m
    BY <2>2
  <2> QED
    BY <2>1, <2>2
<1>9. \A i, j \in 1..n : UpTo(b, to(i), to(j)) <=> UpTo(a, i, j)
  <2> SUFFICES ASSUME NEW i \in 1..n, NEW j \in 1..n
               PROVE  UpTo(b, to(i), to(j)) <=> UpTo(a, i, j)
    OBVIOUS
  <2>1. /\ b[to(i)] = a[i] /\ b[to(j)] = a[j] /\ a[i] \in Edits /\ a[j] \in Edits
        /\ to(i) \in 1..n /\ to(j) \in 1..n
    BY <1>4, <1>6
  <2>2. CASE Precedes(a[i], a[j])
    BY <2>1, <2>2 DEF UpTo
  <2>3. CASE Precedes(a[j], a[i])
    BY <2>1, <2>3, PrecedesIsWeakOrder DEF UpTo
  <2>4. ASSUME ~ Precedes(a[i], a[j]), ~ Precedes(a[j], a[i])
        PROVE  to(i) <= to(j) <=> i <= j
    <3>1. CASE i <= m /\ j <= m
      <4>1. i \in 1..m /\ j \in 1..m /\ a[i] = s[i] /\ a[j] = s[j]
        BY <1>2, <1>4, <3>1
      <4>2. /\ Place(s, i) \in Nat /\ Place(s, j) \in Nat
            /\ Place(s, i) <= Place(s, j) => UpTo(s, i, j)
            /\ Place(s, j) <= Place(s, i) => UpTo(s, j, i)
            /\ Place(s, i) = Place(s, j) => i = j
        BY <1>3, <4>1
      <4>3. (UpTo(s, i, j) <=> i <= j) /\ (UpTo(s, j, i) <=> j <= i)
        BY <2>4, <4>1 DEF UpTo
      <4> QED
        BY <3>1, <4>2, <4>3
    <3>2. CASE i <= m /\ ~ j <= m
      <4>1. Place(s, i) \in 1..m
        BY <1>2, <1>3, <3>2
      <4> QED
        BY <1>2, <3>2, <4>1
    <3>3. CASE ~ i <= m /\ j <= m
      <4>1. Place(s, j) \in 1..m
        BY <1>2, <1>3, <3>3
      <4> QED
        BY <1>2, <3>3, <4>1
    <3>4. CASE ~ i <= m /\ ~ j <= m
      BY <3>4
    <3> QED
      BY <3>1, <3>2, <3>3, <3>4
  <2>5. CASE ~ Precedes(a[i], a[j]) /\ ~ Precedes(a[j], a[i])
    <3> HIDE DEF to
    <3> QED
      BY <2>1, <2>4, <2>5 DEF UpTo
  <2> QED
    BY <2>2, <2>3, <2>5
<1>10. ASSUME NEW i \in 1..n
       PROVE  Place(b, to(i)) = Place(a, i)
  <2> DEFINE D == {j \in 1..n : UpTo(a, j, i)}
             E == {k \in 1..n : UpTo(b, k, to(i))}
             f == [j \in D |-> to(j)]
  <2> HIDE DEF to
  <2>1. f \in Bijection(D, E)
    <3>1. \A j \in D : to(j) \in E
      BY <1>6, <1>9, <1>10
    <3>2. \A j, k \in D : to(j) = to(k) => j = k
      BY <1>7
    <3>3. \A k \in E : \E j \in D : to(j) = k
      <4> SUFFICES ASSUME NEW k \in E
                   PROVE  \E j \in D : to(j) = k
        OBVIOUS
      <4>1. PICK j \in 1..n : to(j) = k
        BY <1>8
      <4>2. UpTo(a, j, i)
        BY <1>9, <1>10, <4>1
      <4> QED
        BY <4>1, <4>2
    <3> HIDE DEF D, E
    <3>4. f \in [D -> E]
      BY <3>1
    <3> QED
      BY <3>2, <3>3, <3>4 DEF Bijection, Injection, IsInjective, Surjection
  <2>2. IsFiniteSet(D)
    <3>1. IsFiniteSet(1..n) /\ D \subseteq 1..n
      BY <1>4, FS_Interval
    <3> QED
      BY <3>1, FS_Subset
  <2>3. Place(a, i) = Cardinality(D) /\ Place(b, to(i)) = Cardinality(E)
    BY <1>4 DEF Place
  <2> HIDE DEF D, E, f
  <2>4. ExistsBijection(D, E)
    BY <2>1 DEF ExistsBijection
  <2> QED
    BY <2>2, <2>3, <2>4, FS_Bijection
<1> HIDE DEF to
<1>11. \A k \in 1..n : InOrder(b)[Place(b, k)] = b[k]
  BY <1>4, InOrderProperties
<1>12. InOrder(b) \in Seq(S) /\ Len(InOrder(b)) = n
  BY <1>4, InOrderProperties
<1> DEFINE t == InOrder(b)
<1>13. \A i \in 1..n : t[Place(a, i)] = a[i]
  BY <1>6, <1>10, <1>11
<1> HIDE DEF t
<1>14. t \in Seq(S) /\ Len(t) = Len(a) /\ Placed(t, a)
  BY <1>4, <1>12, <1>13 DEF Placed, t
<1>15. t = InOrder(a)
  BY <1>4, <1>14, InOrderUnique
<1> QED
  BY <1>15 DEF t, a, b, u

-----------------------------------------------------------------------------
(* What a call can do.                                                     *)

Operations == {"apply", "apply_batch", "apply_unique_batch"}

\* The edits that were offered are not free of conflict with each other or with the
\* accepted ones.
InTheWay(offer) ==
    \/ \E i, j \in DOMAIN offer : i # j /\ InConflict(offer[i], offer[j])
    \/ \E i \in DOMAIN offer, j \in DOMAIN edits : InConflict(offer[i], edits[j])

\* Each edit ends before the next one starts.
InARow(s) == \A i, j \in DOMAIN s : i < j => s[i].end <= s[j].start

\* The edits `new' were accepted.
Taken(new, isSingle) ==
    LET after == InOrder(edits \o new)
    IN  /\ edits' = after /\ result' = "Applied"
        /\ accepted' = accepted \o new
        /\ approved' = Unchecked \/ approved' = Stitch(after)
        /\ singly' = (singly /\ isSingle)
        /\ UNCHANGED output

\* A call with the edits `offer' leaves no trace, or takes all it does not have yet.
Outcome(offer) ==
    /\ offered' = offer /\ operation' \in Operations /\ output = NotFinished
    /\ \/ \E answer \in Results \cup {Aborted} :
             /\ Return(answer)
             /\ answer = "Applied" => ToSet(offer) \subseteq ToSet(edits)
             /\ answer = "Overlap" => InTheWay(offer)
       \/ \E new \in Seq(Acceptable), isSingle \in BOOLEAN :
             /\ Taken(new, isSingle)
             /\ ToSet(edits) \cup ToSet(new) = ToSet(edits) \cup ToSet(offer)
             /\ singly /\ isSingle /\ InARow(edits) => InARow(InOrder(edits \o new))
             /\ operation' = "apply_unique_batch"
                    => \A k \in DOMAIN new : new[k] \notin ToSet(edits)

\* The check sees the list that is kept.
LEMMA CheckAndTakeOutcome ==
    ASSUME NEW new, NEW isSingle, Merged(edits, new) = InOrder(edits \o new),
           CheckAndTake(new, InOrder(edits \o new), isSingle)
    PROVE  Return("Rejected") \/ Return(Aborted) \/ Taken(new, isSingle)
BY DEF CheckAndTake, Taken

\* A safety level above the threshold is one that refuses.
LEMMA RankType ==
    /\ DOMAIN Rank = {"Safe", "PotentiallyUnsafe", "Unsafe"}
    /\ \A x \in DOMAIN Rank : Rank[x] \in Nat
    /\ Rank["Safe"] = 0
BY DEF Rank

\* The answer to an edit that is too unsafe is its level, which no other answer is.
LEMMA UnsafeAnswer ==
    ASSUME NEW e \in Edits, TooUnsafe(e)
    PROVE  e.safety \in {"PotentiallyUnsafe", "Unsafe"}
<1>1. e.safety \in DOMAIN Rank /\ Threshold \in DOMAIN Rank
  BY EditAssumption
<1>2. Rank[e.safety] > Rank[Threshold]
  BY DEF TooUnsafe
<1>3. Rank[Threshold] \in Nat
  BY <1>1, RankType
<1> QED
  BY <1>1, <1>2, <1>3, RankType

\* What passes the checks is acceptable.
LEMMA PassesChecks ==
    ASSUME NEW e \in Edits
    PROVE  /\ ~ OutOfBounds(e) => e.start <= e.end /\ e.end <= Length
           /\ ~ OutOfBounds(e) /\ ~ TooUnsafe(e) => e \in Acceptable
<1>1. e.start \in Nat /\ e.end \in Nat /\ Length \in Nat
      /\ e.safety \in DOMAIN Rank /\ Threshold \in DOMAIN Rank
  BY EditAssumption, LengthType
<1>2. Rank[e.safety] \in Nat /\ Rank[Threshold] \in Nat
  BY <1>1, RankType
<1> QED
  BY <1>1, <1>2 DEF OutOfBounds, TooUnsafe, Acceptable

\* The accepted edits around the place of the new one do not overlap it: no other is
\* compared, and no other needs to be.
LEMMA InsertKeepsRow ==
    ASSUME NEW old \in Seq(Acceptable), InARow(old), NEW e \in Acceptable,
           NEW i \in 0..Len(old),
           i > 0 => old[i].end <= e.start,
           i < Len(old) => e.start < old[i + 1].end /\ ~ Overlaps(old[i + 1], e)
    PROVE  InARow(InsertAt(old, i + 1, e))
<1> DEFINE m == Len(old)
           t == InsertAt(old, i + 1, e)
<1>1. /\ m \in Nat /\ i \in Nat /\ i <= m
      /\ \A k \in 1..m : /\ old[k].start \in Nat /\ old[k].end \in Nat
                         /\ old[k].start <= old[k].end
      /\ e.start \in Nat /\ e.end \in Nat /\ e.start <= e.end
  BY AcceptableType
<1>2. /\ t \in Seq(Acceptable) /\ Len(t) = m + 1
      /\ \A k \in 1..m + 1 : t[k] =
             IF k <= i THEN old[k] ELSE IF k = i + 1 THEN e ELSE old[k - 1]
  BY InsertAtProperties
<1>3. \A a, b \in 1..m : a < b => old[a].end <= old[b].start
  BY DEF InARow
<1>4. i < m => e.end <= old[i + 1].start
  <2> SUFFICES ASSUME i < m
               PROVE  e.end <= old[i + 1].start
    OBVIOUS
  <2> DEFINE f == old[i + 1]
  <2>1. i + 1 \in 1..m /\ e.start < f.end /\ ~ Overlaps(f, e)
    BY <1>1
  <2>2. f.start \in Nat /\ f.end \in Nat /\ f.start <= f.end
    BY <1>1, <2>1
  <2> HIDE DEF f
  <2>3. e.end <= f.start
    BY <1>1, <2>1, <2>2 DEF Overlaps, IsEmpty
  <2> QED
    BY <2>3 DEF f
<1>5. \A k \in 1..i : old[k].end <= e.start
  <2> SUFFICES ASSUME NEW k \in 1..i
               PROVE  old[k].end <= e.start
    OBVIOUS
  <2>1. i > 0 /\ i \in 1..m /\ k \in 1..m /\ old[i].end <= e.start
    BY <1>1
  <2>2. k = i \/ old[k].end <= old[i].start
    BY <1>1, <1>3, <2>1
  <2> QED
    BY <1>1, <2>1, <2>2
<1>6. \A k \in i + 1..m : e.end <= old[k].start
  <2> SUFFICES ASSUME NEW k \in i + 1..m
               PROVE  e.end <= old[k].start
    OBVIOUS
  <2>1. i < m /\ i + 1 \in 1..m /\ k \in 1..m
    BY <1>1
  <2>2. k = i + 1 \/ old[i + 1].end <= old[k].start
    BY <1>1, <1>3, <2>1
  <2> QED
    BY <1>1, <1>4, <2>1, <2>2
<1> HIDE DEF m, t
<1>7. ASSUME NEW a \in 1..m + 1, NEW b \in 1..m + 1, a < b
      PROVE  t[a].end <= t[b].start
  <2>1. CASE b <= i
    <3>1. t[a] = old[a] /\ t[b] = old[b] /\ a \in 1..m /\ b \in 1..m
      BY <1>1, <1>2, <1>7, <2>1
    <3> QED
      BY <3>1, <1>3, <1>7
  <2>2. CASE b = i + 1
    <3>1. t[a] = old[a] /\ t[b] = e /\ a \in 1..i
      BY <1>1, <1>2, <1>7, <2>2
    <3> QED
      BY <3>1, <1>5
  <2>3. CASE b > i + 1 /\ a <= i
    <3>1. t[a] = old[a] /\ t[b] = old[b - 1] /\ a \in 1..m /\ b - 1 \in 1..m /\ a < b - 1
      BY <1>1, <1>2, <1>7, <2>3
    <3> QED
      BY <3>1, <1>3
  <2>4. CASE b > i + 1 /\ a = i + 1
    <3>1. t[a] = e /\ t[b] = old[b - 1] /\ b - 1 \in i + 1..m
      BY <1>1, <1>2, <1>7, <2>4
    <3> QED
      BY <3>1, <1>6
  <2>5. CASE b > i + 1 /\ a > i + 1
    <3>1. t[a] = old[a - 1] /\ t[b] = old[b - 1]
          /\ a - 1 \in 1..m /\ b - 1 \in 1..m /\ a - 1 < b - 1
      BY SMTT(30), <1>1, <1>2, <1>7, <2>5
    <3> QED
      BY <3>1, <1>3
  <2> QED
    BY <1>1, <2>1, <2>2, <2>3, <2>4, <2>5
<1> QED
  BY <1>2, <1>7 DEF InARow, t

\* apply: the check of range and safety, the one accepted edit that is compared, the
\* insertion at the place the binary search ended at.
LEMMA ApplyOutcome ==
    ASSUME TypeOK, NEW e \in Edits, Apply(e)
    PROVE  Outcome(<<e>>)
<1> DEFINE offer == <<e>>
<1>1. /\ offered' = offer /\ operation' \in Operations /\ output = NotFinished
      /\ DOMAIN offer = {1} /\ offer[1] = e /\ ToSet(offer) = {e} /\ Len(offer) = 1
  BY DEF Apply, Open, Operations, ToSet
<1>2. edits \in Seq(Acceptable) /\ Ordered(edits) /\ Len(edits) \in Nat
      /\ Acceptable \in SUBSET Edits
  BY AcceptableType DEF TypeOK, Sorted, Ordered
<1> HIDE DEF offer
<1>3. ASSUME TooUnsafe(e), Return(e.safety)
      PROVE  Outcome(offer)
  <2>1. e.safety \in Results /\ e.safety # "Applied" /\ e.safety # "Overlap"
    BY <1>3, UnsafeAnswer DEF Results
  <2> QED
    BY <1>1, <1>3, <2>1 DEF Outcome
<1>4. ASSUME Return("OutOfBounds")
      PROVE  Outcome(offer)
  BY <1>1, <1>4 DEF Outcome, Results
<1>5. ASSUME ~ TooUnsafe(e), ~ OutOfBounds(e), NEW i \in Places(e),
             i < Len(edits), Overlaps(edits[i + 1], e), Return("Overlap")
      PROVE  Outcome(offer)
  <2>1. i \in 0..Len(edits) /\ i + 1 \in DOMAIN edits /\ edits[i + 1] \in Acceptable
    BY <1>2, <1>5 DEF Places
  <2>2. e.start <= e.end /\ edits[i + 1].start <= edits[i + 1].end /\ edits[i + 1] \in Edits
    BY <1>5, <2>1, PassesChecks, AcceptableType
  <2>3. InConflict(e, edits[i + 1])
    BY <1>5, <2>2, OverlapsInConflict
  <2>4. InTheWay(offer)
    BY <1>1, <2>1, <2>3 DEF InTheWay
  <2> QED
    BY <1>1, <1>5, <2>4 DEF Outcome, Results
<1>6. ASSUME ~ TooUnsafe(e), ~ OutOfBounds(e), NEW i \in Places(e),
             ~ (i < Len(edits) /\ Overlaps(edits[i + 1], e)),
             CheckAndTake(offer, InsertAt(edits, i + 1, e), TRUE)
      PROVE  Outcome(offer)
  <2>1. e \in Acceptable
    BY <1>6, PassesChecks
  <2>2. /\ i \in 0..Len(edits)
        /\ i > 0 => edits[i].end <= e.start
        /\ i < Len(edits) => e.start < edits[i + 1].end /\ ~ Overlaps(edits[i + 1], e)
    BY <1>6 DEF Places
  <2>3. InsertAt(edits, i + 1, e) = InOrder(edits \o offer)
    BY <1>2, <2>1, <2>2, InsertIsInOrder DEF offer
  <2>4. offer \in Seq(Acceptable) /\ Ordered(offer)
    <3>1. offer \in Seq(Acceptable)
      BY <2>1 DEF offer
    <3>2. \A k, l \in DOMAIN offer : ~ (k < l)
      BY <1>1
    <3> QED
      BY <3>1, <3>2 DEF Ordered
  <2>5. Merged(edits, offer) = InOrder(edits \o offer)
    BY <1>2, <2>4, MergedIsInOrder
  <2>6. Return("Rejected") \/ Return(Aborted) \/ Taken(offer, TRUE)
    BY <1>6, <2>3, <2>5, CheckAndTakeOutcome
  <2>7. CASE Return("Rejected")
    BY <1>1, <2>7 DEF Outcome, Results
  <2>8. CASE Return(Aborted)
    BY <1>1, <2>8 DEF Outcome, Aborted
  <2>9. CASE Taken(offer, TRUE)
    <3>1. InARow(edits) => InARow(InOrder(edits \o offer))
      BY <1>2, <2>1, <2>2, <2>3, InsertKeepsRow
    <3>2. operation' = "apply"
      BY DEF Apply
    <3> QED
      BY <1>1, <2>4, <2>9, <3>1, <3>2 DEF Outcome
  <2> QED
    BY <2>6, <2>7, <2>8, <2>9
<1>7. \/ TooUnsafe(e) /\ Return(e.safety)
      \/ ~ TooUnsafe(e) /\ OutOfBounds(e) /\ Return("OutOfBounds")
      \/ /\ ~ TooUnsafe(e) /\ ~ OutOfBounds(e)
         /\ \E i \in Places(e) :
                IF i < Len(edits) /\ Overlaps(edits[i + 1], e)
                THEN Return("Overlap")
                ELSE CheckAndTake(offer, InsertAt(edits, i + 1, e), TRUE)
  BY DEF Apply, offer
<1>8. Outcome(offer)
  BY <1>3, <1>4, <1>5, <1>6, <1>7
<1> QED
  BY <1>8 DEF offer

\* The smallest of a set of indices.
LEMMA MinProperties ==
    ASSUME NEW T, T \subseteq Nat, T # {}
    PROVE  Min(T) \in T /\ \A m \in T : Min(T) <= m
<1>1. \E n \in T : \A m \in T : n <= m
  BY LeastNatural
<1> QED
  BY <1>1 DEF Min

\* A batch, or what apply_unique_batch left of it: `kept' are the indices of the offered
\* edits in the batch, and the others are already accepted.
BatchOf(batch, offer, kept) ==
    /\ kept \subseteq DOMAIN offer
    /\ Rearranged(batch, offer, kept)
    /\ \A i \in DOMAIN offer \ kept : offer[i] \in ToSet(edits)
    /\ operation' = "apply_unique_batch"
           => \A k \in DOMAIN batch : batch[k] \notin ToSet(edits)

\* A conflict in the batch or with an accepted edit is one of the edits that were offered.
LEMMA BatchInTheWay ==
    ASSUME NEW batch, NEW offer, NEW kept, BatchOf(batch, offer, kept)
    PROVE  /\ \A k, l \in DOMAIN batch :
                  k # l /\ InConflict(batch[k], batch[l]) => InTheWay(offer)
           /\ \A k \in DOMAIN batch, j \in DOMAIN edits :
                  InConflict(batch[k], edits[j]) => InTheWay(offer)
<1>1. /\ \A k \in DOMAIN batch : \E i \in kept : batch[k] = offer[i]
      /\ \A k, l \in DOMAIN batch :
             k # l => \E i, j \in kept : i # j /\ batch[k] = offer[i] /\ batch[l] = offer[j]
      /\ kept \subseteq DOMAIN offer
  BY RearrangedElements DEF BatchOf
<1> QED
  BY <1>1 DEF InTheWay

\* The batch has what the accepted edits lack of the offered ones.
LEMMA BatchElements ==
    ASSUME NEW batch, NEW offer, NEW kept, BatchOf(batch, offer, kept)
    PROVE  ToSet(edits) \cup ToSet(batch) = ToSet(edits) \cup ToSet(offer)
<1>1. /\ \A k \in DOMAIN batch : \E i \in kept : batch[k] = offer[i]
      /\ \A i \in kept : \E k \in DOMAIN batch : batch[k] = offer[i]
      /\ kept \subseteq DOMAIN offer
      /\ \A i \in DOMAIN offer \ kept : offer[i] \in ToSet(edits)
  BY RearrangedElements DEF BatchOf
<1> QED
  BY <1>1 DEF ToSet

\* apply_batch, and apply_unique_batch once it has dropped what is already accepted: the
\* checks of every edit and of every two neighbours, the conflicts with the accepted
\* edits, the sort of the two lists together.
LEMMA BatchOutcome ==
    ASSUME TypeOK, NEW offer \in Seq(Edits), NEW batch \in Seq(Edits), NEW kept,
           BatchOf(batch, offer, kept), ApplyBatch(batch),
           offered' = offer, operation' \in Operations, output = NotFinished
    PROVE  Outcome(offer)
<1> DEFINE new == InOrder(batch)
           risky == {i \in DOMAIN batch : TooUnsafe(batch[i])}
           wrong == {i \in DOMAIN new : \/ OutOfBounds(new[i])
                                        \/ i > 1 /\ Overlaps(new[i - 1], new[i])}
<1>1. edits \in Seq(Acceptable) /\ Ordered(edits) /\ Len(edits) \in Nat
      /\ Acceptable \in SUBSET Edits
  BY AcceptableType DEF TypeOK, Sorted, Ordered
<1>2. ToSet(edits) \cup ToSet(batch) = ToSet(edits) \cup ToSet(offer)
  BY BatchElements
<1>3. /\ new \in Seq(Edits) /\ Len(new) = Len(batch) /\ Ordered(new)
  <2>1. Edits \in SUBSET Edits
    OBVIOUS
  <2>2. /\ new \in Seq(Edits) /\ Len(new) = Len(batch)
        /\ \A k, l \in 1..Len(batch) : k <= l => ~ Precedes(new[l], new[k])
    BY <2>1, InOrderProperties
  <2> HIDE DEF new
  <2>3. DOMAIN new = 1..Len(batch) /\ Len(batch) \in Nat
    BY <2>2
  <2> QED
    BY <2>2, <2>3 DEF Ordered
<1>4. Rearranged(new, batch, DOMAIN batch)
  <2>1. Edits \in SUBSET Edits
    OBVIOUS
  <2> QED
    BY <2>1, InOrderRearranges
<1>5. /\ \A k \in DOMAIN new : \E i \in DOMAIN batch : new[k] = batch[i]
      /\ \A i \in DOMAIN batch : \E k \in DOMAIN new : new[k] = batch[i]
      /\ \A k, l \in DOMAIN new :
             k # l => \E i, j \in DOMAIN batch : i # j /\ new[k] = batch[i] /\ new[l] = batch[j]
  BY <1>4, RearrangedElements
<1>6. \/ batch = <<>> /\ Return("Applied")
      \/ risky # {} /\ Return(batch[Min(risky)].safety)
      \/ /\ risky = {} /\ wrong # {}
         /\ Return(IF OutOfBounds(new[Min(wrong)]) THEN "OutOfBounds" ELSE "Overlap")
      \/ /\ risky = {} /\ wrong = {}
         /\ Conflict(edits, new) /\ Return("Overlap")
      \/ /\ risky = {} /\ wrong = {}
         /\ CheckAndTake(new, InOrder(edits \o new), FALSE)
  BY DEF ApplyBatch
<1>7. DOMAIN new = 1..Len(new) /\ Len(new) \in Nat /\ DOMAIN batch \subseteq Nat
  <2> HIDE DEF new
  <2> QED
    BY <1>3
<1> HIDE DEF new
<1>8. ASSUME batch = <<>>, Return("Applied")
      PROVE  Outcome(offer)
  <2>1. ToSet(batch) = {}
    BY <1>8 DEF ToSet
  <2>2. ToSet(offer) \subseteq ToSet(edits)
    BY <1>2, <2>1
  <2> QED
    BY <1>8, <2>2 DEF Outcome, Results
<1>9. ASSUME risky # {}, Return(batch[Min(risky)].safety)
      PROVE  Outcome(offer)
  <2> DEFINE e == batch[Min(risky)]
  <2>1. Min(risky) \in risky
    BY <1>7, <1>9, MinProperties
  <2>2. e \in Edits /\ TooUnsafe(e)
    BY <2>1
  <2> HIDE DEF e
  <2>3. e.safety \in Results /\ e.safety # "Applied" /\ e.safety # "Overlap"
    BY <2>2, UnsafeAnswer DEF Results
  <2>4. Return(e.safety)
    BY <1>9 DEF e
  <2> QED
    BY <2>3, <2>4 DEF Outcome
<1>10. ASSUME wrong # {},
              Return(IF OutOfBounds(new[Min(wrong)]) THEN "OutOfBounds" ELSE "Overlap")
       PROVE  Outcome(offer)
  <2> DEFINE w == Min(wrong)
  <2>1. w \in wrong /\ \A v \in wrong : w <= v
    <3>1. wrong \subseteq Nat
      BY <1>7
    <3> HIDE DEF wrong
    <3> QED
      BY <1>10, <3>1, MinProperties
  <2>2. CASE OutOfBounds(new[w])
    BY <1>10, <2>2 DEF Outcome, Results
  <2>3. CASE ~ OutOfBounds(new[w])
    <3>1. w \in DOMAIN new /\ w > 1 /\ Overlaps(new[w - 1], new[w])
      BY <2>1, <2>3
    <3>2. w - 1 \in DOMAIN new /\ w - 1 < w /\ w - 1 # w
      BY <1>7, <3>1
    <3>3. w - 1 \notin wrong
      <4> HIDE DEF wrong, w
      <4> QED
        BY <1>7, <2>1, <3>1, <3>2
    <3>4. ~ OutOfBounds(new[w - 1])
      BY <3>2, <3>3
    <3>5. InConflict(new[w - 1], new[w])
      <4>1. new[w - 1] \in Edits /\ new[w] \in Edits
        BY <1>3, <3>1, <3>2
      <4> HIDE DEF w
      <4> QED
        BY <4>1, <2>3, <3>1, <3>4, PassesChecks, OverlapsInConflict
    <3>6. InTheWay(offer)
      <4> HIDE DEF w
      <4>1. PICK i \in DOMAIN batch, j \in DOMAIN batch :
                i # j /\ new[w - 1] = batch[i] /\ new[w] = batch[j]
        BY <1>5, <3>1, <3>2
      <4> QED
        BY <4>1, <3>5, BatchInTheWay
    <3>7. Return("Overlap")
      BY <1>10, <2>3
    <3> QED
      BY <3>6, <3>7 DEF Outcome, Results
  <2> QED
    BY <2>2, <2>3
<1>11. ASSUME risky = {}, wrong = {}
       PROVE  new \in Seq(Acceptable)
  <2>1. \A k \in DOMAIN new : new[k] \in Acceptable
    <3> SUFFICES ASSUME NEW k \in DOMAIN new
                 PROVE  new[k] \in Acceptable
      OBVIOUS
    <3>1. PICK i \in DOMAIN batch : new[k] = batch[i]
      BY <1>5
    <3>2. ~ OutOfBounds(new[k])
      BY <1>11
    <3>3. ~ TooUnsafe(batch[i])
      BY <1>11
    <3>4. new[k] \in Edits
      BY <1>3
    <3> QED
      BY <3>1, <3>2, <3>3, <3>4, PassesChecks
  <2> QED
    BY <1>3, <1>7, <2>1
<1>12. ASSUME new \in Seq(Acceptable), Conflict(edits, new), Return("Overlap")
       PROVE  Outcome(offer)
  <2>1. PICK j \in 1..Len(edits), k \in 1..Len(new) : Overlaps(edits[j], new[k])
    BY <1>1, <1>7, <1>12, ConflictIsAPair
  <2>2. edits[j] \in Acceptable /\ new[k] \in Acceptable /\ j \in DOMAIN edits /\ k \in DOMAIN new
    BY <1>1, <1>7, <1>12, <2>1
  <2>3. InConflict(new[k], edits[j])
    BY <2>1, <2>2, AcceptableType, OverlapsInConflict
  <2>4. PICK i \in DOMAIN batch : new[k] = batch[i]
    BY <1>5, <2>2
  <2>5. InTheWay(offer)
    BY <2>2, <2>3, <2>4, BatchInTheWay
  <2> QED
    BY <1>12, <2>5 DEF Outcome, Results
<1>13. ASSUME new \in Seq(Acceptable), CheckAndTake(new, InOrder(edits \o new), FALSE)
       PROVE  Outcome(offer)
  <2>1. Merged(edits, new) = InOrder(edits \o new)
    BY <1>1, <1>3, <1>13, MergedIsInOrder
  <2>2. Return("Rejected") \/ Return(Aborted) \/ Taken(new, FALSE)
    BY <1>13, <2>1, CheckAndTakeOutcome
  <2>3. CASE Return("Rejected")
    BY <2>3 DEF Outcome, Results
  <2>4. CASE Return(Aborted)
    BY <2>4 DEF Outcome, Aborted
  <2>5. CASE Taken(new, FALSE)
    <3>1. ToSet(new) = ToSet(batch)
      BY <1>5 DEF ToSet
    <3>2. operation' = "apply_unique_batch" => \A k \in DOMAIN new : new[k] \notin ToSet(edits)
      BY <1>5 DEF BatchOf
    <3> QED
      BY <1>2, <1>13, <2>5, <3>1, <3>2 DEF Outcome
  <2> QED
    BY <2>2, <2>3, <2>4, <2>5
<1> HIDE DEF risky, wrong
<1> QED
  BY <1>6, <1>8, <1>9, <1>10, <1>11, <1>12, <1>13

\* A whole batch is a rearrangement of itself.
LEMMA WholeBatch ==
    ASSUME NEW batch, operation' # "apply_unique_batch"
    PROVE  BatchOf(batch, batch, DOMAIN batch)
<1> DEFINE place == [i \in DOMAIN batch |-> i]
<1>1. /\ place \in [DOMAIN batch -> DOMAIN batch]
      /\ \A i \in DOMAIN batch : batch[place[i]] = batch[i]
      /\ \A a \in DOMAIN batch : \E i \in DOMAIN batch : place[i] = a
      /\ \A i, j \in DOMAIN batch : place[i] = place[j] => i = j
  OBVIOUS
<1> HIDE DEF place
<1> QED
  BY <1>1 DEF BatchOf, Rearranged

\* What is missing of a batch is the edits that are not among the accepted ones.
LEMMA MissingBatch ==
    ASSUME NEW batch \in Seq(Edits)
    PROVE  /\ Missing(batch) \in Seq(Edits)
           /\ \E kept : BatchOf(Missing(batch), batch, kept)
<1> DEFINE kept == {k \in DOMAIN batch : \A i \in DOMAIN edits : edits[i] # batch[k]}
<1>1. Missing(batch) = Retained(batch, kept) /\ kept \in SUBSET DOMAIN batch
  BY DEF Missing
<1>2. \A k \in DOMAIN batch : k \in kept <=> batch[k] \notin ToSet(edits)
  BY DEF ToSet
<1> HIDE DEF kept
<1>3. Missing(batch) \in Seq(Edits) /\ Rearranged(Missing(batch), batch, kept)
  BY <1>1, RetainedRearranges
<1>4. \A k \in DOMAIN Missing(batch) : \E i \in kept : Missing(batch)[k] = batch[i]
  BY <1>3, RearrangedElements
<1>5. BatchOf(Missing(batch), batch, kept)
  BY <1>1, <1>2, <1>3, <1>4 DEF BatchOf
<1> QED
  BY <1>3, <1>5

\* Every step is a call with one of these outcomes, or the end.
LEMMA NextOutcome ==
    ASSUME TypeOK, Next
    PROVE  \/ \E offer \in Seq(Edits) : Outcome(offer)
           \/ Finish
<1>1. ASSUME NEW e \in Edits, Apply(e)
      PROVE  \E offer \in Seq(Edits) : Outcome(offer)
  <2>1. Outcome(<<e>>) /\ <<e>> \in Seq(Edits)
    BY <1>1, ApplyOutcome
  <2> QED
    BY <2>1
<1>2. ASSUME NEW batch \in Batches
      PROVE  batch \in Seq(Edits)
  BY <1>2 DEF Batches, BoundedSeq, SeqOf
<1>3. ASSUME NEW batch \in Batches, ApplyWholeBatch(batch)
      PROVE  \E offer \in Seq(Edits) : Outcome(offer)
  <2>1. /\ offered' = batch /\ operation' = "apply_batch" /\ output = NotFinished
        /\ ApplyBatch(batch)
    BY <1>3 DEF ApplyWholeBatch, Open
  <2>2. BatchOf(batch, batch, DOMAIN batch)
    BY <2>1, WholeBatch
  <2>3. Outcome(batch)
    BY <1>2, <2>1, <2>2, BatchOutcome DEF Operations
  <2> QED
    BY <1>2, <2>3
<1>4. ASSUME NEW batch \in Batches, ApplyUniqueBatch(batch)
      PROVE  \E offer \in Seq(Edits) : Outcome(offer)
  <2>1. /\ offered' = batch /\ operation' = "apply_unique_batch" /\ output = NotFinished
        /\ ApplyBatch(Missing(batch))
    BY <1>4 DEF ApplyUniqueBatch, Open
  <2>2. PICK kept : BatchOf(Missing(batch), batch, kept)
    BY <1>2, MissingBatch
  <2>3. Missing(batch) \in Seq(Edits)
    BY <1>2, MissingBatch
  <2>4. Outcome(batch)
    BY <1>2, <2>1, <2>2, <2>3, BatchOutcome DEF Operations
  <2> QED
    BY <1>2, <2>4
<1> QED
  BY <1>1, <1>3, <1>4 DEF Next

\* Two lists have the elements of the one they are sorted into.
LEMMA MergedElements ==
    ASSUME NEW old \in Seq(Edits), NEW new \in Seq(Edits)
    PROVE  /\ ToSet(InOrder(old \o new)) = ToSet(old) \cup ToSet(new)
           /\ \A x : x \notin ToSet(new)
                  => Count(InOrder(old \o new), x) = Count(old, x)
<1> DEFINE s == old \o new
           t == InOrder(s)
<1>1. /\ s \in Seq(Edits) /\ Len(s) = Len(old) + Len(new)
      /\ \A i \in 1..Len(old) : s[i] = old[i]
      /\ \A i \in 1..Len(new) : s[Len(old) + i] = new[i]
      /\ Len(old) \in Nat /\ Len(new) \in Nat
  BY ConcatProperties
<1>2. DOMAIN s = 1..Len(s) /\ DOMAIN old = 1..Len(old) /\ DOMAIN new = 1..Len(new)
  <2> HIDE DEF s
  <2> QED
    BY <1>1
<1> HIDE DEF s
<1>3. \A k \in DOMAIN s : \/ k \in DOMAIN old /\ s[k] = old[k]
                          \/ k - Len(old) \in DOMAIN new /\ s[k] = new[k - Len(old)]
  <2> SUFFICES ASSUME NEW k \in DOMAIN s, k \notin DOMAIN old
               PROVE  k - Len(old) \in DOMAIN new /\ s[k] = new[k - Len(old)]
    BY <1>1, <1>2
  <2>1. k - Len(old) \in 1..Len(new) /\ Len(old) + (k - Len(old)) = k
    BY <1>1, <1>2
  <2> QED
    BY <1>1, <1>2, <2>1
<1>4. \A i \in DOMAIN old : i \in DOMAIN s /\ s[i] = old[i]
  BY <1>1, <1>2
<1>5. \A i \in DOMAIN new : Len(old) + i \in DOMAIN s /\ s[Len(old) + i] = new[i]
  BY <1>1, <1>2
<1>6. ToSet(s) = ToSet(old) \cup ToSet(new)
  BY <1>3, <1>4, <1>5 DEF ToSet
<1>7. Rearranged(t, s, DOMAIN s)
  <2>1. Edits \in SUBSET Edits
    OBVIOUS
  <2> QED
    BY <1>1, <2>1, InOrderRearranges
<1> HIDE DEF t
<1>8. ToSet(t) = ToSet(s)
  <2>1. /\ \A i \in DOMAIN s : \E a \in DOMAIN t : t[a] = s[i]
        /\ \A a \in DOMAIN t : \E i \in DOMAIN s : t[a] = s[i]
    BY <1>7, RearrangedElements
  <2> QED
    BY <2>1 DEF ToSet
<1>9. ASSUME NEW x, x \notin ToSet(new)
      PROVE  Count(t, x) = Count(old, x)
  <2>1. IsFiniteSet(DOMAIN s)
    BY <1>1, <1>2, FS_Interval
  <2>2. Times(t, DOMAIN t, x) = Times(s, DOMAIN s, x)
    BY <1>7, <2>1, RearrangedCount
  <2>3. \A k \in DOMAIN s : s[k] = x => k \in DOMAIN old /\ old[k] = x
    BY <1>3, <1>9 DEF ToSet
  <2>4. {i \in DOMAIN s : s[i] = x} = {i \in DOMAIN old : old[i] = x}
    BY <1>4, <2>3
  <2> QED
    BY <2>2, <2>4 DEF Count, Times
<1> QED
  BY <1>6, <1>8, <1>9 DEF t, s

-----------------------------------------------------------------------------
(* The invariant.                                                          *)

\* The accepted edits, sorted: single insertions and sorted batches give one order.
InAcceptedOrder == accepted \in Seq(Acceptable) /\ edits = InOrder(accepted)

\* What the history variables remember is true of the accepted edits: single edits lie in
\* a row, the approved text is the one they give, and so is the text that was written;
\* what was applied is there; an overlap was one.  The edits are the stable sort of the
\* order in which they were accepted.
EditorInv ==
    /\ TypeOK
    /\ InAcceptedOrder
    /\ singly => InARow(edits)
    /\ approved # Unchecked => approved = Stitch(edits)
    /\ output # NotFinished => output = Stitch(edits)
    /\ result = "Applied" => ToSet(offered) \subseteq ToSet(edits)
    /\ result = "Overlap" => InTheWay(offered)

\* Nothing was offered and nothing accepted.
LEMMA EditorInvInit == Init => EditorInv
<1> SUFFICES ASSUME Init PROVE EditorInv
  OBVIOUS
<1>1. /\ edits = <<>> /\ output = NotFinished /\ offered = <<>> /\ result = "Applied"
      /\ operation = "apply" /\ accepted = <<>> /\ approved = Unchecked /\ singly = TRUE
  BY DEF Init
<1>2. TypeOK
  BY <1>1 DEF TypeOK, Sorted, Results
<1>3. InARow(edits) /\ ToSet(offered) \subseteq ToSet(edits)
  BY <1>1 DEF InARow, ToSet
<1>4. InAcceptedOrder
  <2>1. <<>> \in Seq(Acceptable) /\ Len(<<>>) = 0 /\ Acceptable \in SUBSET Edits
    BY DEF Acceptable
  <2>2. Placed(<<>>, <<>>)
    BY DEF Placed
  <2>3. <<>> = InOrder(<<>>)
    BY <2>1, <2>2, InOrderUnique
  <2> QED
    BY <1>1, <2>1, <2>3 DEF InAcceptedOrder
<1> QED
  BY <1>1, <1>2, <1>3, <1>4 DEF EditorInv

\* Each outcome of a call, and finish, preserves it.
LEMMA EditorInvNext ==
    ASSUME EditorInv, [Next]_vars
    PROVE  EditorInv'
<1> USE DEF EditorInv
<1>0. Acceptable \in SUBSET Edits
  BY AcceptableType
<1>1. ASSUME NEW offer \in Seq(Edits), Outcome(offer),
             NEW answer \in Results \cup {Aborted}, Return(answer),
             answer = "Applied" => ToSet(offer) \subseteq ToSet(edits),
             answer = "Overlap" => InTheWay(offer)
      PROVE  EditorInv'
  <2>1. /\ UNCHANGED <<edits, output, accepted, approved, singly>>
        /\ result' = answer /\ offered' = offer /\ operation' \in Operations
    BY <1>1 DEF Return, Outcome
  <2>2. TypeOK'
    BY <2>1 DEF TypeOK, Sorted, Operations
  <2>3. (result = "Overlap" => InTheWay(offered))'
    BY <1>1, <2>1 DEF InTheWay
  <2>4. (singly => InARow(edits))'
    BY <2>1 DEF InARow
  <2>5. (result = "Applied" => ToSet(offered) \subseteq ToSet(edits))'
    BY <1>1, <2>1
  <2>6. InAcceptedOrder'
    BY <2>1 DEF InAcceptedOrder
  <2> QED
    BY <2>1, <2>2, <2>3, <2>4, <2>5, <2>6
<1>2. ASSUME NEW offer \in Seq(Edits), Outcome(offer),
             NEW new \in Seq(Acceptable), NEW isSingle \in BOOLEAN, Taken(new, isSingle),
             ToSet(edits) \cup ToSet(new) = ToSet(edits) \cup ToSet(offer),
             singly /\ isSingle /\ InARow(edits) => InARow(InOrder(edits \o new))
      PROVE  EditorInv'
  <2> DEFINE after == InOrder(edits \o new)
  <2>1. /\ edits' = after /\ result' = "Applied" /\ accepted' = accepted \o new
        /\ approved' = Unchecked \/ approved' = Stitch(after)
        /\ singly' = (singly /\ isSingle)
        /\ UNCHANGED output
    BY <1>2 DEF Taken
  <2>2. offered' = offer /\ operation' \in Operations /\ output = NotFinished
    BY <1>2 DEF Outcome
  <2>3. edits \o new \in Seq(Acceptable)
    BY <1>2, ConcatProperties DEF TypeOK
  <2>4. /\ after \in Seq(Acceptable)
        /\ \A k, l \in DOMAIN after : k < l => ~ Precedes(after[l], after[k])
    <3> DEFINE s == edits \o new
    <3>1. s \in Seq(Acceptable) /\ InOrder(s) = after
      BY <2>3
    <3> HIDE DEF s, after
    <3>2. /\ after \in Seq(Acceptable) /\ Len(after) = Len(s)
          /\ \A k, l \in 1..Len(s) : k <= l => ~ Precedes(after[l], after[k])
      BY <1>0, <3>1, InOrderProperties
    <3>3. DOMAIN after = 1..Len(s) /\ Len(s) \in Nat
      BY <3>1, <3>2
    <3> QED
      BY <3>2, <3>3
  <2>5. singly' => InARow(after)
    BY <1>2, <2>1
  <2>6. Stitch(after) \in Seq(STRING)
    BY <2>4, StitchType
  <2>7. accepted \o new \in Seq(Edits)
    <3>1. new \in Seq(Edits)
      BY <1>0
    <3> QED
      BY <3>1, ConcatProperties DEF TypeOK
  <2> HIDE DEF after
  <2>8. TypeOK'
    BY <2>1, <2>2, <2>4, <2>6, <2>7 DEF TypeOK, Sorted, Operations, Results
  <2>9. (singly => InARow(edits))'
    BY <2>1, <2>5 DEF InARow
  <2>10. (approved # Unchecked => approved = Stitch(edits))'
    BY <2>1
  <2>11. output' = NotFinished /\ result' # "Overlap"
    BY <2>1, <2>2
  <2>12. ToSet(offered') \subseteq ToSet(edits')
    <3>1. edits \in Seq(Edits) /\ new \in Seq(Edits)
      BY <1>0 DEF TypeOK
    <3>2. ToSet(edits') = ToSet(edits) \cup ToSet(new)
      BY <2>1, <3>1, MergedElements DEF after
    <3> QED
      BY <1>2, <2>2, <3>2
  <2>13. InAcceptedOrder'
    <3>1. accepted \in Seq(Acceptable) /\ edits = InOrder(accepted)
      BY DEF InAcceptedOrder
    <3>2. accepted' \in Seq(Acceptable)
      BY <1>2, <2>1, <3>1, ConcatProperties
    <3>3. edits' = InOrder(accepted \o new)
      BY <1>0, <1>2, <2>1, <3>1, SortedInParts DEF after
    <3> QED
      BY <2>1, <3>2, <3>3 DEF InAcceptedOrder
  <2> QED
    BY <2>8, <2>9, <2>10, <2>11, <2>12, <2>13
<1>3. CASE Finish
  <2>1. /\ output' = Stitch(edits) /\ UNCHANGED edits
        /\ UNCHANGED <<offered, result, operation, accepted, approved, singly>>
    BY <1>3 DEF Finish, history
  <2>2. Stitch(edits) \in Seq(STRING)
    BY StitchType DEF TypeOK
  <2>3. TypeOK'
    BY <2>1, <2>2 DEF TypeOK, Sorted
  <2>4. (singly => InARow(edits))' /\ (result = "Overlap" => InTheWay(offered))'
    BY <2>1 DEF InARow, InTheWay
  <2>5. InAcceptedOrder'
    BY <2>1 DEF InAcceptedOrder
  <2> QED
    BY <2>1, <2>3, <2>4, <2>5
<1>4. CASE UNCHANGED vars
  <2>1. /\ UNCHANGED <<edits, output>>
        /\ UNCHANGED <<offered, result, operation, accepted, approved, singly>>
    BY <1>4 DEF vars, editor, history
  <2>2. TypeOK'
    BY <2>1 DEF TypeOK, Sorted
  <2>3. (singly => InARow(edits))' /\ (result = "Overlap" => InTheWay(offered))'
    BY <2>1 DEF InARow, InTheWay
  <2>4. InAcceptedOrder'
    BY <2>1 DEF InAcceptedOrder
  <2> QED
    BY <2>1, <2>2, <2>3, <2>4
<1>5. ASSUME NEW offer \in Seq(Edits), Outcome(offer)
      PROVE  EditorInv'
  <2>1. \/ \E answer \in Results \cup {Aborted} :
             /\ Return(answer)
             /\ answer = "Applied" => ToSet(offer) \subseteq ToSet(edits)
             /\ answer = "Overlap" => InTheWay(offer)
        \/ \E new \in Seq(Acceptable), isSingle \in BOOLEAN :
             /\ Taken(new, isSingle)
             /\ ToSet(edits) \cup ToSet(new) = ToSet(edits) \cup ToSet(offer)
             /\ singly /\ isSingle /\ InARow(edits) => InARow(InOrder(edits \o new))
    BY <1>5 DEF Outcome
  <2> HIDE DEF EditorInv
  <2> QED
    BY <1>1, <1>2, <1>5, <2>1
<1> HIDE DEF EditorInv
<1>6. TypeOK
  BY DEF EditorInv
<1> QED
  BY <1>3, <1>4, <1>5, <1>6, NextOutcome

\* Every state of an editor satisfies the invariant, for any text, edits and bounds.
THEOREM EditorInvariant == Spec => []EditorInv
BY EditorInvInit, EditorInvNext, PTL DEF Spec

-----------------------------------------------------------------------------
(* What it gives.                                                          *)

\* The accepted edits are in order, lie in the text and are as safe as the threshold asks.
THEOREM EditsAreInOrder == Spec => []TypeOK
<1>1. EditorInv => TypeOK
  BY DEF EditorInv
<1> QED
  BY <1>1, EditorInvariant, PTL

\* Edits in a row have no byte in common, and none inserts into another.
LEMMA RowIsFree ==
    ASSUME TypeOK, InARow(edits)
    PROVE  NonOverlapping
<1>1. ASSUME NEW i \in DOMAIN edits, NEW j \in DOMAIN edits, i < j
      PROVE  ~ InConflict(edits[i], edits[j]) /\ ~ InConflict(edits[j], edits[i])
  <2> DEFINE e == edits[i]
             f == edits[j]
  <2>1. e.end <= f.start
    BY <1>1 DEF InARow
  <2>2. /\ e.start \in Nat /\ e.end \in Nat /\ e.start <= e.end
        /\ f.start \in Nat /\ f.end \in Nat /\ f.start <= f.end
    BY AcceptableType DEF TypeOK
  <2> HIDE DEF e, f
  <2>3. Bytes(e) \cap Bytes(f) = {}
    BY <2>1, <2>2 DEF Bytes
  <2>4. ~ ({e.start - 1, e.start} \subseteq Bytes(f))
    BY <2>1, <2>2 DEF Bytes
  <2>5. ~ ({f.start - 1, f.start} \subseteq Bytes(e))
    BY <2>1, <2>2 DEF Bytes
  <2>6. ~ InConflict(e, f) /\ ~ InConflict(f, e)
    BY <2>3, <2>4, <2>5 DEF InConflict
  <2> QED
    BY <2>6 DEF e, f
<1>2. \A i, j \in DOMAIN edits : i \in Int /\ j \in Int
  BY DEF TypeOK
<1>3. \A i, j \in DOMAIN edits : i # j => i < j \/ j < i
  BY <1>2
<1> QED
  BY <1>1, <1>3 DEF NonOverlapping

\* Edits that come one by one never overlap, though apply compares one accepted edit
\* only: the one after the place where its binary search ends.
THEOREM SingleEditsNeverOverlap == Spec => []SinglyNonOverlapping
<1>1. EditorInv => SinglyNonOverlapping
  BY RowIsFree DEF EditorInv, SinglyNonOverlapping
<1> QED
  BY <1>1, EditorInvariant, PTL

\* finish writes what the edits mean, byte by byte, as long as they do not overlap: one
\* pass over the list that apply and the batches keep in order, whatever the order and
\* the operations they were accepted by.
THEOREM WhatIsMeantIsWritten == Spec => []WritesWhatIsMeant
<1>1. EditorInv => WritesWhatIsMeant
  BY StitchIsIntended DEF EditorInv, InAcceptedOrder, WritesWhatIsMeant
<1> QED
  BY <1>1, EditorInvariant, PTL

\* The text the check approved is the text that is written: stitch_merged goes through
\* two sorted lists in the order in which the sort puts the one they make.
THEOREM TheCheckedTextIsWritten == Spec => []CheckedIsWritten
<1>1. EditorInv => CheckedIsWritten
  BY DEF EditorInv, CheckedIsWritten
<1> QED
  BY <1>1, EditorInvariant, PTL

\* An overlap is reported of edits that are in each other's way.
THEOREM NoFixIsRefusedForNothing == Spec => []OverlapsAreReal
<1>1. EditorInv => OverlapsAreReal
  BY DEF EditorInv, OverlapsAreReal, InTheWay
<1> QED
  BY <1>1, EditorInvariant, PTL

\* A step of a call changes the accepted edits only by taking a list of new ones.
LEMMA StepOfEdits ==
    ASSUME EditorInv, [Next]_vars
    PROVE  \/ UNCHANGED vars
           \/ edits' = edits /\ UNCHANGED history
           \/ /\ edits' = edits
              /\ result' = "Applied" => ToSet(offered') \subseteq ToSet(edits)
           \/ /\ result' = "Applied"
              /\ \E new \in Seq(Edits) :
                     /\ edits' = InOrder(edits \o new)
                     /\ ToSet(edits) \cup ToSet(new) = ToSet(edits) \cup ToSet(offered')
                     /\ operation' = "apply_unique_batch"
                            => \A k \in DOMAIN new : new[k] \notin ToSet(edits)
<1>1. TypeOK /\ Acceptable \subseteq Edits
  BY AcceptableType DEF EditorInv
<1>2. CASE Finish
  BY <1>2 DEF Finish
<1>3. ASSUME NEW offer \in Seq(Edits), Outcome(offer),
             NEW answer \in Results \cup {Aborted}, Return(answer),
             answer = "Applied" => ToSet(offer) \subseteq ToSet(edits)
      PROVE  /\ edits' = edits
             /\ result' = "Applied" => ToSet(offered') \subseteq ToSet(edits)
  BY <1>3 DEF Outcome, Return
<1>4. ASSUME NEW offer \in Seq(Edits), Outcome(offer),
             NEW new \in Seq(Acceptable), NEW isSingle \in BOOLEAN, Taken(new, isSingle)
      PROVE  /\ result' = "Applied" /\ offered' = offer /\ new \in Seq(Edits)
             /\ edits' = InOrder(edits \o new)
  BY <1>1, <1>4 DEF Outcome, Taken
<1>5. ASSUME NEW offer \in Seq(Edits), Outcome(offer)
      PROVE  \/ /\ edits' = edits
                /\ result' = "Applied" => ToSet(offered') \subseteq ToSet(edits)
             \/ /\ result' = "Applied"
                /\ \E new \in Seq(Edits) :
                       /\ edits' = InOrder(edits \o new)
                       /\ ToSet(edits) \cup ToSet(new) = ToSet(edits) \cup ToSet(offered')
                       /\ operation' = "apply_unique_batch"
                              => \A k \in DOMAIN new : new[k] \notin ToSet(edits)
  <2>1. CASE \E answer \in Results \cup {Aborted} :
                 Return(answer) /\ (answer = "Applied" => ToSet(offer) \subseteq ToSet(edits))
    BY <1>3, <1>5, <2>1
  <2>2. CASE \E new \in Seq(Acceptable), isSingle \in BOOLEAN :
                 /\ Taken(new, isSingle)
                 /\ ToSet(edits) \cup ToSet(new) = ToSet(edits) \cup ToSet(offer)
                 /\ operation' = "apply_unique_batch"
                        => \A k \in DOMAIN new : new[k] \notin ToSet(edits)
    BY <1>4, <1>5, <2>2
  <2> QED
    BY <1>5, <2>1, <2>2 DEF Outcome
<1> QED
  BY <1>1, <1>2, <1>5, NextOutcome

\* A batch is accepted as a whole or leaves no trace, also when its edits are checked,
\* sorted and merged on the way, and an accepted edit stays accepted.
THEOREM BatchesAreAllOrNothing == Spec => AllOrNothing
<1> DEFINE A == /\ result' # "Applied" => edits' = edits
                /\ result' = "Applied" => ToSet(edits') = ToSet(edits) \cup ToSet(offered')
<1>1. ASSUME EditorInv, [Next]_vars
      PROVE  [A]_vars
  <2>1. CASE UNCHANGED vars
    BY <2>1
  <2>2. CASE edits' = edits /\ UNCHANGED history
    BY <1>1, <2>2 DEF EditorInv, history
  <2>3. CASE /\ edits' = edits
             /\ result' = "Applied" => ToSet(offered') \subseteq ToSet(edits)
    BY <2>3
  <2>4. CASE /\ result' = "Applied"
             /\ \E new \in Seq(Edits) :
                    /\ edits' = InOrder(edits \o new)
                    /\ ToSet(edits) \cup ToSet(new) = ToSet(edits) \cup ToSet(offered')
    <3>1. PICK new \in Seq(Edits) :
                    /\ edits' = InOrder(edits \o new)
                    /\ ToSet(edits) \cup ToSet(new) = ToSet(edits) \cup ToSet(offered')
      BY <2>4
    <3>2. edits \in Seq(Edits)
      <4>1. Acceptable \subseteq Edits
        BY AcceptableType
      <4> QED
        BY <1>1, <4>1 DEF EditorInv, TypeOK
    <3>3. ToSet(edits') = ToSet(edits) \cup ToSet(new)
      BY <3>1, <3>2, MergedElements
    <3> QED
      BY <2>4, <3>1, <3>3
  <2> QED
    BY <1>1, <2>1, <2>2, <2>3, <2>4, StepOfEdits
<1> QED
  BY <1>1, EditorInvariant, PTL DEF Spec, AllOrNothing

\* apply_unique_batch never accepts an edit that is accepted already.
THEOREM SharedEditsAreWrittenOnce == Spec => SharedOnce
<1> DEFINE A == operation' = "apply_unique_batch" =>
                    \A e \in ToSet(edits') : Count(edits', e) = Count(edits, e)
                                             \/ Count(edits, e) = 0
<1>1. ASSUME EditorInv, [Next]_vars
      PROVE  [A]_vars
  <2>1. CASE UNCHANGED vars
    BY <2>1
  <2>2. CASE edits' = edits
    <3>1. \A e : Count(edits', e) = Count(edits, e)
      BY <2>2
    <3> QED
      BY <3>1
  <2>3. CASE \E new \in Seq(Edits) :
                 /\ edits' = InOrder(edits \o new)
                 /\ operation' = "apply_unique_batch"
                        => \A k \in DOMAIN new : new[k] \notin ToSet(edits)
    <3>1. PICK new \in Seq(Edits) :
                 /\ edits' = InOrder(edits \o new)
                 /\ operation' = "apply_unique_batch"
                        => \A k \in DOMAIN new : new[k] \notin ToSet(edits)
      BY <2>3
    <3>2. edits \in Seq(Edits)
      <4>1. Acceptable \subseteq Edits
        BY AcceptableType
      <4> QED
        BY <1>1, <4>1 DEF EditorInv, TypeOK
    <3> SUFFICES ASSUME operation' = "apply_unique_batch", NEW e \in ToSet(edits')
                 PROVE  Count(edits', e) = Count(edits, e) \/ Count(edits, e) = 0
      OBVIOUS
    <3>3. CASE e \notin ToSet(new)
      BY <3>1, <3>2, <3>3, MergedElements
    <3>4. CASE e \in ToSet(new)
      <4>1. e \notin ToSet(edits)
        BY <3>1, <3>4 DEF ToSet
      <4>2. {i \in DOMAIN edits : edits[i] = e} = {}
        BY <4>1 DEF ToSet
      <4> QED
        BY <4>2, FS_EmptySet DEF Count
    <3> QED
      BY <3>3, <3>4
  <2> QED
    BY <1>1, <2>1, <2>2, <2>3, StepOfEdits
<1> QED
  BY <1>1, EditorInvariant, PTL DEF Spec, SharedOnce
===============================================================================
