----------------------- MODULE IncrementalAnalysisProofs -----------------------
(***************************************************************************)
(* Proofs about the incremental analysis service, for any workspace, any   *)
(* contents and any sequence of changes and calls.  Every host file has    *)
(* its editor data; and since the last full analysis, unless one was run   *)
(* in a state of Conflict, what is kept in memory from call to call is     *)
(* what a full analysis would build: the declarations with their owners    *)
(* and patches, what each class inherits, the references and, for each     *)
(* file, all that its analysis reads along the dependencies.  The heirs of *)
(* a class and the issues of the scanner do differ, see MatchesFull.       *)
(***************************************************************************)
EXTENDS IncrementalAnalysis, TLAPS, FiniteSetTheorems, WellFoundedInduction

-----------------------------------------------------------------------------
(* What a code base says of the contents `d' of the files.                 *)

Sources(d)    == {f \in Present(d) : ~ Patch(f)}
PatchFiles(d) == {f \in Present(d) : Patch(f)}

Declared(d, files) == UNION {DOMAIN d[f].decls : f \in files}

\* A function: it is determined by its domain and its values.
IsMap(m) == m = [x \in DOMAIN m |-> m[x]]

CodebaseShape(cb) ==
    /\ IsMap(cb)
    /\ DOMAIN cb = {"entries", "signatures", "inherits", "patches", "issues"}

\* `p' are the patches of d, each with the file it is in.
HasPatches(p, d) ==
    /\ IsMap(p) /\ DOMAIN p = Declared(d, PatchFiles(d))
    /\ \A f \in PatchFiles(d) : \A i \in DOMAIN d[f].decls :
          p[i] = [file |-> f, decl |-> d[f].decls[i]]

\* The refinement of the declaration of i in f: code of the user is not patched.
Refinement(p, f, i) == IF ~ Host(f) /\ i \in DOMAIN p THEN {p[i].decl.sig} ELSE {}

\* `e' are the declarations of d, each with its owner and its refinement.
HasEntries(e, p, d) ==
    /\ IsMap(e) /\ DOMAIN e = Declared(d, Sources(d))
    /\ \A f \in Sources(d) : \A i \in DOMAIN d[f].decls :
          e[i] = [file |-> f, decl |-> d[f].decls[i], patch |-> Refinement(p, f, i)]

HasSignatures(s, d) == s = [f \in Present(d) |-> d[f].decls]

Describes(cb, d) ==
    /\ HasPatches(cb.patches, d) /\ HasEntries(cb.entries, cb.patches, d)
    /\ HasSignatures(cb.signatures, d)

\* Evaluating a function does not change it.
LEMMA EvaluatedIsItself == \A f : Evaluated(f) = f
BY DEF Evaluated

-----------------------------------------------------------------------------
(* Induction over the natural numbers, stated for a set.                   *)

\* A set of natural numbers has a smallest one: the intervals below its elements are
\* finite sets, and the strict subsets of finite sets do not descend for ever.
LEMMA LeastNatural ==
    ASSUME NEW T, T \subseteq Nat, T # {}
    PROVE  \E n \in T : \A m \in T : n <= m
<1> DEFINE below == {0..n - 1 : n \in T}
<1>1. below # {} /\ below \subseteq FiniteSubsetsOf(Nat)
  <2>1. ASSUME NEW n \in T
        PROVE  0..n - 1 \in FiniteSubsetsOf(Nat)
    <3>1. IsFiniteSet(0..n - 1)
      BY FS_Interval
    <3>2. 0..n - 1 \in SUBSET Nat
      BY SMT
    <3> QED
      BY <3>1, <3>2 DEF FiniteSubsetsOf
  <2> QED
    BY <2>1
<1>2. \E B \in below : \A A \in below : ~ (<<A, B>> \in StrictSubsetOrdering(Nat))
  <2> HIDE DEF below
  <2> QED
    BY <1>1, FS_StrictSubsetOrderingWellFounded, WFMin
<1>3. PICK n \in T : \A m \in T : ~ (<<0..m - 1, 0..n - 1>> \in StrictSubsetOrdering(Nat))
  BY <1>2
<1>4. ASSUME NEW m \in T, m < n
      PROVE  FALSE
  <2>1. 0..m - 1 \in SUBSET Nat /\ 0..n - 1 \in SUBSET Nat
    BY SMT
  <2>2. 0..m - 1 \subseteq 0..n - 1
    BY <1>4
  <2>3. m \in 0..n - 1 /\ m \notin 0..m - 1
    BY <1>4
  <2> QED
    BY <2>1, <2>2, <2>3, <1>3 DEF StrictSubsetOrdering
<1> QED
  BY <1>4

\* A set with 0 and the successor of each of its elements has every natural number.
LEMMA Induction ==
    ASSUME NEW T, 0 \in T, \A n \in Nat : n \in T => n + 1 \in T
    PROVE  Nat \subseteq T
<1> SUFFICES ASSUME Nat \ T # {} PROVE FALSE
  OBVIOUS
<1>1. PICK n \in Nat \ T : \A m \in Nat \ T : n <= m
  BY LeastNatural
<1>2. n # 0 /\ n - 1 \in Nat /\ n - 1 \in T
  BY <1>1
<1> QED
  BY <1>1, <1>2

-----------------------------------------------------------------------------
(* What classes inherit: the least information that is closed under the    *)
(* step from the parents to the heir.                                      *)

ClassesOf(e) == {i \in DOMAIN e : e[i].decl.kind = "class"}

Parents(e, c) == ParentIds(e[c].decl)

MembersOf(e, p) == {i \in DOMAIN e : IsMember(i) /\ Owner(i) = p}

\* What an heir gets from its ancestor p itself.
Items(e, p) ==
    IF p \in DOMAIN e THEN {<<j, e[j]>> : j \in {p} \cup MembersOf(e, p)}
    ELSE {<<p, Absent>>}

\* What it gets from its parents when these have inherited h.
Inheritance(e, h, c) ==
    UNION {IF p \in DOMAIN e
           THEN {<<j, e[j]>> : j \in {p} \cup MembersOf(e, p)}
                  \cup UNION {h[q] : q \in {p} \cap DOMAIN h}
           ELSE {<<p, Absent>>}
           : p \in Parents(e, c)}

LEMMA InheritFromParts ==
    ASSUME NEW cb
    PROVE  /\ Classes(cb) = ClassesOf(cb.entries)
           /\ \A h, c : InheritFrom(cb, h, c) = Inheritance(cb.entries, h, c)
BY DEF Classes, ClassesOf, InheritFrom, Inheritance, Parents, Members, MembersOf

\* x comes to an heir by its parent p.
Passes(e, h, p, x) ==
    \/ x \in Items(e, p)
    \/ p \in DOMAIN e /\ p \in DOMAIN h /\ x \in h[p]

LEMMA InheritanceMembers ==
    ASSUME NEW e, NEW h, NEW c, NEW x
    PROVE  x \in Inheritance(e, h, c) <=> \E p \in Parents(e, c) : Passes(e, h, p, x)
<1> DEFINE via(p) == IF p \in DOMAIN e
                     THEN {<<j, e[j]>> : j \in {p} \cup MembersOf(e, p)}
                            \cup UNION {h[q] : q \in {p} \cap DOMAIN h}
                     ELSE {<<p, Absent>>}
<1>1. ASSUME NEW p
      PROVE  x \in via(p) <=> Passes(e, h, p, x)
  <2>1. x \in UNION {h[q] : q \in {p} \cap DOMAIN h} <=> p \in DOMAIN h /\ x \in h[p]
    OBVIOUS
  <2> QED
    BY <2>1 DEF Passes, Items
<1>2. Inheritance(e, h, c) = UNION {via(p) : p \in Parents(e, c)}
  BY DEF Inheritance
<1> HIDE DEF via
<1> QED
  BY <1>1, <1>2

\* h gives each class of e what it inherits.
IsInheritance(h, e) ==
    /\ IsMap(h) /\ DOMAIN h = ClassesOf(e)
    /\ \A c \in ClassesOf(e) : h[c] = Inheritance(e, h, c)

\* Of any set of classes one has no parent in it.
Acyclic(e) ==
    \A s \in SUBSET ClassesOf(e) :
        s # {} => \E c \in s : \A p \in Parents(e, c) : p \notin s

\* Two inheritances say the same of p.
SameAt(h, k, p) == (p \in DOMAIN h <=> p \in DOMAIN k) /\ (p \in DOMAIN h => h[p] = k[p])

\* Only what the parents have inherited matters.
LEMMA InheritanceOfParents ==
    ASSUME NEW e, NEW h, NEW k, NEW c, \A p \in Parents(e, c) : p \in DOMAIN e => SameAt(h, k, p)
    PROVE  Inheritance(e, h, c) = Inheritance(e, k, c)
<1>1. ASSUME NEW x, NEW p \in Parents(e, c)
      PROVE  Passes(e, h, p, x) <=> Passes(e, k, p, x)
  BY DEF Passes, SameAt
<1>2. \A x : x \in Inheritance(e, h, c) <=> x \in Inheritance(e, k, c)
  BY <1>1, InheritanceMembers
<1> QED
  BY <1>2

\* Without a circle, what the classes inherit is determined.
LEMMA InheritedOnce ==
    ASSUME NEW e, Acyclic(e), NEW h, IsInheritance(h, e), NEW k, IsInheritance(k, e)
    PROVE  h = k
<1> DEFINE s == {c \in ClassesOf(e) : h[c] # k[c]}
<1>1. s = {}
  <2> SUFFICES ASSUME s # {}
               PROVE  FALSE
    OBVIOUS
  <2>1. PICK c \in s : \A p \in Parents(e, c) : p \notin s
    BY DEF Acyclic
  <2>2. \A p \in Parents(e, c) : SameAt(h, k, p)
    BY <2>1 DEF SameAt, IsInheritance
  <2>3. Inheritance(e, h, c) = Inheritance(e, k, c)
    BY <2>2, InheritanceOfParents
  <2> QED
    BY <2>1, <2>3 DEF IsInheritance
<1> QED
  BY <1>1 DEF IsInheritance, IsMap

\* What the classes of e name as parents, and the sets of it that have, with a class, its
\* parents.
AllParents(e) == UNION {Parents(e, c) : c \in ClassesOf(e)}

Upward(e, s) == \A p \in s \cap ClassesOf(e) : Parents(e, p) \subseteq s

\* The ancestors of c: the smallest such set with the parents of c.
Ancestors(e, c) ==
    {x \in AllParents(e) :
        \A s \in SUBSET AllParents(e) : Upward(e, s) /\ Parents(e, c) \subseteq s => x \in s}

LEMMA AncestorsAreParents ==
    ASSUME NEW e, NEW c \in ClassesOf(e)
    PROVE  /\ Parents(e, c) \subseteq Ancestors(e, c)
           /\ \A p \in Ancestors(e, c) \cap ClassesOf(e) :
                 Ancestors(e, p) \subseteq Ancestors(e, c)
           /\ \A x \in Ancestors(e, c) :
                 \/ x \in Parents(e, c)
                 \/ \E p \in Parents(e, c) \cap ClassesOf(e) : x \in Ancestors(e, p)
<1>1. \A q \in ClassesOf(e) : /\ Parents(e, q) \subseteq Ancestors(e, q)
                              /\ Parents(e, q) \subseteq AllParents(e)
  BY DEF Ancestors, AllParents
<1>2. ASSUME NEW q \in ClassesOf(e)
      PROVE  Upward(e, Ancestors(e, q)) /\ Ancestors(e, q) \subseteq AllParents(e)
  <2>1. ASSUME NEW p \in Ancestors(e, q) \cap ClassesOf(e), NEW x \in Parents(e, p)
        PROVE  x \in Ancestors(e, q)
    <3>1. ASSUME NEW s \in SUBSET AllParents(e), Upward(e, s), Parents(e, q) \subseteq s
          PROVE  x \in s
      <4>1. p \in s
        BY <2>1, <3>1 DEF Ancestors
      <4> QED
        BY <2>1, <3>1, <4>1 DEF Upward
    <3>2. x \in AllParents(e)
      BY <1>1, <2>1
    <3> QED
      BY <3>1, <3>2 DEF Ancestors
  <2> QED
    BY <2>1 DEF Upward, Ancestors
<1>3. ASSUME NEW p \in Ancestors(e, c) \cap ClassesOf(e)
      PROVE  Ancestors(e, p) \subseteq Ancestors(e, c)
  <2>1. Parents(e, p) \subseteq Ancestors(e, c)
    BY <1>2, <1>3 DEF Upward
  <2>2. Ancestors(e, c) \in SUBSET AllParents(e) /\ Upward(e, Ancestors(e, c))
    BY <1>2
  <2> QED
    BY <2>1, <2>2 DEF Ancestors
<1>4. ASSUME NEW x \in Ancestors(e, c)
      PROVE  \/ x \in Parents(e, c)
             \/ \E p \in Parents(e, c) \cap ClassesOf(e) : x \in Ancestors(e, p)
  <2> DEFINE s == {y \in AllParents(e) :
                     \/ y \in Parents(e, c)
                     \/ \E p \in Parents(e, c) \cap ClassesOf(e) : y \in Ancestors(e, p)}
  <2>1. Parents(e, c) \subseteq s
    BY <1>1
  <2>2. ASSUME NEW q \in s \cap ClassesOf(e), NEW y \in Parents(e, q)
        PROVE  y \in s
    <3>1. y \in AllParents(e)
      BY <1>1
    <3>2. CASE q \in Parents(e, c)
      BY <1>1, <3>1, <3>2
    <3>3. CASE \E p \in Parents(e, c) \cap ClassesOf(e) : q \in Ancestors(e, p)
      <4>1. PICK p \in Parents(e, c) \cap ClassesOf(e) : q \in Ancestors(e, p)
        BY <3>3
      <4>2. y \in Ancestors(e, p)
        BY <1>2, <4>1 DEF Upward
      <4> QED
        BY <3>1, <4>1, <4>2
    <3> QED
      BY <3>2, <3>3
  <2>3. Upward(e, s) /\ s \in SUBSET AllParents(e)
    BY <2>2 DEF Upward
  <2> HIDE DEF s
  <2>4. x \in s
    BY <2>1, <2>3 DEF Ancestors
  <2> QED
    BY <2>4 DEF s
<1> QED
  BY <1>1, <1>3, <1>4

\* An inheritance: each class gets the items of all its ancestors.
FromAncestors(e) == [c \in ClassesOf(e) |-> UNION {Items(e, p) : p \in Ancestors(e, c)}]

LEMMA InheritanceExists ==
    ASSUME NEW e
    PROVE  IsInheritance(FromAncestors(e), e)
<1> DEFINE h == FromAncestors(e)
<1>1. IsMap(h) /\ DOMAIN h = ClassesOf(e)
  BY DEF IsMap, FromAncestors
<1>2. \A c \in ClassesOf(e) : \A x : x \in h[c] <=> \E q \in Ancestors(e, c) : x \in Items(e, q)
  BY DEF FromAncestors
<1> HIDE DEF h
<1>3. ASSUME NEW c \in ClassesOf(e), NEW x
      PROVE  x \in h[c] <=> \E p \in Parents(e, c) : Passes(e, h, p, x)
  <2>1. ASSUME NEW q \in Ancestors(e, c), x \in Items(e, q)
        PROVE  \E p \in Parents(e, c) : Passes(e, h, p, x)
    <3>1. CASE q \in Parents(e, c)
      BY <2>1, <3>1 DEF Passes
    <3>2. CASE \E p \in Parents(e, c) \cap ClassesOf(e) : q \in Ancestors(e, p)
      <4>1. PICK p \in Parents(e, c) \cap ClassesOf(e) : q \in Ancestors(e, p)
        BY <3>2
      <4>2. x \in h[p] /\ p \in DOMAIN e
        BY <1>2, <2>1, <4>1 DEF ClassesOf
      <4> QED
        BY <1>1, <4>1, <4>2 DEF Passes
    <3> QED
      BY <3>1, <3>2, AncestorsAreParents
  <2>2. ASSUME NEW p \in Parents(e, c), Passes(e, h, p, x)
        PROVE  \E q \in Ancestors(e, c) : x \in Items(e, q)
    <3>1. p \in Ancestors(e, c)
      BY AncestorsAreParents
    <3>2. CASE x \in Items(e, p)
      BY <3>1, <3>2
    <3>3. CASE p \in DOMAIN h /\ x \in h[p]
      <4>1. p \in ClassesOf(e) /\ \E q \in Ancestors(e, p) : x \in Items(e, q)
        BY <1>1, <1>2, <3>3
      <4>2. Ancestors(e, p) \subseteq Ancestors(e, c)
        BY <3>1, <4>1, AncestorsAreParents
      <4> QED
        BY <4>1, <4>2
    <3> QED
      BY <2>2, <3>2, <3>3 DEF Passes
  <2> QED
    BY <1>2, <2>1, <2>2
<1>4. ASSUME NEW c \in ClassesOf(e)
      PROVE  h[c] = Inheritance(e, h, c)
  <2>1. \A x : x \in h[c] <=> x \in Inheritance(e, h, c)
    BY <1>3, InheritanceMembers
  <2>2. \E s : h[c] = s /\ s = UNION {Items(e, p) : p \in Ancestors(e, c)}
    BY DEF h, FromAncestors
  <2> QED
    BY <2>1, <2>2
<1> QED
  BY <1>1, <1>4 DEF h, IsInheritance

-----------------------------------------------------------------------------
(* The passes of the population.                                           *)

\* One pass over `classes', after which the others are as `done' has them.
PassAfter(cb, classes, done) == Overlay([c \in classes |-> InheritFrom(cb, done, c)], done)

ArePasses(f, n, cb, classes, base) ==
    /\ f = [k \in 0..n |-> f[k]] /\ f[0] = base
    /\ \A k \in 1..n : f[k] = PassAfter(cb, classes, f[k - 1])

LEMMA PassesExist ==
    ASSUME NEW n \in Nat, NEW cb, NEW classes, NEW base
    PROVE  \E f : ArePasses(f, n, cb, classes, base)
<1> DEFINE T == {d \in Nat : \E f : ArePasses(f, d, cb, classes, base)}
<1>1. 0 \in T
  <2>1. ArePasses([k \in 0..0 |-> base], 0, cb, classes, base)
    BY DEF ArePasses
  <2> QED
    BY <2>1
<1>2. ASSUME NEW d \in Nat, d \in T
      PROVE  d + 1 \in T
  <2>1. PICK f : ArePasses(f, d, cb, classes, base)
    BY <1>2
  <2> DEFINE last == PassAfter(cb, classes, f[d])
             g == [k \in 0..d + 1 |-> IF k <= d THEN f[k] ELSE last]
  <2>2. g = [k \in 0..d + 1 |-> g[k]] /\ g[0] = base
    BY <2>1 DEF ArePasses
  <2>3. ASSUME NEW k \in 1..d + 1
        PROVE  g[k] = PassAfter(cb, classes, g[k - 1])
    <3>1. k - 1 \in 0..d /\ k - 1 <= d /\ k \in 0..d + 1 /\ k - 1 \in 0..d + 1
      OBVIOUS
    <3>2. g[k - 1] = f[k - 1]
      BY <3>1
    <3> HIDE DEF last
    <3>3. CASE k <= d
      <4>1. g[k] = f[k] /\ k \in 1..d
        BY <3>1, <3>3
      <4>2. f[k] = PassAfter(cb, classes, f[k - 1])
        BY <2>1, <4>1 DEF ArePasses
      <4> HIDE DEF g
      <4> QED
        BY <3>2, <4>1, <4>2
    <3>4. CASE ~ (k <= d)
      <4>1. g[k] = last /\ k - 1 = d
        BY <3>1, <3>4
      <4> HIDE DEF g
      <4> QED
        BY <3>2, <4>1 DEF last
    <3> QED
      BY <3>3, <3>4
  <2> HIDE DEF g
  <2>4. ArePasses(g, d + 1, cb, classes, base)
    BY <2>2, <2>3 DEF ArePasses
  <2> QED
    BY <2>4
<1> HIDE DEF T
<1>3. n \in T
  BY <1>1, <1>2, Induction
<1> QED
  BY <1>3 DEF T

\* The classes that are populated again, and what the others keep.
Repopulated(cb, todo) == Classes(cb) \cap todo

Retained(cb, todo) ==
    [c \in DOMAIN cb.inherits \ Repopulated(cb, todo) |-> cb.inherits[c]]

LEMMA PopulatePasses ==
    ASSUME NEW cb, CodebaseShape(cb), NEW todo, IsFiniteSet(Repopulated(cb, todo)),
           NEW n, n = Cardinality(Repopulated(cb, todo))
    PROVE  \E f : /\ ArePasses(f, n, cb, Repopulated(cb, todo), Retained(cb, todo))
                  /\ Populate(cb, todo).inherits = f[n]
<1> DEFINE classes == Repopulated(cb, todo)
           base == Retained(cb, todo)
           Eq(g) == g = [k \in 0..n |->
                           IF k = 0 THEN base
                           ELSE Evaluated(
                                  Overlay([c \in classes |-> InheritFrom(cb, g[k - 1], c)],
                                          g[k - 1]))]
<1>1. n \in Nat
  BY FS_CardinalityType
<1>2. PICK f : ArePasses(f, n, cb, classes, base)
  BY <1>1, PassesExist
<1>3. Eq(f)
  <2>1. \A k \in 0..n : f[k] = IF k = 0 THEN base ELSE PassAfter(cb, classes, f[k - 1])
    BY <1>1, <1>2 DEF ArePasses
  <2> QED
    BY <1>2, <2>1, EvaluatedIsItself DEF ArePasses, PassAfter
<1> DEFINE pass == CHOOSE g : Eq(g)
<1>4. Eq(pass)
  BY <1>3
<1>5. Populate(cb, todo).inherits = pass[n]
  BY DEF Populate, CodebaseShape, Repopulated, Retained, Restrict
<1> HIDE DEF pass
<1>6. ArePasses(pass, n, cb, classes, base)
  <2>1. \A k \in 0..n : pass[k] = IF k = 0 THEN base ELSE PassAfter(cb, classes, pass[k - 1])
    BY <1>4, EvaluatedIsItself DEF PassAfter
  <2>2. pass = [k \in 0..n |-> pass[k]]
    BY <1>4
  <2>3. pass[0] = base
    BY <1>1, <2>1
  <2>4. \A k \in 1..n : pass[k] = PassAfter(cb, classes, pass[k - 1])
    BY <1>1, <2>1
  <2> HIDE DEF classes, base
  <2> QED
    BY <2>2, <2>3, <2>4 DEF ArePasses
<1> QED
  BY <1>5, <1>6

\* `done' is right about the classes of `right', which has with a class its parents, and
\* about those that are not populated again.
RightUpTo(done, h, e, classes, right) ==
    /\ IsMap(done) /\ DOMAIN done \subseteq ClassesOf(e)
    /\ \A c \in (ClassesOf(e) \ classes) \cup right : c \in DOMAIN done /\ done[c] = h[c]
    /\ right \subseteq classes
    /\ \A c \in right : Parents(e, c) \cap classes \subseteq right

\* A class whose parents are right comes out right.
LEMMA PassIsRight ==
    ASSUME NEW cb, NEW e, e = cb.entries, NEW h, IsInheritance(h, e), NEW done,
           NEW classes \in SUBSET ClassesOf(e), NEW right, NEW more, right \subseteq more,
           RightUpTo(done, h, e, classes, right), more \subseteq classes,
           \A c \in more : Parents(e, c) \cap classes \subseteq right
    PROVE  RightUpTo(PassAfter(cb, classes, done), h, e, classes, more)
<1> DEFINE next == PassAfter(cb, classes, done)
<1>1. /\ IsMap(next) /\ DOMAIN next = classes \cup DOMAIN done
      /\ \A c \in classes : next[c] = Inheritance(e, done, c)
      /\ \A c \in DOMAIN done \ classes : next[c] = done[c]
  <2>1. next = Overlay([c \in classes |-> Inheritance(e, done, c)], done)
    BY InheritFromParts DEF PassAfter
  <2> HIDE DEF next
  <2> QED
    BY <2>1 DEF Overlay, IsMap
<1> HIDE DEF next
<1>2. ASSUME NEW c \in more
      PROVE  next[c] = h[c]
  <2>1. ASSUME NEW p \in Parents(e, c)
        PROVE  SameAt(done, h, p)
    <3>1. CASE p \in classes
      <4>1. p \in right
        BY <1>2, <2>1, <3>1
      <4> QED
        BY <3>1, <4>1 DEF RightUpTo, SameAt, IsInheritance
    <3>2. CASE p \notin classes
      BY <3>2 DEF RightUpTo, SameAt, IsInheritance
    <3> QED
      BY <3>1, <3>2
  <2>2. Inheritance(e, done, c) = Inheritance(e, h, c)
    BY <2>1, InheritanceOfParents
  <2>3. c \in classes /\ c \in ClassesOf(e)
    OBVIOUS
  <2> QED
    BY <1>1, <2>2, <2>3 DEF IsInheritance
<1>3. \A c \in ClassesOf(e) \ classes : c \in DOMAIN next /\ next[c] = h[c]
  BY <1>1 DEF RightUpTo
<1>4. DOMAIN next \subseteq ClassesOf(e) /\ \A c \in more : c \in DOMAIN next
  BY <1>1 DEF RightUpTo
<1>5. \A c \in more : Parents(e, c) \cap classes \subseteq more
  OBVIOUS
<1> QED
  BY <1>1, <1>2, <1>3, <1>4, <1>5 DEF RightUpTo, next

\* Each pass brings one class more to its inheritance, until all have it.
LEMMA PopulateInherits ==
    ASSUME NEW cb, CodebaseShape(cb), NEW todo, NEW e, e = cb.entries,
           NEW h, IsInheritance(h, e), Acyclic(e), IsFiniteSet(ClassesOf(e)),
           DOMAIN cb.inherits \subseteq ClassesOf(e),
           \A c \in ClassesOf(e) \ todo : c \in DOMAIN cb.inherits /\ cb.inherits[c] = h[c]
    PROVE  Populate(cb, todo).inherits = h
<1> DEFINE classes == Repopulated(cb, todo)
           n == Cardinality(classes)
           base == Retained(cb, todo)
<1>1. classes = ClassesOf(e) \cap todo /\ classes \in SUBSET ClassesOf(e)
  BY InheritFromParts DEF Repopulated
<1>2. IsFiniteSet(classes) /\ n \in Nat
  BY <1>1, FS_Subset, FS_CardinalityType
<1>3. PICK f : ArePasses(f, n, cb, classes, base) /\ Populate(cb, todo).inherits = f[n]
  BY <1>2, PopulatePasses
<1>4. RightUpTo(base, h, e, classes, {})
  <2>1. IsMap(base) /\ DOMAIN base = DOMAIN cb.inherits \ classes
        /\ \A c \in DOMAIN base : base[c] = cb.inherits[c]
    BY DEF Retained, IsMap
  <2> HIDE DEF base, classes
  <2> QED
    BY <1>1, <2>1 DEF RightUpTo
<1> HIDE DEF classes, n, base
<1> DEFINE Right(k) == \E right : RightUpTo(f[k], h, e, classes, right) /\ IsFiniteSet(right)
                                  /\ Cardinality(right) >= k
           T == {k \in Nat : k <= n => Right(k)}
<1>5. 0 \in T
  <2>1. f[0] = base
    BY <1>3 DEF ArePasses
  <2>2. IsFiniteSet({}) /\ Cardinality({}) >= 0
    BY FS_EmptySet
  <2>3. Right(0)
    BY <1>4, <2>1, <2>2
  <2> HIDE DEF Right
  <2> QED
    BY <2>3
<1>6. ASSUME NEW k \in Nat, k \in T
      PROVE  k + 1 \in T
  <2> SUFFICES ASSUME k + 1 <= n
               PROVE  Right(k + 1)
    OBVIOUS
  <2>1. Right(k)
    BY <1>2, <1>6
  <2>2. PICK right : RightUpTo(f[k], h, e, classes, right) /\ IsFiniteSet(right)
                     /\ Cardinality(right) >= k
    BY <2>1
  <2>3. right \subseteq classes /\ \A c \in right : Parents(e, c) \cap classes \subseteq right
    BY <2>2 DEF RightUpTo
  <2>4. k + 1 \in 1..n /\ (k + 1) - 1 = k
    BY <1>2
  <2>5. f[k + 1] = PassAfter(cb, classes, f[k])
    <3>1. f[k + 1] = PassAfter(cb, classes, f[(k + 1) - 1])
      BY <1>3, <2>4 DEF ArePasses
    <3> QED
      BY <2>4, <3>1
  <2>6. CASE right = classes
    <3>1. RightUpTo(f[k + 1], h, e, classes, right)
      BY <1>1, <2>2, <2>3, <2>5, PassIsRight
    <3>2. Cardinality(right) >= k + 1
      BY <2>6 DEF n
    <3> QED
      BY <2>2, <3>1, <3>2
  <2>7. CASE right # classes
    <3>1. classes \ right \in SUBSET ClassesOf(e) /\ classes \ right # {}
      BY <1>1, <2>3, <2>7
    <3>2. PICK c \in classes \ right : \A p \in Parents(e, c) : p \notin classes \ right
      BY <3>1 DEF Acyclic
    <3> DEFINE more == right \cup {c}
    <3>3. \A x \in more : Parents(e, x) \cap classes \subseteq right
      BY <2>3, <3>2
    <3>4. right \subseteq more /\ more \subseteq classes
      BY <2>3, <3>2
    <3>5. IsFiniteSet(more) /\ Cardinality(more) = Cardinality(right) + 1
      BY <2>2, <3>2, FS_AddElement
    <3>6. Cardinality(right) \in Nat
      BY <2>2, FS_CardinalityType
    <3> HIDE DEF more
    <3>7. RightUpTo(f[k + 1], h, e, classes, more)
      <4>1. RightUpTo(f[k], h, e, classes, right)
        BY <2>2
      <4>2. RightUpTo(PassAfter(cb, classes, f[k]), h, e, classes, more)
        BY <1>1, <3>3, <3>4, <4>1, PassIsRight
      <4> QED
        BY <2>5, <4>2
    <3>8. Cardinality(more) >= k + 1
      BY <2>2, <3>5, <3>6
    <3> QED
      BY <3>5, <3>7, <3>8
  <2> QED
    BY <2>6, <2>7
<1> HIDE DEF T
<1>7. n \in T
  BY <1>2, <1>5, <1>6, Induction
<1>8. PICK right : RightUpTo(f[n], h, e, classes, right) /\ IsFiniteSet(right)
                   /\ Cardinality(right) >= n
  BY <1>2, <1>7 DEF T
<1>9. right = classes
  <2>1. right \in SUBSET classes
    BY <1>8 DEF RightUpTo
  <2>2. Cardinality(right) <= Cardinality(classes)
        /\ (Cardinality(classes) = Cardinality(right) => classes = right)
    BY <1>2, <2>1, FS_Subset
  <2>3. Cardinality(right) \in Nat
    BY <1>8, FS_CardinalityType
  <2> QED
    BY <1>2, <1>8, <2>2, <2>3 DEF n
<1>10. f[n] = h
  <2>1. \A c \in ClassesOf(e) : c \in DOMAIN f[n] /\ f[n][c] = h[c]
    BY <1>8, <1>9 DEF RightUpTo
  <2>2. IsMap(f[n]) /\ DOMAIN f[n] = ClassesOf(e)
    BY <1>8, <2>1 DEF RightUpTo
  <2> QED
    BY <2>1, <2>2 DEF IsInheritance, IsMap
<1> QED
  BY <1>3, <1>10

-----------------------------------------------------------------------------
(* The cascade over the reference graph.                                   *)

\* The values of a function on a finite set are finitely many.
LEMMA FiniteImage ==
    ASSUME NEW S, IsFiniteSet(S), NEW f
    PROVE  IsFiniteSet({f[x] : x \in S})
<1> DEFINE T == {f[x] : x \in S}
           m == [x \in S |-> f[x]]
<1>1. m \in Surjection(S, T)
  BY DEF Surjection
<1> HIDE DEF m
<1> QED
  BY <1>1, FS_Surjection

\* `step' adds to a set of items of U, and no less to a larger one.
Expands(step, U) ==
    \A s \in SUBSET U : /\ step[s] \in SUBSET U /\ s \subseteq step[s]
                        /\ \A c \in SUBSET U : s \subseteq c => step[s] \subseteq step[c]

\* `g' repeats it until nothing is added.
Iterates(g, step, U) == g = [s \in SUBSET U |-> IF step[s] = s THEN s ELSE g[step[s]]]

\* The smallest closed set of U with s.
ClosureIn(step, U, s) ==
    {x \in U : \A c \in SUBSET U : s \subseteq c /\ step[c] = c => x \in c}

\* There is such a function, and so CHOOSE finds one: the one to the smallest closed set.
LEMMA IterationExists ==
    ASSUME NEW step, NEW U, Expands(step, U)
    PROVE  \E g : Iterates(g, step, U)
<1> DEFINE g == [s \in SUBSET U |-> ClosureIn(step, U, s)]
<1>1. ASSUME NEW s \in SUBSET U, step[s] = s
      PROVE  ClosureIn(step, U, s) = s
  BY <1>1 DEF ClosureIn
<1>2. ASSUME NEW s \in SUBSET U
      PROVE  ClosureIn(step, U, s) = ClosureIn(step, U, step[s])
  <2>1. ASSUME NEW c \in SUBSET U
        PROVE  s \subseteq c /\ step[c] = c <=> step[s] \subseteq c /\ step[c] = c
    BY DEF Expands
  <2> QED
    BY <2>1 DEF ClosureIn
<1>3. \A s \in SUBSET U : g[s] = IF step[s] = s THEN s ELSE g[step[s]]
  BY <1>1, <1>2 DEF Expands
<1>4. g = [s \in SUBSET U |-> g[s]]
  OBVIOUS
<1> HIDE DEF g
<1>5. Iterates(g, step, U)
  BY <1>3, <1>4 DEF Iterates
<1> QED
  BY <1>5

\* The result for `start', which is the closure of it.
ClosesIn(result, step, U, start) ==
    /\ start \subseteq result /\ result \in SUBSET U /\ step[result] = result
    /\ \A c \in SUBSET U : start \subseteq c /\ step[c] = c => result \subseteq c

\* On a finite U it ends, and with the smallest closed set.
LEMMA IterationCloses ==
    ASSUME NEW step, NEW U, IsFiniteSet(U), Expands(step, U), NEW g, Iterates(g, step, U),
           NEW start \in SUBSET U
    PROVE  ClosesIn(g[start], step, U, start)
<1> DEFINE Ends(s) == ClosesIn(g[s], step, U, s)
           T == {k \in Nat : \A s \in SUBSET U : Cardinality(U \ s) <= k => Ends(s)}
<1>1. \A s \in SUBSET U : g[s] = IF step[s] = s THEN s ELSE g[step[s]]
  BY DEF Iterates
<1>2. ASSUME NEW s \in SUBSET U, step[s] = s
      PROVE  Ends(s)
  BY <1>1, <1>2 DEF ClosesIn
<1>3. \A s \in SUBSET U : IsFiniteSet(U \ s) /\ Cardinality(U \ s) \in Nat
  BY FS_Subset, FS_CardinalityType
<1>4. 0 \in T
  <2>1. ASSUME NEW s \in SUBSET U, Cardinality(U \ s) <= 0
        PROVE  Ends(s)
    <3>1. Cardinality(U \ s) = 0
      BY <1>3, <2>1
    <3>2. U \ s = {}
      BY <1>3, <3>1, FS_EmptySet
    <3>3. step[s] = s
      BY <3>2 DEF Expands
    <3> HIDE DEF Ends
    <3> QED
      BY <1>2, <3>3
  <2> HIDE DEF Ends
  <2> QED
    BY <2>1
<1>5. ASSUME NEW k \in Nat, k \in T
      PROVE  k + 1 \in T
  <2>1. ASSUME NEW s \in SUBSET U, Cardinality(U \ s) <= k + 1, step[s] # s
        PROVE  Ends(s)
    <3>1. PICK t \in SUBSET U : t = step[s]
      BY DEF Expands
    <3>2. s \subseteq t /\ g[s] = g[t]
      BY <1>1, <2>1, <3>1 DEF Expands
    <3>3. U \ t \in SUBSET (U \ s) /\ U \ t # U \ s
      BY <2>1, <3>1, <3>2
    <3>4. Cardinality(U \ t) <= Cardinality(U \ s)
          /\ (Cardinality(U \ s) = Cardinality(U \ t) => U \ s = U \ t)
      BY <1>3, <3>3, FS_Subset
    <3>5. Cardinality(U \ t) <= k
      BY <1>3, <2>1, <3>1, <3>2, <3>3, <3>4
    <3>6. ClosesIn(g[t], step, U, t)
      <4>1. Ends(t)
        <5> HIDE DEF Ends
        <5> QED
          BY <1>5, <3>5
      <4> QED
        BY <4>1
    <3>7. \A c \in SUBSET U : s \subseteq c /\ step[c] = c => t \subseteq c
      BY <3>1 DEF Expands
    <3> QED
      BY <3>2, <3>6, <3>7 DEF ClosesIn
  <2> HIDE DEF Ends
  <2>2. \A s \in SUBSET U : Cardinality(U \ s) <= k + 1 => Ends(s)
    BY <1>2, <2>1
  <2> QED
    BY <2>2
<1> HIDE DEF T
<1>6. Cardinality(U \ start) \in T
  BY <1>3, <1>4, <1>5, Induction
<1>7. Cardinality(U \ start) <= Cardinality(U \ start)
  BY <1>3
<1> HIDE DEF Ends
<1>8. Ends(start)
  BY <1>6, <1>7 DEF T
<1> QED
  BY <1>8 DEF Ends

\* The owners of s and what names a member of s in its signature.
Grown(sig, s) == s \cup {Owner(i) : i \in s} \cup Origins(sig, s)

\* What is invalid takes its owner and its users with it.
ClosedUnder(sig, s) ==
    /\ \A i \in s : Owner(i) \in s
    /\ \A x \in sig : x[2] \in s => x[1] \in s

LEMMA GrownIsClosed ==
    ASSUME NEW sig, NEW s
    PROVE  Grown(sig, s) = s <=> ClosedUnder(sig, s)
BY DEF Grown, ClosedUnder, Origins

\* All items that a cascade can come to.
Universe(sig, changed) ==
    LET sources == changed \cup {e[1] : e \in sig}
    IN  sources \cup {Owner(i) : i \in sources}

LEMMA UniverseProperties ==
    ASSUME NEW sig, NEW changed
    PROVE  /\ changed \subseteq Universe(sig, changed)
           /\ \A s \in SUBSET Universe(sig, changed) :
                 Grown(sig, s) \in SUBSET Universe(sig, changed)
<1> DEFINE sources == changed \cup {e[1] : e \in sig}
<1>1. Universe(sig, changed) = sources \cup {Owner(i) : i \in sources}
  BY DEF Universe
<1>2. \A i \in Universe(sig, changed) : Owner(i) \in Universe(sig, changed)
  <2>1. \A i : Owner(Owner(i)) = Owner(i)
    BY DEF Owner, Symbol
  <2> QED
    BY <1>1, <2>1
<1>3. \A s : Origins(sig, s) \subseteq sources
  BY DEF Origins
<1> HIDE DEF sources
<1> QED
  BY <1>1, <1>2, <1>3 DEF Grown, sources

LEMMA UniverseFinite ==
    ASSUME NEW sig, NEW changed, IsFiniteSet(changed), IsFiniteSet({e[1] : e \in sig})
    PROVE  IsFiniteSet(Universe(sig, changed))
<1> DEFINE sources == changed \cup {e[1] : e \in sig}
           owner == [i \in sources |-> Owner(i)]
<1>1. IsFiniteSet(sources)
  BY FS_Union
<1>2. {owner[i] : i \in sources} = {Owner(i) : i \in sources}
  OBVIOUS
<1>3. Universe(sig, changed) = sources \cup {Owner(i) : i \in sources}
  BY DEF Universe
<1> HIDE DEF owner, sources
<1>4. IsFiniteSet({owner[i] : i \in sources})
  BY <1>1, FiniteImage
<1>5. IsFiniteSet({Owner(i) : i \in sources})
  BY <1>2, <1>4
<1>6. IsFiniteSet(sources \cup {Owner(i) : i \in sources})
  BY <1>1, <1>5, FS_Union
<1> QED
  BY <1>3, <1>6

\* The cascade contains what has changed, the owner of each of its items and every item
\* whose signature names one of them.
LEMMA CascadeCloses ==
    ASSUME NEW sig, NEW changed, IsFiniteSet(changed), IsFiniteSet({e[1] : e \in sig})
    PROVE  changed \subseteq Cascade(sig, changed) /\ ClosedUnder(sig, Cascade(sig, changed))
<1> DEFINE U == Universe(sig, changed)
           step == [s \in SUBSET U |-> Grown(sig, s)]
           Eq(g) == g = [s \in SUBSET U |->
                           LET t == s \cup {Owner(i) : i \in s} \cup Origins(sig, s)
                           IN  IF t = s THEN s ELSE g[t]]
           grow == CHOOSE g : Eq(g)
<1>1. IsFiniteSet(U) /\ changed \in SUBSET U /\ \A s \in SUBSET U : Grown(sig, s) \in SUBSET U
  BY UniverseFinite, UniverseProperties
<1>2. \A g : Eq(g) <=> Iterates(g, step, U)
  BY DEF Iterates, Grown
<1>3. Cascade(sig, changed) = grow[changed]
  BY DEF Cascade, Universe
<1> HIDE DEF U
<1>4. Expands(step, U)
  BY <1>1 DEF Expands, Grown, Origins
<1>5. \A s \in SUBSET U : step[s] = Grown(sig, s)
  OBVIOUS
<1> HIDE DEF step
<1>6. Iterates(grow, step, U)
  <2>1. Eq(grow)
    BY <1>2, <1>4, IterationExists
  <2> HIDE DEF grow
  <2> QED
    BY <1>2, <2>1
<1> HIDE DEF grow
<1>7. ClosesIn(grow[changed], step, U, changed)
  BY <1>1, <1>4, <1>6, IterationCloses
<1>8. changed \subseteq grow[changed] /\ Grown(sig, grow[changed]) = grow[changed]
  BY <1>5, <1>7 DEF ClosesIn
<1> QED
  BY <1>3, <1>8, GrownIsClosed

\* Without a conflict a declaration has one file, and so has a patch.
LEMMA OneDeclarer ==
    ASSUME NEW d, ~ Conflict(d), NEW f \in Present(d), NEW g \in Present(d),
           Patch(f) <=> Patch(g), NEW i \in DOMAIN d[f].decls, i \in DOMAIN d[g].decls
    PROVE  f = g
BY DEF Conflict

\* Two code bases that describe one workspace agree.
LEMMA DescribedOnce ==
    ASSUME NEW cb, NEW other, NEW d, Describes(cb, d), Describes(other, d)
    PROVE  /\ cb.entries = other.entries /\ cb.patches = other.patches
           /\ cb.signatures = other.signatures
<1>1. cb.patches = other.patches
  <2> DEFINE p == cb.patches
             q == other.patches
  <2>1. IsMap(p) /\ IsMap(q) /\ DOMAIN p = DOMAIN q /\ DOMAIN p = Declared(d, PatchFiles(d))
    BY DEF Describes, HasPatches
  <2>2. ASSUME NEW i \in DOMAIN p
        PROVE  p[i] = q[i]
    <3>1. PICK f \in PatchFiles(d) : i \in DOMAIN d[f].decls
      BY <2>1 DEF Declared
    <3> QED
      BY <3>1 DEF Describes, HasPatches
  <2> HIDE DEF p, q
  <2>3. p = q
    BY <2>1, <2>2 DEF IsMap
  <2> QED
    BY <2>3 DEF p, q
<1>2. cb.entries = other.entries
  <2> DEFINE p == cb.entries
             q == other.entries
  <2>1. IsMap(p) /\ IsMap(q) /\ DOMAIN p = DOMAIN q /\ DOMAIN p = Declared(d, Sources(d))
    BY DEF Describes, HasEntries
  <2>2. ASSUME NEW i \in DOMAIN p
        PROVE  p[i] = q[i]
    <3>1. PICK f \in Sources(d) : i \in DOMAIN d[f].decls
      BY <2>1 DEF Declared
    <3>2. Refinement(cb.patches, f, i) = Refinement(other.patches, f, i)
      BY <1>1
    <3> QED
      BY <3>1, <3>2 DEF Describes, HasEntries
  <2> HIDE DEF p, q
  <2>3. p = q
    BY <2>1, <2>2 DEF IsMap
  <2> QED
    BY <2>3 DEF p, q
<1> QED
  BY <1>1, <1>2 DEF Describes, HasSignatures

-----------------------------------------------------------------------------
(* The operations on a code base, part by part.                            *)

\* remove_entries_by_keys
LEMMA RemoveEntriesParts ==
    ASSUME NEW cb, CodebaseShape(cb), NEW files, NEW keys, NEW m,
           m = RemoveEntries(cb, files, keys)
    PROVE  /\ CodebaseShape(m) /\ m.issues = cb.issues
           /\ DOMAIN m.entries = DOMAIN cb.entries \ keys
           /\ \A i \in DOMAIN m.entries : m.entries[i] = cb.entries[i]
           /\ DOMAIN m.inherits = DOMAIN cb.inherits \ keys
           /\ \A c \in DOMAIN m.inherits : m.inherits[c] = cb.inherits[c]
           /\ m.signatures = [f \in DOMAIN cb.signatures \ files |-> cb.signatures[f]]
           /\ DOMAIN m.patches = {i \in DOMAIN cb.patches : cb.patches[i].file \notin files}
           /\ IsMap(m.patches)
           /\ \A i \in DOMAIN m.patches : m.patches[i] = cb.patches[i]
BY DEF CodebaseShape, RemoveEntries, Restrict, IsMap

\* Who claims the declaration of i: the scanned files, and the owner there is.
ClaimsOf(cb, sources, d, i) ==
    {Entry(f, d[f].decls[i]) : f \in {g \in sources : i \in DOMAIN d[g].decls}}
      \cup {cb.entries[j] : j \in {i} \cap DOMAIN cb.entries}

Best(claims) == CHOOSE e \in claims : \A o \in claims : Precedes(e, o)

\* A single claim wins.
LEMMA BestOfOne ==
    \A e : Best({e}) = e
<1> SUFFICES ASSUME NEW e
             PROVE  Best({e}) = e
  OBVIOUS
<1>1. Precedes(e, e)
  BY DEF Precedes
<1>2. \E x \in {e} : \A o \in {e} : Precedes(x, o)
  BY <1>1
<1>3. Best({e}) \in {e}
  BY <1>2 DEF Best
<1> QED
  BY <1>3

Scans(files)      == {f \in files : ~ Patch(f)}
PatchScans(files) == {f \in files : Patch(f)}

NewPatches(files, d) ==
    [i \in Declared(d, PatchScans(files)) |->
        LET f == CHOOSE g \in PatchScans(files) : i \in DOMAIN d[g].decls
        IN  [file |-> f, decl |-> d[f].decls[i]]]

Winners(cb, files, d) ==
    [i \in Declared(d, Scans(files)) \cup DOMAIN cb.entries |->
        Best(ClaimsOf(cb, Scans(files), d, i))]

ScanSignatures(files, d) == [f \in files |-> d[f].decls]

\* extend
LEMMA ExtendParts ==
    ASSUME NEW cb, CodebaseShape(cb), NEW files, NEW d, NEW m, m = Extend(cb, files, d)
    PROVE  /\ CodebaseShape(m) /\ m.entries = Winners(cb, files, d)
           /\ m.signatures = Overlay(ScanSignatures(files, d), cb.signatures)
           /\ m.patches = Overlay(cb.patches, NewPatches(files, d))
           /\ m.inherits = cb.inherits
<1> DEFINE x == Extend(cb, files, d)
<1>1. CodebaseShape(x) /\ x.inherits = cb.inherits
  <2>1. IsMap(x)
    BY DEF IsMap, Extend
  <2>2. DOMAIN x = DOMAIN cb /\ x.inherits = cb.inherits
    BY DEF CodebaseShape, Extend
  <2> QED
    BY <2>1, <2>2 DEF CodebaseShape
<1>2. x.entries = Winners(cb, files, d)
  <2> DEFINE patches == {f \in files : Patch(f)}
  <2>1. x.entries = [i \in Declared(d, files \ patches) \cup DOMAIN cb.entries |->
                       Best(ClaimsOf(cb, files \ patches, d, i))]
    BY EvaluatedIsItself DEF CodebaseShape, Extend, Best, ClaimsOf, Declared
  <2>2. files \ patches = Scans(files)
    BY DEF Scans
  <2> HIDE DEF patches, x
  <2> QED
    BY <2>1, <2>2 DEF Winners
<1>3. x.signatures = Overlay(ScanSignatures(files, d), cb.signatures)
  BY DEF CodebaseShape, Extend, ScanSignatures
<1>4. x.patches = Overlay(cb.patches, NewPatches(files, d))
  BY DEF CodebaseShape, Extend, Declared, NewPatches, PatchScans
<1>5. m = x
  OBVIOUS
<1> HIDE DEF x
<1> QED
  BY <1>1, <1>2, <1>3, <1>4, <1>5

\* apply_patches_pass, part by part.
Applies(m, cb) ==
    /\ CodebaseShape(m)
    /\ m.signatures = cb.signatures /\ m.patches = cb.patches /\ m.inherits = cb.inherits
    /\ DOMAIN m.entries = DOMAIN cb.entries /\ IsMap(m.entries)
    /\ \A i \in DOMAIN cb.entries :
          m.entries[i] =
             IF i \in DOMAIN cb.patches /\ ~ Host(cb.entries[i].file)
             THEN [cb.entries[i] EXCEPT !.patch = {cb.patches[i].decl.sig}]
             ELSE cb.entries[i]

\* The members that an earlier pass brought in, and those that this one does.
ResetMembers(cb) ==
    {i \in DOMAIN cb.patches \cap DOMAIN cb.entries :
        /\ IsMember(i) /\ Patch(cb.entries[i].file)
        /\ Owner(i) \in DOMAIN cb.entries
        /\ ~ Host(cb.entries[Owner(i)].file)}

StandingEntries(cb) == Restrict(cb.entries, DOMAIN cb.entries \ ResetMembers(cb))

PatchTargets(cb) ==
    {i \in DOMAIN cb.patches \cap DOMAIN StandingEntries(cb) :
        ~ Host(StandingEntries(cb)[i].file)}

LackedMembers(cb) ==
    {i \in DOMAIN cb.patches \ DOMAIN StandingEntries(cb) :
        IsMember(i) /\ Owner(i) \in PatchTargets(cb)}

BroughtIn(cb) == InheritedMembers(StandingEntries(cb), LackedMembers(cb))

PatchedEntries(cb) ==
    LET e == StandingEntries(cb)
    IN  [i \in DOMAIN e \cup BroughtIn(cb) |->
            IF i \in BroughtIn(cb) THEN Entry(cb.patches[i].file, cb.patches[i].decl)
            ELSE IF i \in PatchTargets(cb)
            THEN [e[i] EXCEPT !.patch = {cb.patches[i].decl.sig}]
            ELSE e[i]]

\* Only declarations change, and those that are new are named by patches.
LEMMA ApplyPatchesShape ==
    ASSUME NEW cb, CodebaseShape(cb), NEW m, m = ApplyPatches(cb)
    PROVE  /\ CodebaseShape(m) /\ m.entries = PatchedEntries(cb)
           /\ m.signatures = cb.signatures /\ m.patches = cb.patches
           /\ m.inherits = cb.inherits
           /\ DOMAIN m.entries \subseteq DOMAIN cb.entries \cup DOMAIN cb.patches
<1>1. m.entries = Evaluated(PatchedEntries(cb))
  BY DEF CodebaseShape, ApplyPatches, PatchedEntries, PatchTargets, BroughtIn,
         LackedMembers, StandingEntries, ResetMembers
<1>2. m.entries = PatchedEntries(cb)
  BY <1>1, EvaluatedIsItself
<1>3. /\ IsMap(m) /\ DOMAIN m = DOMAIN cb
      /\ m.signatures = cb.signatures /\ m.patches = cb.patches /\ m.inherits = cb.inherits
  BY DEF CodebaseShape, ApplyPatches, IsMap
<1>4. BroughtIn(cb) \subseteq DOMAIN cb.patches
  BY DEF BroughtIn, InheritedMembers, LackedMembers
<1>5. DOMAIN StandingEntries(cb) \subseteq DOMAIN cb.entries
  BY DEF StandingEntries, Restrict
<1>6. DOMAIN m.entries \subseteq DOMAIN cb.entries \cup DOMAIN cb.patches
  BY <1>2, <1>4, <1>5 DEF PatchedEntries
<1> QED
  BY <1>2, <1>3, <1>6 DEF CodebaseShape

\* Without a conflict only the refinements of declarations change.
LEMMA ApplyPatchesParts ==
    ASSUME NEW cb, CodebaseShape(cb), NEW d, ~ Conflict(d), IsMap(cb.entries),
           HasPatches(cb.patches, d), DOMAIN cb.entries = Declared(d, Sources(d)),
           \A i \in DOMAIN cb.entries : ~ Patch(cb.entries[i].file),
           NEW m, m = ApplyPatches(cb)
    PROVE  Applies(m, cb)
<1>1. ResetMembers(cb) = {}
  BY DEF ResetMembers
<1>2. StandingEntries(cb) = cb.entries
  BY <1>1 DEF StandingEntries, Restrict, IsMap
<1>3. ASSUME NEW i \in BroughtIn(cb)
      PROVE  FALSE
  <2>1. /\ i \in DOMAIN cb.patches \ DOMAIN cb.entries /\ IsMember(i)
        /\ \E class : <<class[1], i[2]>> \in DOMAIN cb.entries
    BY <1>2, <1>3 DEF BroughtIn, InheritedMembers, LackedMembers
  <2>2. PICK f \in PatchFiles(d) : i \in DOMAIN d[f].decls
    BY <2>1 DEF HasPatches, Declared
  <2>3. PICK class : <<class[1], i[2]>> \in DOMAIN cb.entries
    BY <2>1
  <2>4. PICK g \in Sources(d) : <<class[1], i[2]>> \in DOMAIN d[g].decls
    BY <2>3 DEF Declared
  <2>5. \A h \in Present(d) : i \in DOMAIN d[h].decls => Patch(h)
    BY <2>1 DEF Declared, Sources
  <2>6. <<class[1], i[2]>>[2] = i[2]
    OBVIOUS
  <2>7. Materializes(d)
    BY <2>1, <2>2, <2>4, <2>5, <2>6 DEF Materializes, PatchFiles, Sources
  <2> QED
    BY <2>7 DEF Conflict
<1>4. BroughtIn(cb) = {}
  BY <1>3
<1>5. PatchTargets(cb) = {i \in DOMAIN cb.patches \cap DOMAIN cb.entries :
                            ~ Host(cb.entries[i].file)}
  BY <1>2 DEF PatchTargets
<1>6. m.entries = [i \in DOMAIN cb.entries |->
                     IF i \in PatchTargets(cb)
                     THEN [cb.entries[i] EXCEPT !.patch = {cb.patches[i].decl.sig}]
                     ELSE cb.entries[i]]
  <2>1. m.entries = PatchedEntries(cb)
    BY ApplyPatchesShape
  <2> QED
    BY <1>2, <1>4, <2>1 DEF PatchedEntries
<1>7. /\ CodebaseShape(m) /\ m.signatures = cb.signatures
      /\ m.patches = cb.patches /\ m.inherits = cb.inherits
  BY ApplyPatchesShape
<1>8. DOMAIN m.entries = DOMAIN cb.entries /\ IsMap(m.entries)
  BY <1>6 DEF IsMap
<1>9. ASSUME NEW i \in DOMAIN cb.entries
      PROVE  m.entries[i] =
                IF i \in DOMAIN cb.patches /\ ~ Host(cb.entries[i].file)
                THEN [cb.entries[i] EXCEPT !.patch = {cb.patches[i].decl.sig}]
                ELSE cb.entries[i]
  BY <1>5, <1>6, <1>9
<1> QED
  BY <1>7, <1>8, <1>9 DEF Applies

\* populate_codebase leaves the declarations alone.
LEMMA PopulateParts ==
    ASSUME NEW cb, CodebaseShape(cb), NEW todo, NEW m, m = Populate(cb, todo)
    PROVE  /\ CodebaseShape(m) /\ m.entries = cb.entries /\ m.patches = cb.patches
           /\ m.signatures = cb.signatures /\ m.issues = cb.issues
<1> DEFINE classes == Classes(cb) \cap todo
           Eq(g) == g = [n \in 0..Cardinality(classes) |->
                           IF n = 0 THEN Restrict(cb.inherits, DOMAIN cb.inherits \ classes)
                           ELSE Evaluated(
                                  Overlay([c \in classes |-> InheritFrom(cb, g[n - 1], c)],
                                          g[n - 1]))]
           pass == CHOOSE g : Eq(g)
<1>1. m = [cb EXCEPT !.inherits = pass[Cardinality(classes)]]
  BY DEF Populate
<1> HIDE DEF pass, classes
<1> QED
  BY <1>1 DEF CodebaseShape, IsMap

CacheShape(c) ==
    /\ DOMAIN c = {"codebase", "references", "files", "orphans", "external", "editor"}
    /\ DOMAIN c.references = {"sig", "body", "file"}
    /\ CodebaseShape(c.codebase)

HostFiles(d) == {f \in Present(d) : Host(f)}

\* The state that was kept for a file.
Before(old, f) == IF f \in DOMAIN old.files THEN old.files[f] ELSE NoFile

\* What a call leaves in memory.
Stores(r, old, cb, refs, d, scanned, skip) ==
    /\ CacheShape(r)
    /\ r.codebase.issues = {} /\ r.codebase.entries = cb.entries
    /\ r.codebase.patches = cb.patches /\ r.codebase.signatures = cb.signatures
    /\ r.codebase.inherits = cb.inherits
    /\ refs.sig \subseteq r.references.sig
    /\ \A x \in r.references.sig : x \in refs.sig \/ x[1] \in ClassesOf(cb.entries)
    /\ DOMAIN r.files = Present(d)
    /\ \A f \in Present(d) :
          /\ r.files[f].hash = IF f \in scanned THEN d[f] ELSE Before(old, f).hash
          /\ r.files[f].keys = IF f \notin scanned THEN Before(old, f).keys
                              ELSE IF Patch(f) THEN {} ELSE OwnedKeys(cb, f)
    /\ r.editor = IF editorArtifacts
                  THEN (old.editor \cap HostFiles(d))
                         \cup AnalyzedFiles(cb, d, skip, old.external)
                  ELSE {}

\* The result that Store builds, part by part.
LEMMA StoreParts ==
    ASSUME NEW old, NEW cb, CodebaseShape(cb), NEW refs, NEW d, NEW scanned, NEW skip,
           NEW r, r = Store(old, cb, refs, d, scanned, skip)
    PROVE  Stores(r, old, cb, refs, d, scanned, skip)
<1>1. DOMAIN r = {"codebase", "references", "files", "orphans", "external", "editor"}
  BY DEF Store
<1>2. r.codebase = TakeIssues(cb)
  BY DEF Store
<1>3. /\ CodebaseShape(r.codebase) /\ r.codebase.issues = {}
      /\ r.codebase.entries = cb.entries
      /\ r.codebase.patches = cb.patches /\ r.codebase.signatures = cb.signatures
      /\ r.codebase.inherits = cb.inherits
  <2>1. IsMap(r.codebase)
    BY <1>2 DEF IsMap, TakeIssues
  <2> QED
    BY <1>2, <2>1 DEF CodebaseShape, TakeIssues
<1>4. r.editor = IF editorArtifacts
                 THEN (old.editor \cap HostFiles(d))
                        \cup AnalyzedFiles(cb, d, skip, old.external)
                 ELSE {}
  BY DEF Store, HostFiles
<1>5. /\ DOMAIN r.files = Present(d)
      /\ \A f \in Present(d) :
            /\ r.files[f].hash = IF f \in scanned THEN d[f] ELSE Before(old, f).hash
            /\ r.files[f].keys = IF f \notin scanned THEN Before(old, f).keys
                                ELSE IF Patch(f) THEN {} ELSE OwnedKeys(cb, f)
  BY DEF Store, Before
<1> DEFINE more == {AnalysisReferences(cb, f, d[f]) :
                      f \in AnalyzedFiles(cb, d, skip, old.external)}
<1>6. r.references = ExtendAll(refs, more)
  BY DEF Store
<1>7. /\ DOMAIN r.references = {"sig", "body", "file"}
      /\ r.references.sig = refs.sig \cup UNION {m.sig : m \in more}
  <2> HIDE DEF more
  <2> QED
    BY <1>6 DEF ExtendAll, ExtendReferences
<1>8. ASSUME NEW m \in more, NEW x \in m.sig
      PROVE  x[1] \in ClassesOf(cb.entries)
  <2>1. PICK f : m = AnalysisReferences(cb, f, d[f])
    OBVIOUS
  <2>2. x[1] \in Classes(cb)
    BY <2>1 DEF AnalysisReferences
  <2> QED
    BY <2>2, InheritFromParts
<1> HIDE DEF more
<1>9. \A x \in r.references.sig : x \in refs.sig \/ x[1] \in ClassesOf(cb.entries)
  BY <1>7, <1>8
<1>10. CacheShape(r) /\ refs.sig \subseteq r.references.sig
  BY <1>1, <1>3, <1>7 DEF CacheShape
<1> QED
  BY <1>3, <1>4, <1>5, <1>9, <1>10 DEF Stores

-----------------------------------------------------------------------------
(* Merging new scans into what was kept.                                   *)

\* The scanned files declare what they declare, the kept entries stay.
LEMMA ExtendEntries ==
    ASSUME NEW cb, CodebaseShape(cb), NEW d, ~ Conflict(d),
           NEW files \in SUBSET Present(d),
           DOMAIN cb.entries = Declared(d, Sources(d) \ files),
           NEW m, m = Extend(cb, files, d)
    PROVE  /\ DOMAIN m.entries = Declared(d, Sources(d)) /\ IsMap(m.entries)
           /\ \A f \in Sources(d) \cap files : \A i \in DOMAIN d[f].decls :
                 m.entries[i] = Entry(f, d[f].decls[i])
           /\ \A f \in Sources(d) \ files : \A i \in DOMAIN d[f].decls :
                 m.entries[i] = cb.entries[i]
<1>1. m.entries = Winners(cb, files, d)
  BY ExtendParts
<1>2. Scans(files) = Sources(d) \cap files
  BY DEF Sources, Scans
<1>3. DOMAIN m.entries = Declared(d, Sources(d)) /\ IsMap(m.entries)
  <2>1. Declared(d, Scans(files)) \cup DOMAIN cb.entries = Declared(d, Sources(d))
    BY <1>2 DEF Declared
  <2> QED
    BY <1>1, <2>1 DEF IsMap, Winners
<1>4. ASSUME NEW f \in Sources(d), NEW i \in DOMAIN d[f].decls
      PROVE  /\ \A g \in Sources(d) : i \in DOMAIN d[g].decls => g = f
             /\ m.entries[i] = Best(ClaimsOf(cb, Scans(files), d, i))
  <2>1. \A g \in Sources(d) : i \in DOMAIN d[g].decls => g = f
    BY OneDeclarer DEF Sources
  <2>2. i \in Declared(d, Sources(d))
    BY DEF Declared
  <2> QED
    BY <1>1, <1>3, <2>1, <2>2 DEF Winners
<1>5. ASSUME NEW f \in Sources(d) \cap files, NEW i \in DOMAIN d[f].decls
      PROVE  m.entries[i] = Entry(f, d[f].decls[i])
  <2>1. {g \in Scans(files) : i \in DOMAIN d[g].decls} = {f}
    BY <1>2, <1>4
  <2>2. i \notin DOMAIN cb.entries
    BY <1>4 DEF Declared
  <2>3. ClaimsOf(cb, Scans(files), d, i) = {Entry(f, d[f].decls[i])}
    BY <2>1, <2>2 DEF ClaimsOf
  <2> QED
    BY <1>4, <2>3, BestOfOne
<1>6. ASSUME NEW f \in Sources(d) \ files, NEW i \in DOMAIN d[f].decls
      PROVE  m.entries[i] = cb.entries[i]
  <2>1. {g \in Scans(files) : i \in DOMAIN d[g].decls} = {}
    BY <1>2, <1>4
  <2>2. i \in DOMAIN cb.entries
    BY <1>6 DEF Declared
  <2>3. ClaimsOf(cb, Scans(files), d, i) = {cb.entries[i]}
    BY <2>1, <2>2 DEF ClaimsOf
  <2>4. Best({cb.entries[i]}) = cb.entries[i]
    BY BestOfOne
  <2> QED
    BY <1>4, <2>3, <2>4
<1> QED
  BY <1>3, <1>5, <1>6

\* The entries of the files that are not scanned again.
HasKept(e, p, d, files) ==
    /\ DOMAIN e = Declared(d, Sources(d) \ files)
    /\ \A f \in Sources(d) \ files : \A i \in DOMAIN d[f].decls :
          e[i] = [file |-> f, decl |-> d[f].decls[i], patch |-> Refinement(p, f, i)]

KeepsSignatures(s, d, files) == s = [f \in Present(d) \ files |-> d[f].decls]

\* The signatures of the scanned files replace the old ones.
LEMMA ExtendSignatures ==
    ASSUME NEW cb, CodebaseShape(cb), NEW d, NEW files \in SUBSET Present(d),
           KeepsSignatures(cb.signatures, d, files)
    PROVE  HasSignatures(Extend(cb, files, d).signatures, d)
<1>1. Extend(cb, files, d).signatures = Overlay(ScanSignatures(files, d), cb.signatures)
  BY ExtendParts
<1> QED
  BY <1>1 DEF Overlay, ScanSignatures, KeepsSignatures, HasSignatures

\* If every patch file is scanned, the patches are those of the scans.
LEMMA ExtendPatches ==
    ASSUME NEW cb, CodebaseShape(cb), NEW d, ~ Conflict(d), NEW files \in SUBSET Present(d),
           PatchFiles(d) \subseteq files, DOMAIN cb.patches = {}
    PROVE  HasPatches(Extend(cb, files, d).patches, d)
<1> DEFINE p == Extend(cb, files, d).patches
           new == NewPatches(files, d)
<1>1. p = Overlay(cb.patches, new)
  BY ExtendParts
<1>2. PatchScans(files) = PatchFiles(d)
  BY DEF PatchFiles, PatchScans
<1>3. DOMAIN new = Declared(d, PatchFiles(d))
  BY <1>2 DEF NewPatches
<1>4. ASSUME NEW f \in PatchFiles(d), NEW i \in DOMAIN d[f].decls
      PROVE  new[i] = [file |-> f, decl |-> d[f].decls[i]]
  <2>1. i \in Declared(d, PatchScans(files))
    BY <1>2 DEF Declared
  <2>2. \A g \in PatchFiles(d) : i \in DOMAIN d[g].decls => g = f
    BY OneDeclarer DEF PatchFiles
  <2>3. (CHOOSE g \in PatchScans(files) : i \in DOMAIN d[g].decls) = f
    BY <1>2, <2>2
  <2> QED
    BY <2>1, <2>3 DEF NewPatches
<1> HIDE DEF p, new
<1>5. /\ IsMap(p) /\ DOMAIN p = DOMAIN new \cup DOMAIN cb.patches
      /\ \A x \in DOMAIN new : p[x] = new[x]
  BY <1>1 DEF Overlay, IsMap
<1>6. \A f \in PatchFiles(d) : \A i \in DOMAIN d[f].decls : i \in DOMAIN new
  BY <1>3 DEF Declared
<1>7. HasPatches(p, d)
  BY <1>3, <1>4, <1>5, <1>6 DEF HasPatches
<1> QED
  BY <1>7 DEF p

\* If none is, they stay.
LEMMA ExtendNoPatches ==
    ASSUME NEW cb, CodebaseShape(cb), NEW d, NEW files,
           PatchScans(files) = {}, IsMap(cb.patches)
    PROVE  Extend(cb, files, d).patches = cb.patches
<1> DEFINE new == NewPatches(files, d)
<1>1. DOMAIN new = {}
  BY DEF Declared, NewPatches
<1>2. Extend(cb, files, d).patches = Overlay(cb.patches, new)
  BY ExtendParts
<1> HIDE DEF new
<1>3. Overlay(cb.patches, new) = [x \in DOMAIN cb.patches |-> cb.patches[x]]
  BY <1>1 DEF Overlay
<1> QED
  BY <1>2, <1>3 DEF IsMap

\* Every patch file is scanned and the patches are applied.
LEMMA PatchedDescribes ==
    ASSUME NEW cb, CodebaseShape(cb), NEW d, ~ Conflict(d), NEW files \in SUBSET Present(d),
           PatchFiles(d) \subseteq files, DOMAIN cb.patches = {},
           \A p : HasPatches(p, d) => HasKept(cb.entries, p, d, files),
           KeepsSignatures(cb.signatures, d, files),
           NEW m, m = ApplyPatches(Extend(cb, files, d))
    PROVE  CodebaseShape(m) /\ Describes(m, d)
<1> DEFINE x == Extend(cb, files, d)
           p == x.patches
<1>1. CodebaseShape(x) /\ HasPatches(p, d) /\ HasSignatures(x.signatures, d)
  BY ExtendParts, ExtendPatches, ExtendSignatures
<1>2. HasKept(cb.entries, p, d, files)
  BY <1>1
<1>3. /\ DOMAIN x.entries = Declared(d, Sources(d))
      /\ \A f \in Sources(d) \cap files : \A i \in DOMAIN d[f].decls :
            x.entries[i] = Entry(f, d[f].decls[i])
      /\ \A f \in Sources(d) \ files : \A i \in DOMAIN d[f].decls :
            x.entries[i] = cb.entries[i]
  BY <1>2, ExtendEntries DEF HasKept
<1>4. m = ApplyPatches(x)
  OBVIOUS
<1> HIDE DEF x
<1>5. Applies(m, x)
  <2>1. IsMap(x.entries)
    BY <1>2, ExtendEntries DEF x, HasKept
  <2>2. ASSUME NEW i \in DOMAIN x.entries
        PROVE  ~ Patch(x.entries[i].file)
    <3>1. PICK f \in Sources(d) : i \in DOMAIN d[f].decls
      BY <1>3 DEF Declared
    <3>2. x.entries[i].file = f
      <4>1. CASE f \in files
        <5>1. x.entries[i] = Entry(f, d[f].decls[i])
          BY <1>3, <3>1, <4>1
        <5> QED
          BY <5>1 DEF Entry
      <4>2. CASE f \notin files
        <5>1. x.entries[i] = [file |-> f, decl |-> d[f].decls[i], patch |-> Refinement(p, f, i)]
          BY <1>2, <1>3, <3>1, <4>2 DEF HasKept
        <5> QED
          BY <5>1
      <4> QED
        BY <4>1, <4>2
    <3> QED
      BY <3>1, <3>2 DEF Sources
  <2> QED
    BY <1>1, <1>3, <1>4, <2>1, <2>2, ApplyPatchesParts
<1> HIDE DEF p
<1>6. ASSUME NEW f \in Sources(d), NEW i \in DOMAIN d[f].decls
      PROVE  m.entries[i] =
                [file |-> f, decl |-> d[f].decls[i], patch |-> Refinement(p, f, i)]
  <2>1. i \in DOMAIN x.entries
    BY <1>3 DEF Declared
  <2>2. \E old : /\ x.entries[i] = [file |-> f, decl |-> d[f].decls[i], patch |-> old]
                 /\ old \in {{}, Refinement(p, f, i)}
    BY <1>2, <1>3 DEF Entry, HasKept
  <2>3. PICK old : /\ x.entries[i] = [file |-> f, decl |-> d[f].decls[i], patch |-> old]
                   /\ old \in {{}, Refinement(p, f, i)}
    BY <2>2
  <2>4. x.entries[i].file = f
    BY <2>3
  <2>5. CASE i \in DOMAIN p /\ ~ Host(f)
    <3>1. m.entries[i] = [x.entries[i] EXCEPT !.patch = {p[i].decl.sig}]
      BY <1>5, <2>1, <2>4, <2>5 DEF Applies, p
    <3>2. Refinement(p, f, i) = {p[i].decl.sig}
      BY <2>5 DEF Refinement
    <3> QED
      BY <2>3, <3>1, <3>2
  <2>6. CASE ~ (i \in DOMAIN p /\ ~ Host(f))
    <3>1. m.entries[i] = x.entries[i]
      BY <1>5, <2>1, <2>4, <2>6 DEF Applies, p
    <3>2. Refinement(p, f, i) = {}
      BY <2>6 DEF Refinement
    <3> QED
      BY <2>3, <3>1, <3>2
  <2> QED
    BY <2>5, <2>6
<1>7. HasEntries(m.entries, p, d)
  BY <1>3, <1>5, <1>6 DEF HasEntries, Applies
<1>8. Describes(m, d)
  BY <1>1, <1>5, <1>7 DEF Describes, Applies, p
<1> QED
  BY <1>5, <1>8 DEF Applies

\* No patch file is scanned, and nothing that a patch refines.
LEMMA UnpatchedDescribes ==
    ASSUME NEW cb, CodebaseShape(cb), NEW d, ~ Conflict(d), NEW files \in SUBSET Present(d),
           PatchScans(files) = {},
           HasPatches(cb.patches, d), HasKept(cb.entries, cb.patches, d, files),
           (\A f \in files : Host(f)) \/ DOMAIN cb.patches = {},
           KeepsSignatures(cb.signatures, d, files),
           NEW m, m = Extend(cb, files, d)
    PROVE  CodebaseShape(m) /\ Describes(m, d)
<1> DEFINE p == cb.patches
<1>1. CodebaseShape(m) /\ m.patches = p /\ HasSignatures(m.signatures, d)
  BY ExtendParts, ExtendNoPatches, ExtendSignatures DEF HasPatches
<1>2. /\ DOMAIN m.entries = Declared(d, Sources(d)) /\ IsMap(m.entries)
      /\ \A f \in Sources(d) \cap files : \A i \in DOMAIN d[f].decls :
            m.entries[i] = Entry(f, d[f].decls[i])
      /\ \A f \in Sources(d) \ files : \A i \in DOMAIN d[f].decls :
            m.entries[i] = cb.entries[i]
  BY ExtendEntries DEF HasKept
<1>3. ASSUME NEW f \in Sources(d), NEW i \in DOMAIN d[f].decls
      PROVE  m.entries[i] =
                [file |-> f, decl |-> d[f].decls[i], patch |-> Refinement(p, f, i)]
  <2>1. CASE f \in files
    <3>1. Refinement(p, f, i) = {}
      BY <2>1 DEF Refinement
    <3> QED
      BY <1>2, <2>1, <3>1 DEF Entry
  <2>2. CASE f \notin files
    BY <1>2, <2>2 DEF HasKept
  <2> QED
    BY <2>1, <2>2
<1>4. HasEntries(m.entries, p, d)
  BY <1>2, <1>3 DEF HasEntries
<1>5. Describes(m, d)
  BY <1>1, <1>4 DEF Describes
<1> QED
  BY <1>1, <1>5

-----------------------------------------------------------------------------
(* The invariant.                                                          *)

\* The contents of the files as the last analysis saw them.
Seen == [f \in Files |-> IF f \in Tracked THEN cache.files[f].hash ELSE Absent]

Typed ==
    /\ IsMap(db) /\ DOMAIN db = Files /\ \A f \in Files : db[f] \in Versions[f]
    /\ announced \subseteq {f \in Files : FileType[f] # "Builtin"}
    /\ CacheShape(cache) /\ DOMAIN cache.files \subseteq Files
    /\ DOMAIN cache.codebase.entries \subseteq Ids
    /\ DOMAIN cache.codebase.patches \subseteq Ids
    /\ cache.codebase.issues = {}
    /\ initialized \in BOOLEAN /\ needsFullRebuild \in BOOLEAN /\ scanOnly \in BOOLEAN
    /\ editorArtifacts \in BOOLEAN /\ conflicted \in BOOLEAN

\* What was not announced since is as it was seen.
Watched ==
    initialized =>
        /\ \A f \in Tracked : cache.files[f].hash \in Versions[f] \ {Absent}
        /\ \A f \in Files \ announced : Seen[f] = db[f]

\* The keys recorded for a file are those it declares; a patch declares none.
KeysOf(d, f) == IF Patch(f) THEN {} ELSE DOMAIN d[f].decls

\* The code base is that of the contents seen.
Known ==
    initialized /\ ~ conflicted =>
        /\ ~ Conflict(Seen)
        /\ Describes(cache.codebase, Seen)
        /\ \A f \in Tracked : cache.files[f].keys = KeysOf(Seen, f)

\* All host files that were seen have their editor data.
EditorKept ==
    initialized /\ ~ needsFullRebuild /\ editorArtifacts /\ ~ scanOnly =>
        cache.editor = {f \in Tracked : Host(f)}

\* The graph has an edge from each class to its parents.
NamesParents(sig, e) == \A c \in ClassesOf(e) : \A p \in Parents(e, c) : <<c, p>> \in sig

FiniteSources(sig) == IsFiniteSet({x[1] : x \in sig})

\* The classes of cb have inherited what they inherit, and whoever did is found in the
\* graph from the class it inherits from.
Inherits(cb, sig) ==
    /\ IsInheritance(cb.inherits, cb.entries)
    /\ NamesParents(sig, cb.entries) /\ FiniteSources(sig)

Inherited ==
    initialized /\ ~ conflicted => Inherits(cache.codebase, cache.references.sig)

IInv == Typed /\ Watched /\ Known /\ Inherited /\ EditorKept

-----------------------------------------------------------------------------
(* One incremental analysis.                                               *)

\* What is not scanned again is what was seen, whatever the hint.
LEMMA Untouched ==
    ASSUME IInv, initialized, NEW hint \in {announced, Files}
    PROVE  /\ Present(Seen) = Tracked
           /\ \A f \in Tracked : Seen[f] = cache.files[f].hash
           /\ ContentChanged(hint) \subseteq Rescanned(hint)
           /\ Rescanned(hint) \subseteq Present(db)
           /\ \A f \in Present(db) \ ContentChanged(hint) : f \in Tracked /\ Seen[f] = db[f]
<1>1. Tracked \subseteq Files
  BY DEF IInv, Typed, Tracked
<1>2. \A f \in Tracked : Seen[f] = cache.files[f].hash
  BY <1>1 DEF Seen
<1>3. Present(Seen) = Tracked
  BY <1>1 DEF IInv, Watched, Present, Seen
<1>4. ContentChanged(hint) \subseteq Rescanned(hint) /\ Rescanned(hint) \subseteq Present(db)
  BY DEF ContentChanged, Rescanned
<1>5. ASSUME NEW f \in Present(db) \ ContentChanged(hint)
      PROVE  f \in Tracked /\ Seen[f] = db[f]
  <2>1. f \in Tracked /\ (f \in hint => cache.files[f].hash = db[f])
    BY DEF ContentChanged
  <2>2. f \in Files
    BY DEF Present
  <2>3. CASE f \in hint
    BY <1>2, <2>1, <2>3
  <2>4. CASE f \notin hint
    BY <2>1, <2>2, <2>4 DEF IInv, Watched
  <2> QED
    BY <2>3, <2>4
<1> QED
  BY <1>2, <1>3, <1>4, <1>5

\* The base code base does not change.
LEMMA BuiltinsStay ==
    ASSUME IInv, initialized, NEW hint \in {announced, Files}, NEW f \in ContentChanged(hint)
    PROVE  FileType[f] # "Builtin"
<1> SUFFICES ASSUME FileType[f] = "Builtin"
             PROVE  FALSE
  OBVIOUS
<1>1. f \in Files /\ f \in Present(db)
  BY DEF ContentChanged, Present
<1>2. f \notin announced
  BY DEF IInv, Typed
<1>3. Seen[f] = db[f] /\ db[f] # Absent
  BY <1>1, <1>2 DEF IInv, Watched, Present
<1>4. f \in Tracked /\ cache.files[f].hash = db[f]
  BY <1>1, <1>3 DEF Seen
<1> QED
  BY <1>4 DEF ContentChanged

\* The files whose scans are dropped before the new ones are merged.
Gone(hint) == Deleted \cup Rescanned(hint)

KeptCodebase(hint) == RemoveEntries(cache.codebase, Gone(hint), Keys(Gone(hint)))

\* What is left of the code base, whether it was conflicted or not.
LEMMA KeptParts ==
    ASSUME IInv, NEW hint
    PROVE  /\ CodebaseShape(KeptCodebase(hint))
           /\ KeptCodebase(hint).issues = {}
           /\ DOMAIN KeptCodebase(hint).entries =
                 DOMAIN cache.codebase.entries \ Keys(Gone(hint))
           /\ \A i \in DOMAIN KeptCodebase(hint).entries :
                 KeptCodebase(hint).entries[i] = cache.codebase.entries[i]
           /\ DOMAIN KeptCodebase(hint).inherits =
                 DOMAIN cache.codebase.inherits \ Keys(Gone(hint))
           /\ \A i \in DOMAIN KeptCodebase(hint).inherits :
                 KeptCodebase(hint).inherits[i] = cache.codebase.inherits[i]
           /\ KeptCodebase(hint).signatures =
                 [f \in DOMAIN cache.codebase.signatures \ Gone(hint) |->
                     cache.codebase.signatures[f]]
           /\ DOMAIN KeptCodebase(hint).patches =
                 {i \in DOMAIN cache.codebase.patches :
                     cache.codebase.patches[i].file \notin Gone(hint)}
           /\ IsMap(KeptCodebase(hint).patches)
           /\ \A i \in DOMAIN KeptCodebase(hint).patches :
                 KeptCodebase(hint).patches[i] = cache.codebase.patches[i]
<1> DEFINE c == cache.codebase
           m == KeptCodebase(hint)
           gone == Gone(hint)
           keys == Keys(Gone(hint))
<1>1. CodebaseShape(c) /\ c.issues = {}
  BY DEF IInv, Typed, CacheShape
<1>2. m = RemoveEntries(c, gone, keys)
  BY DEF KeptCodebase
<1> HIDE DEF c, m, gone, keys
<1>3. /\ CodebaseShape(m) /\ m.issues = c.issues
      /\ DOMAIN m.entries = DOMAIN c.entries \ keys
      /\ \A i \in DOMAIN m.entries : m.entries[i] = c.entries[i]
      /\ DOMAIN m.inherits = DOMAIN c.inherits \ keys
      /\ \A i \in DOMAIN m.inherits : m.inherits[i] = c.inherits[i]
      /\ m.signatures = [f \in DOMAIN c.signatures \ gone |-> c.signatures[f]]
      /\ DOMAIN m.patches = {i \in DOMAIN c.patches : c.patches[i].file \notin gone}
      /\ IsMap(m.patches)
      /\ \A i \in DOMAIN m.patches : m.patches[i] = c.patches[i]
  BY <1>1, <1>2, RemoveEntriesParts
<1> QED
  BY <1>1, <1>3 DEF c, m, gone, keys

\* The files that are kept are those of the database that are not scanned again, and
\* the files that are dropped are the others.
LEMMA KeptFiles ==
    ASSUME IInv, initialized, NEW hint \in {announced, Files}
    PROVE  /\ Tracked \ Gone(hint) = Present(db) \ Rescanned(hint)
           /\ \A f \in Tracked \ Gone(hint) : Seen[f] = db[f]
           /\ Sources(Seen) \ Gone(hint) = Sources(db) \ Rescanned(hint)
<1>1. /\ Present(Seen) = Tracked
      /\ \A f \in Present(db) \ Rescanned(hint) : f \in Tracked /\ Seen[f] = db[f]
      /\ Rescanned(hint) \subseteq Present(db)
  BY Untouched
<1>2. Tracked \ Gone(hint) = Present(db) \ Rescanned(hint)
  BY <1>1 DEF Gone, Deleted
<1> QED
  BY <1>1, <1>2 DEF Sources

\* The declarations that are kept are those of the files that are kept.
LEMMA KeptEntries ==
    ASSUME IInv, initialized, ~ conflicted, NEW hint \in {announced, Files}
    PROVE  /\ HasKept(KeptCodebase(hint).entries, cache.codebase.patches, db, Rescanned(hint))
           /\ KeepsSignatures(KeptCodebase(hint).signatures, db, Rescanned(hint))
<1> DEFINE e == KeptCodebase(hint).entries
           p == cache.codebase.patches
<1>1. /\ Present(Seen) = Tracked
      /\ Tracked \ Gone(hint) = Present(db) \ Rescanned(hint)
      /\ \A f \in Tracked \ Gone(hint) : Seen[f] = db[f]
      /\ Sources(Seen) \ Gone(hint) = Sources(db) \ Rescanned(hint)
  BY KeptFiles, Untouched
<1>2. /\ ~ Conflict(Seen) /\ HasEntries(cache.codebase.entries, p, Seen)
      /\ HasSignatures(cache.codebase.signatures, Seen)
      /\ \A f \in Tracked : cache.files[f].keys = KeysOf(Seen, f)
  BY DEF IInv, Known, Describes
<1>3. /\ DOMAIN e = DOMAIN cache.codebase.entries \ Keys(Gone(hint))
      /\ \A i \in DOMAIN e : e[i] = cache.codebase.entries[i]
      /\ KeptCodebase(hint).signatures =
            [f \in DOMAIN cache.codebase.signatures \ Gone(hint) |->
                cache.codebase.signatures[f]]
  BY KeptParts
<1> HIDE DEF e, p
<1>4. ASSUME NEW f \in Sources(Seen) \ Gone(hint), NEW i \in DOMAIN Seen[f].decls
      PROVE  i \notin Keys(Gone(hint))
  <2>1. SUFFICES ASSUME NEW g \in Gone(hint) \cap Tracked, i \in cache.files[g].keys
                 PROVE  FALSE
    BY DEF Keys
  <2>2. ~ Patch(g) /\ i \in DOMAIN Seen[g].decls
    BY <1>2, <2>1 DEF KeysOf
  <2>3. g = f
    BY <1>1, <1>2, <2>2, OneDeclarer DEF Sources
  <2> QED
    BY <2>3
<1>5. ASSUME NEW f \in Sources(Seen) \cap Gone(hint), NEW i \in DOMAIN Seen[f].decls
      PROVE  i \in Keys(Gone(hint))
  <2>1. f \in Gone(hint) \cap Tracked /\ i \in cache.files[f].keys
    BY <1>1, <1>2 DEF KeysOf, Sources
  <2> QED
    BY <2>1 DEF Keys
<1>6. DOMAIN e = Declared(Seen, Sources(Seen) \ Gone(hint))
  BY <1>2, <1>3, <1>4, <1>5 DEF HasEntries, Declared
<1>7. \A f \in Sources(db) \ Rescanned(hint) : Seen[f] = db[f]
  BY <1>1 DEF Sources
<1>8. Declared(Seen, Sources(Seen) \ Gone(hint)) = Declared(db, Sources(db) \ Rescanned(hint))
  BY <1>1, <1>7 DEF Declared
<1>9. ASSUME NEW f \in Sources(db) \ Rescanned(hint), NEW i \in DOMAIN db[f].decls
      PROVE  e[i] = [file |-> f, decl |-> db[f].decls[i], patch |-> Refinement(p, f, i)]
  <2>1. f \in Sources(Seen) /\ Seen[f] = db[f] /\ i \in DOMAIN Seen[f].decls
    BY <1>1, <1>7
  <2>2. i \in DOMAIN e
    BY <1>6, <1>8 DEF Declared
  <2> QED
    BY <1>2, <1>3, <2>1, <2>2 DEF HasEntries
<1>10. HasKept(e, p, db, Rescanned(hint))
  BY <1>6, <1>8, <1>9 DEF HasKept
<1>11. KeepsSignatures(KeptCodebase(hint).signatures, db, Rescanned(hint))
  BY <1>1, <1>2, <1>3 DEF HasSignatures, KeepsSignatures
<1> QED
  BY <1>10, <1>11 DEF e, p

\* Unless it gives up, the call finds every patch where it was: the patches in memory
\* are those of the database.
LEMMA PatchesStand ==
    ASSUME IInv, initialized, ~ conflicted, NEW hint \in {announced, Files},
           ~ MustRebuild(hint)
    PROVE  /\ HasPatches(cache.codebase.patches, db)
           /\ \A f \in PatchFiles(db) : f \notin ContentChanged(hint)
           /\ \A i \in DOMAIN cache.codebase.patches :
                 cache.codebase.patches[i].file \in PatchFiles(db)
<1> DEFINE p == cache.codebase.patches
<1>1. /\ Present(Seen) = Tracked
      /\ \A f \in Present(db) \ ContentChanged(hint) : f \in Tracked /\ Seen[f] = db[f]
  BY Untouched
<1>2. HasPatches(p, Seen)
  BY DEF IInv, Known, Describes
<1>3. /\ \A i \in DOMAIN p : p[i].file \notin Deleted
      /\ \A f \in ContentChanged(hint) : ~ Patch(f)
  BY DEF MustRebuild
<1> HIDE DEF p
<1>4. \A f \in PatchFiles(db) : f \notin ContentChanged(hint)
  BY <1>3 DEF PatchFiles
<1>5. ASSUME NEW f \in PatchFiles(db)
      PROVE  f \in PatchFiles(Seen) /\ Seen[f] = db[f]
  BY <1>1, <1>4 DEF PatchFiles
<1>6. ASSUME NEW f \in PatchFiles(Seen), NEW i \in DOMAIN Seen[f].decls
      PROVE  f \in PatchFiles(db) /\ p[i].file = f
  <2>1. i \in DOMAIN p /\ p[i].file = f
    <3>1. p[i] = [file |-> f, decl |-> Seen[f].decls[i]]
      BY <1>2 DEF HasPatches
    <3>2. i \in Declared(Seen, PatchFiles(Seen))
      BY DEF Declared
    <3> QED
      BY <1>2, <3>1, <3>2 DEF HasPatches
  <2>2. f \in Tracked \ Deleted
    BY <1>1, <1>3, <2>1 DEF PatchFiles
  <2> QED
    BY <2>1, <2>2 DEF Deleted, PatchFiles
<1>7. Declared(Seen, PatchFiles(Seen)) = Declared(db, PatchFiles(db))
  BY <1>5, <1>6 DEF Declared
<1>8. HasPatches(p, db)
  BY <1>2, <1>5, <1>7 DEF HasPatches
<1>9. \A i \in DOMAIN p : p[i].file \in PatchFiles(db)
  BY <1>2, <1>6 DEF HasPatches, Declared
<1> QED
  BY <1>4, <1>8, <1>9 DEF p

\* The patches of a workspace are determined.
LEMMA OnePatching ==
    ASSUME NEW p, NEW q, NEW d, HasPatches(p, d), HasPatches(q, d)
    PROVE  p = q
<1>1. IsMap(p) /\ IsMap(q) /\ DOMAIN p = DOMAIN q /\ DOMAIN p = Declared(d, PatchFiles(d))
  BY DEF HasPatches
<1>2. ASSUME NEW i \in DOMAIN p
      PROVE  p[i] = q[i]
  <2>1. PICK f \in PatchFiles(d) : i \in DOMAIN d[f].decls
    BY <1>1 DEF Declared
  <2> QED
    BY <2>1 DEF HasPatches
<1> QED
  BY <1>1, <1>2 DEF IsMap

\* The code base that an incremental analysis merges describes the database.
LEMMA MergedDescribes ==
    ASSUME IInv, initialized, ~ conflicted, NEW hint \in {announced, Files},
           ~ MustRebuild(hint), ~ Conflict(db)
    PROVE  Describes(MergedCodebase(hint), db)
<1> DEFINE k == KeptCodebase(hint)
           p == cache.codebase.patches
           files == Rescanned(hint)
           merged == Extend(k, files, db)
<1>1. MergedCodebase(hint) = IF \E f \in files : Patch(f) THEN ApplyPatches(merged) ELSE merged
  BY DEF MergedCodebase, ApplyScanResults, KeptCodebase, Gone
<1>2. /\ CodebaseShape(k) /\ IsMap(k.patches)
      /\ DOMAIN k.patches = {i \in DOMAIN p : p[i].file \notin Gone(hint)}
      /\ \A i \in DOMAIN k.patches : k.patches[i] = p[i]
  BY KeptParts
<1>3. HasKept(k.entries, p, db, files) /\ KeepsSignatures(k.signatures, db, files)
  BY KeptEntries
<1>4. /\ HasPatches(p, db)
      /\ \A f \in PatchFiles(db) : f \notin ContentChanged(hint)
      /\ \A i \in DOMAIN p : p[i].file \in PatchFiles(db)
  BY PatchesStand
<1>5. files \in SUBSET Present(db)
  BY Untouched
<1>6. \A f \in files :
         f \in ContentChanged(hint)
           \/ (Patch(f) /\ \E g \in ContentChanged(hint) : FileType[g] = "Vendored")
  BY DEF Rescanned
<1>7. ASSUME \E g \in ContentChanged(hint) : FileType[g] = "Vendored"
      PROVE  PatchFiles(db) \subseteq files
  BY <1>7 DEF Rescanned, PatchFiles
<1>8. \A g \in files : g \in Files
  BY <1>5 DEF Present
<1> HIDE DEF k, p, files
<1>9. CASE \E f \in files : Patch(f)
  <2>1. PatchFiles(db) \subseteq files
    BY <1>4, <1>5, <1>6, <1>7, <1>9 DEF PatchFiles
  <2>2. DOMAIN k.patches = {}
    BY <1>2, <1>4, <2>1 DEF Gone, files
  <2>3. \A q : HasPatches(q, db) => HasKept(k.entries, q, db, files)
    BY <1>3, <1>4, OnePatching
  <2>4. Describes(ApplyPatches(merged), db)
    BY <1>2, <1>3, <1>5, <2>1, <2>2, <2>3, PatchedDescribes
  <2> QED
    BY <1>1, <1>9, <2>4
<1>10. CASE ~ \E f \in files : Patch(f)
  <2>1. \A i \in DOMAIN p : p[i].file \notin Gone(hint)
    BY <1>4, <1>10 DEF Gone, Deleted, PatchFiles, files
  <2>2. k.patches = p
    BY <1>2, <1>4, <2>1 DEF IsMap, HasPatches
  <2>3. (\A f \in files : Host(f)) \/ DOMAIN p = {}
    <3>1. SUFFICES ASSUME NEW f \in files, ~ Host(f)
                   PROVE  DOMAIN p = {}
      OBVIOUS
    <3>3. f \in ContentChanged(hint)
      BY <1>6, <1>10
    <3>2. FileType[f] = "Vendored"
      BY <1>8, <1>10, <3>1, <3>3, BuiltinsStay, FileTypeAssumption DEF Host, Patch
    <3>4. PatchFiles(db) \subseteq files
      BY <1>7, <3>2, <3>3
    <3>5. PatchFiles(db) = {}
      BY <1>10, <3>4 DEF PatchFiles
    <3> QED
      BY <1>4, <3>5 DEF HasPatches, Declared
  <2>4. PatchScans(files) = {}
    BY <1>10 DEF PatchScans
  <2>5. Describes(merged, db)
    BY <1>2, <1>3, <1>4, <1>5, <2>2, <2>3, <2>4, UnpatchedDescribes
  <2> QED
    BY <1>1, <1>10, <2>5
<1> QED
  BY <1>9, <1>10

\* So does the one that a full analysis builds.
LEMMA FullDescribes ==
    ASSUME NEW d, ~ Conflict(d)
    PROVE  Describes(ApplyPatches(Extend(EmptyCodebase, Present(d), d)), d)
<1> DEFINE e == EmptyCodebase
<1>1. /\ CodebaseShape(e) /\ DOMAIN e.patches = {} /\ DOMAIN e.entries = {}
      /\ e.signatures = <<>>
  <2>1. IsMap(e)
    BY DEF IsMap, EmptyCodebase
  <2> QED
    BY <2>1 DEF EmptyCodebase, CodebaseShape
<1>2. PatchFiles(d) \subseteq Present(d) /\ Sources(d) \ Present(d) = {}
  BY DEF PatchFiles, Sources
<1> HIDE DEF e
<1>3. \A p : HasKept(e.entries, p, d, Present(d))
  BY <1>1, <1>2 DEF HasKept, Declared
<1>4. KeepsSignatures(e.signatures, d, Present(d))
  BY <1>1 DEF KeepsSignatures
<1>5. Describes(ApplyPatches(Extend(e, Present(d), d)), d)
  BY <1>1, <1>2, <1>3, <1>4, PatchedDescribes
<1> QED
  BY <1>5 DEF e
-----------------------------------------------------------------------------
(* What an incremental analysis leaves to be inherited.                    *)

\* The file f of d declares i, and the code base has that declaration.
EntryIn(cb, d, i, f) ==
    /\ i \in DOMAIN d[f].decls
    /\ cb.entries[i] = [file |-> f, decl |-> d[f].decls[i],
                        patch |-> Refinement(cb.patches, f, i)]
    /\ cb.entries[i].file = f /\ cb.entries[i].decl = d[f].decls[i]

\* Every declaration of a code base is one of a file.
LEMMA EntryOfFile ==
    ASSUME NEW cb, NEW d, Describes(cb, d), NEW i \in DOMAIN cb.entries
    PROVE  \E f \in Sources(d) : EntryIn(cb, d, i, f)
<1>1. HasEntries(cb.entries, cb.patches, d)
  BY DEF Describes
<1>2. PICK f \in Sources(d) : i \in DOMAIN d[f].decls
  BY <1>1 DEF HasEntries, Declared
<1>3. cb.entries[i] = [file |-> f, decl |-> d[f].decls[i],
                       patch |-> Refinement(cb.patches, f, i)]
  BY <1>1, <1>2 DEF HasEntries
<1>4. cb.entries[i].file = f /\ cb.entries[i].decl = d[f].decls[i]
  BY <1>3
<1> QED
  BY <1>2, <1>3, <1>4 DEF EntryIn

\* Every declaration of a file is in the code base.
LEMMA DeclaredEntry ==
    ASSUME NEW cb, NEW d, Describes(cb, d), NEW f \in Sources(d), NEW i \in DOMAIN d[f].decls
    PROVE  i \in DOMAIN cb.entries /\ EntryIn(cb, d, i, f)
<1>1. HasEntries(cb.entries, cb.patches, d)
  BY DEF Describes
<1>2. i \in DOMAIN cb.entries
  BY <1>1 DEF HasEntries, Declared
<1>3. cb.entries[i] = [file |-> f, decl |-> d[f].decls[i],
                       patch |-> Refinement(cb.patches, f, i)]
  BY <1>1 DEF HasEntries
<1>4. cb.entries[i].file = f /\ cb.entries[i].decl = d[f].decls[i]
  BY <1>3
<1> QED
  BY <1>2, <1>3, <1>4 DEF EntryIn

\* Its file owns it.
LEMMA DeclaredIsOwned ==
    ASSUME NEW cb, NEW d, Describes(cb, d), NEW f \in Sources(d), NEW i \in DOMAIN d[f].decls
    PROVE  i \in OwnedKeys(cb, f)
<1>1. i \in DOMAIN cb.entries /\ EntryIn(cb, d, i, f)
  BY DeclaredEntry
<1> QED
  BY <1>1 DEF EntryIn, OwnedKeys

\* Without a conflict the hierarchy has no circle.
LEMMA AcyclicEntries ==
    ASSUME NEW cb, NEW d, ~ Conflict(d), Describes(cb, d)
    PROVE  Acyclic(cb.entries)
<1> DEFINE e == cb.entries
<1>0. ASSUME NEW c \in DOMAIN e
      PROVE  \E f \in Sources(d) : c \in DOMAIN d[f].decls /\ e[c].decl = d[f].decls[c]
  <2>1. \E f \in Sources(d) : EntryIn(cb, d, c, f)
    BY EntryOfFile
  <2> QED
    BY <2>1 DEF EntryIn
<1> HIDE DEF e
<1>1. SUFFICES ASSUME NEW s \in SUBSET ClassesOf(e), s # {},
                      \A c \in s : \E p \in Parents(e, c) : p \in s
               PROVE  FALSE
  BY DEF Acyclic, e
<1>2. ASSUME NEW c \in s
      PROVE  \E x \in Hierarchy(d) : x[1] = c /\ x[2] \in s
  <2>1. PICK p \in Parents(e, c) : p \in s
    BY <1>1
  <2>2. c \in DOMAIN e /\ e[c].decl.kind = "class"
    BY DEF ClassesOf
  <2>3. PICK f \in Sources(d) : c \in DOMAIN d[f].decls /\ e[c].decl = d[f].decls[c]
    BY <1>0, <2>2
  <2>4. f \in {g \in Present(d) : ~ Patch(g)}
        /\ c \in {i \in DOMAIN d[f].decls : d[f].decls[i].kind = "class"}
    BY <2>2, <2>3 DEF Sources
  <2>5. <<c, p>> \in {c} \X ParentIds(d[f].decls[c])
    BY <2>1, <2>3 DEF Parents
  <2>6. <<c, p>> \in Hierarchy(d)
    BY <2>4, <2>5 DEF Hierarchy
  <2> QED
    BY <2>1, <2>6
<1>3. s \in SUBSET {x[1] : x \in Hierarchy(d)}
  BY <1>2
<1>4. Circular(Hierarchy(d))
  BY <1>1, <1>2, <1>3 DEF Circular
<1> QED
  BY <1>4 DEF Conflict

\* A workspace declares finitely many symbols.
LEMMA FiniteEntries ==
    ASSUME NEW d, \A f \in Files : d[f] \in Versions[f] \cup {Absent}, NEW cb, Describes(cb, d)
    PROVE  IsFiniteSet(DOMAIN cb.entries) /\ IsFiniteSet(ClassesOf(cb.entries))
<1> DEFINE of == [f \in Files |-> DOMAIN d[f].decls]
           all == {of[f] : f \in Sources(d)}
<1>1. Sources(d) \in SUBSET Files
  BY DEF Sources, Present
<1>2. IsFiniteSet(Sources(d))
  BY <1>1, FiniteAssumption, FS_Subset
<1>3. \A f \in Sources(d) : IsFiniteSet(of[f])
  BY <1>1, FiniteAssumption DEF Sources, Present
<1>4. DOMAIN cb.entries = UNION all
  BY <1>1 DEF Describes, HasEntries, Declared
<1> HIDE DEF of
<1>5. IsFiniteSet(all)
  BY <1>2, FiniteImage
<1>6. \A t \in all : IsFiniteSet(t)
  BY <1>3
<1> HIDE DEF all
<1>7. IsFiniteSet(DOMAIN cb.entries)
  BY <1>4, <1>5, <1>6, FS_UNION
<1>8. ClassesOf(cb.entries) \in SUBSET DOMAIN cb.entries
  BY DEF ClassesOf
<1> QED
  BY <1>7, <1>8, FS_Subset

\* What differs between two versions of a file is finite.
LEMMA FiniteDifference ==
    ASSUME NEW old, NEW new, IsFiniteSet(DOMAIN old), IsFiniteSet(DOMAIN new)
    PROVE  IsFiniteSet(ChangedIds(old, new))
<1> DEFINE differs == {i \in DOMAIN old \cup DOMAIN new :
                         ~ (i \in DOMAIN old \cap DOMAIN new /\ old[i] = new[i])}
           owner == [i \in differs |-> Owner(i)]
<1>1. ChangedIds(old, new) = differs \cup {owner[i] : i \in differs}
  BY DEF ChangedIds
<1>2. IsFiniteSet(differs)
  <2>1. IsFiniteSet(DOMAIN old \cup DOMAIN new) /\ differs \in SUBSET (DOMAIN old \cup DOMAIN new)
    BY FS_Union
  <2> HIDE DEF differs
  <2> QED
    BY <2>1, FS_Subset
<1> HIDE DEF differs, owner
<1>3. IsFiniteSet({owner[i] : i \in differs})
  BY <1>2, FiniteImage
<1> QED
  BY <1>1, <1>2, <1>3, FS_Union

\* So is what has changed since the last analysis.
LEMMA FiniteChange ==
    ASSUME IInv, initialized, ~ conflicted, NEW hint \in {announced, Files}
    PROVE  IsFiniteSet(Changed(hint))
<1> DEFINE sigs == cache.codebase.signatures
           Old(f) == IF f \in DOMAIN sigs THEN sigs[f] ELSE <<>>
           new == [f \in Rescanned(hint) |-> ChangedIds(Old(f), db[f].decls)]
           gone == [f \in Deleted |-> DOMAIN sigs[f]]
<1>1. DOMAIN sigs = Tracked /\ \A f \in Tracked : IsFiniteSet(DOMAIN sigs[f])
  <2>1. HasSignatures(sigs, Seen) /\ Present(Seen) = Tracked
    BY Untouched DEF IInv, Known, Describes
  <2>2. \A f \in Tracked : f \in Files /\ Seen[f] \in Versions[f] \ {Absent}
    BY Untouched DEF IInv, Typed, Watched, Tracked
  <2> QED
    BY <2>1, <2>2, FiniteAssumption DEF HasSignatures
<1>2. Rescanned(hint) \in SUBSET Files /\ Deleted \in SUBSET Files
  BY Untouched DEF Present, Deleted, IInv, Typed, Tracked
<1>3. \A f \in Rescanned(hint) : IsFiniteSet(DOMAIN db[f].decls)
  <2>1. \A f \in Rescanned(hint) : f \in Files /\ db[f] \in Versions[f] \ {Absent}
    BY Untouched DEF Present, IInv, Typed
  <2> QED
    BY <2>1, FiniteAssumption
<1>4. \A f \in Rescanned(hint) : IsFiniteSet(new[f])
  <2>1. IsFiniteSet(DOMAIN <<>>)
    <3>1. DOMAIN <<>> = {}
      OBVIOUS
    <3> QED
      BY <3>1, FS_EmptySet
  <2>2. \A f \in Rescanned(hint) : IsFiniteSet(DOMAIN Old(f))
    BY <1>1, <2>1
  <2> HIDE DEF Old
  <2> QED
    BY <1>3, <2>2, FiniteDifference
<1>5. \A f \in Deleted : IsFiniteSet(gone[f])
  BY <1>1 DEF Deleted
<1>6. Changed(hint) = (UNION {new[f] : f \in Rescanned(hint)})
                        \cup (UNION {gone[f] : f \in Deleted})
  BY DEF Changed
<1> HIDE DEF new, gone
<1>7. IsFiniteSet({new[f] : f \in Rescanned(hint)}) /\ IsFiniteSet({gone[f] : f \in Deleted})
  <2>1. IsFiniteSet(Rescanned(hint)) /\ IsFiniteSet(Deleted)
    BY <1>2, FiniteAssumption, FS_Subset
  <2>2. IsFiniteSet({new[f] : f \in Rescanned(hint)})
    BY <2>1, FiniteImage
  <2>3. IsFiniteSet({gone[f] : f \in Deleted})
    BY <2>1, FiniteImage
  <2> QED
    BY <2>2, <2>3
<1>8. IsFiniteSet(UNION {new[f] : f \in Rescanned(hint)})
  BY <1>4, <1>7, FS_UNION
<1>9. IsFiniteSet(UNION {gone[f] : f \in Deleted})
  BY <1>5, <1>7, FS_UNION
<1>10. IsFiniteSet((UNION {new[f] : f \in Rescanned(hint)})
                      \cup (UNION {gone[f] : f \in Deleted}))
  BY <1>8, <1>9, FS_Union
<1> QED
  BY <1>6, <1>10


\* What has not changed is declared as it was, in the same file.
LEMMA UnchangedDeclaration ==
    ASSUME IInv, initialized, ~ conflicted, NEW hint \in {announced, Files},
           NEW i, i \notin Changed(hint), NEW f
    PROVE  /\ f \in Sources(Seen) /\ i \in DOMAIN Seen[f].decls
                <=> f \in Sources(db) /\ i \in DOMAIN db[f].decls
           /\ f \in Sources(Seen) /\ i \in DOMAIN Seen[f].decls
                => Seen[f].decls[i] = db[f].decls[i]
<1> DEFINE sigs == cache.codebase.signatures
           Old(g) == IF g \in DOMAIN sigs THEN sigs[g] ELSE <<>>
<1>1. /\ Present(Seen) = Tracked
      /\ Rescanned(hint) \subseteq Present(db)
      /\ ContentChanged(hint) \subseteq Rescanned(hint)
      /\ \A g \in Present(db) \ ContentChanged(hint) : g \in Tracked /\ Seen[g] = db[g]
  BY Untouched
<1>2. DOMAIN sigs = Tracked /\ \A g \in Tracked : sigs[g] = Seen[g].decls
  <2>1. HasSignatures(sigs, Seen)
    BY DEF IInv, Known, Describes
  <2> QED
    BY <1>1, <2>1 DEF HasSignatures
<1>3. ASSUME NEW g \in Rescanned(hint)
      PROVE  /\ i \in DOMAIN Old(g) <=> i \in DOMAIN db[g].decls
             /\ i \in DOMAIN Old(g) => Old(g)[i] = db[g].decls[i]
  <2>1. i \notin ChangedIds(Old(g), db[g].decls)
    BY DEF Changed
  <2> HIDE DEF Old
  <2> QED
    BY <2>1 DEF ChangedIds
<1>4. \A g \in Deleted : i \notin DOMAIN sigs[g]
  BY DEF Changed
<1> HIDE DEF sigs
<1>5. CASE f \in Rescanned(hint)
  <2>1. CASE f \in Tracked
    BY <1>1, <1>2, <1>3, <1>5, <2>1 DEF Sources
  <2>2. CASE f \notin Tracked
    <3>1. i \notin DOMAIN Old(f)
      BY <1>2, <2>2
    <3> HIDE DEF Old
    <3> QED
      BY <1>1, <1>3, <1>5, <2>2, <3>1 DEF Sources
  <2> QED
    BY <2>1, <2>2
<1>6. CASE f \in Deleted
  BY <1>1, <1>2, <1>4, <1>6 DEF Deleted, Sources
<1>7. CASE f \notin Rescanned(hint) /\ f \notin Deleted
  <2>1. CASE f \in Present(db)
    BY <1>1, <1>7, <2>1 DEF Sources
  <2>2. CASE f \notin Present(db)
    BY <1>1, <1>7, <2>2 DEF Sources, Deleted
  <2> QED
    BY <2>1, <2>2
<1> QED
  BY <1>5, <1>6, <1>7

\* Its entry stays.
LEMMA Stable ==
    ASSUME IInv, initialized, ~ conflicted, NEW hint \in {announced, Files},
           ~ MustRebuild(hint), NEW m, Describes(m, db), NEW i, i \notin Changed(hint)
    PROVE  SameAt(cache.codebase.entries, m.entries, i)
<1> DEFINE c == cache.codebase
<1>1. Describes(c, Seen)
  BY DEF IInv, Known
<1>2. c.patches = m.patches
  <2>1. HasPatches(c.patches, db) /\ HasPatches(m.patches, db)
    BY PatchesStand DEF Describes
  <2> HIDE DEF c
  <2> QED
    BY <2>1, OnePatching
<1> HIDE DEF c
<1>3. ASSUME NEW f \in Sources(Seen), i \in DOMAIN Seen[f].decls
      PROVE  i \in DOMAIN c.entries /\ i \in DOMAIN m.entries /\ c.entries[i] = m.entries[i]
  <2>1. f \in Sources(db) /\ i \in DOMAIN db[f].decls /\ Seen[f].decls[i] = db[f].decls[i]
    BY <1>3, UnchangedDeclaration
  <2>2. i \in DOMAIN c.entries /\ EntryIn(c, Seen, i, f)
    BY <1>1, <1>3, DeclaredEntry
  <2>3. i \in DOMAIN m.entries /\ EntryIn(m, db, i, f)
    BY <2>1, DeclaredEntry
  <2> QED
    BY <1>2, <2>1, <2>2, <2>3 DEF EntryIn
<1>4. ASSUME i \in DOMAIN c.entries
      PROVE  \E f \in Sources(Seen) : i \in DOMAIN Seen[f].decls
  BY <1>1, <1>4, EntryOfFile DEF EntryIn
<1>5. ASSUME i \in DOMAIN m.entries
      PROVE  \E f \in Sources(Seen) : i \in DOMAIN Seen[f].decls
  <2>1. PICK f \in Sources(db) : i \in DOMAIN db[f].decls
    BY <1>5, EntryOfFile DEF EntryIn
  <2> QED
    BY <2>1, UnchangedDeclaration
<1>6. i \in DOMAIN c.entries <=> i \in DOMAIN m.entries
  BY <1>3, <1>4, <1>5
<1>7. i \in DOMAIN c.entries => c.entries[i] = m.entries[i]
  BY <1>3, <1>4
<1> QED
  BY <1>6, <1>7 DEF SameAt, c

\* A class that the cascade from the changes does not come to has inherited what it
\* inherits now: nor does it come to its ancestors or to their members.
LEMMA KeptInheritance ==
    ASSUME NEW old, NEW h0, IsInheritance(h0, old), NEW e, NEW h, IsInheritance(h, e),
           Acyclic(e), NEW sig, NamesParents(sig, old), NEW s, ClosedUnder(sig, s),
           \A i : i \notin s => SameAt(old, e, i)
    PROVE  \A c \in ClassesOf(e) : c \notin s => c \in ClassesOf(old) /\ h0[c] = h[c]
<1> DEFINE bad == {c \in ClassesOf(e) : c \notin s /\ h0[c] # h[c]}
<1>1. \A c : c \notin s => /\ c \in ClassesOf(e) <=> c \in ClassesOf(old)
                           /\ c \in ClassesOf(e) => Parents(e, c) = Parents(old, c)
  BY DEF SameAt, ClassesOf, Parents
<1>2. ASSUME NEW c \in ClassesOf(e), c \notin s, NEW p \in Parents(e, c)
      PROVE  p \notin s
  <2>1. <<c, p>> \in sig
    BY <1>1, <1>2 DEF NamesParents
  <2> QED
    BY <1>2, <2>1 DEF ClosedUnder
<1>3. ASSUME NEW p, p \notin s, NEW j \in MembersOf(e, p) \cup MembersOf(old, p)
      PROVE  SameAt(old, e, j) /\ j \in MembersOf(e, p) /\ j \in MembersOf(old, p)
  <2>1. Owner(j) = p
    BY DEF MembersOf
  <2>2. j \notin s
    BY <1>3, <2>1 DEF ClosedUnder
  <2> QED
    BY <2>2 DEF MembersOf, SameAt
<1>4. ASSUME NEW p, p \notin s
      PROVE  Items(e, p) = Items(old, p)
  <2>1. SameAt(old, e, p)
    BY <1>4
  <2>2. MembersOf(e, p) = MembersOf(old, p)
    BY <1>3, <1>4
  <2>3. \A j \in {p} \cup MembersOf(e, p) : p \in DOMAIN e => e[j] = old[j]
    BY <1>3, <1>4, <2>1 DEF SameAt, MembersOf
  <2> QED
    BY <2>1, <2>2, <2>3 DEF Items, SameAt
<1>5. bad = {}
  <2> SUFFICES ASSUME bad # {}
               PROVE  FALSE
    OBVIOUS
  <2>1. PICK c \in bad : \A p \in Parents(e, c) : p \notin bad
    BY DEF Acyclic
  <2>2. c \in ClassesOf(e) /\ c \notin s /\ h0[c] # h[c]
    BY <2>1
  <2>3. c \in ClassesOf(old) /\ Parents(e, c) = Parents(old, c)
    BY <1>1, <2>2
  <2>4. ASSUME NEW p \in Parents(e, c), NEW x
        PROVE  Passes(e, h, p, x) <=> Passes(old, h0, p, x)
    <3>1. p \notin s
      BY <1>2, <2>2
    <3>2. p \in ClassesOf(e) => h0[p] = h[p]
      BY <2>1, <3>1
    <3>3. p \in DOMAIN h <=> p \in DOMAIN h0
      BY <1>1, <3>1 DEF IsInheritance
    <3>4. p \in DOMAIN e <=> p \in DOMAIN old
      BY <3>1 DEF SameAt
    <3>5. Items(e, p) = Items(old, p)
      BY <1>4, <3>1
    <3>6. DOMAIN h = ClassesOf(e)
      BY DEF IsInheritance
    <3> QED
      BY <3>2, <3>3, <3>4, <3>5, <3>6 DEF Passes
  <2>5. \A x : x \in Inheritance(e, h, c) <=> x \in Inheritance(old, h0, c)
    BY <2>3, <2>4, InheritanceMembers
  <2>6. Inheritance(e, h, c) = Inheritance(old, h0, c)
    <3>1. \A x : x \in Inheritance(e, h, c) => x \in Inheritance(old, h0, c)
      BY <2>5
    <3>2. \A x : x \in Inheritance(old, h0, c) => x \in Inheritance(e, h, c)
      BY <2>5
    <3>3. /\ Inheritance(e, h, c) \subseteq Inheritance(old, h0, c)
          /\ Inheritance(old, h0, c) \subseteq Inheritance(e, h, c)
      BY <3>1, <3>2
    <3>4. h[c] = Inheritance(e, h, c) /\ h0[c] = Inheritance(old, h0, c)
      BY <2>2, <2>3 DEF IsInheritance
    <3> QED
      BY <2>5 DEF Inheritance
  <2> QED
    BY <2>2, <2>3, <2>6 DEF IsInheritance
<1> QED
  BY <1>1, <1>5

-----------------------------------------------------------------------------
(* The end of an analysis.                                                 *)

\* Whatever is declared is one of the identifiers there can be.
LEMMA DeclaredIds ==
    ASSUME \A f \in Files : db[f] \in Versions[f], NEW files \in SUBSET Present(db)
    PROVE  Declared(db, files) \subseteq Ids
<1>1. SUFFICES ASSUME NEW f \in files, NEW i \in DOMAIN db[f].decls
               PROVE  i \in Ids
  BY DEF Declared
<1>2. f \in Files /\ db[f] \in Versions[f] \ {Absent}
  BY DEF Present
<1>3. i \in UNION {DOMAIN c.decls : c \in Versions[f] \ {Absent}}
  BY <1>2
<1> QED
  BY <1>2, <1>3 DEF Ids

\* The code base that is stored has the shape of one and declares identifiers.
StorableCodebase(cb) ==
    /\ CodebaseShape(cb)
    /\ DOMAIN cb.entries \subseteq Ids /\ DOMAIN cb.patches \subseteq Ids

\* Merging scans of the database keeps a code base storable.
LEMMA ExtendStorable ==
    ASSUME NEW cb, StorableCodebase(cb), \A f \in Files : db[f] \in Versions[f],
           NEW files \in SUBSET Present(db)
    PROVE  /\ StorableCodebase(Extend(cb, files, db))
           /\ StorableCodebase(ApplyPatches(Extend(cb, files, db)))
<1> DEFINE m == Extend(cb, files, db)
           x == ApplyPatches(m)
<1>1. /\ CodebaseShape(m) /\ m.entries = Winners(cb, files, db)
      /\ m.patches = Overlay(cb.patches, NewPatches(files, db))
  BY ExtendParts DEF StorableCodebase
<1>2. Declared(db, Scans(files)) \subseteq Ids /\ Declared(db, PatchScans(files)) \subseteq Ids
  BY DeclaredIds DEF Scans, PatchScans
<1>3. DOMAIN m.entries \subseteq Ids /\ DOMAIN m.patches \subseteq Ids
  BY <1>1, <1>2 DEF Winners, StorableCodebase, Overlay, NewPatches
<1> HIDE DEF m
<1>4. /\ CodebaseShape(x) /\ x.patches = m.patches
      /\ DOMAIN x.entries \subseteq DOMAIN m.entries \cup DOMAIN m.patches
  BY <1>1, ApplyPatchesShape
<1> QED
  BY <1>1, <1>3, <1>4 DEF m, StorableCodebase

\* So the code base merged by an incremental analysis is storable.
LEMMA MergedStorable ==
    ASSUME IInv, initialized, NEW hint \in {announced, Files}
    PROVE  StorableCodebase(MergedCodebase(hint))
<1> DEFINE k == KeptCodebase(hint)
           files == Rescanned(hint)
<1>1. StorableCodebase(k)
  <2>1. /\ CodebaseShape(k)
        /\ DOMAIN k.entries = DOMAIN cache.codebase.entries \ Keys(Gone(hint))
        /\ DOMAIN k.patches \subseteq DOMAIN cache.codebase.patches
    BY KeptParts
  <2> HIDE DEF k
  <2> QED
    BY <2>1 DEF StorableCodebase, IInv, Typed
<1>2. files \in SUBSET Present(db)
  BY Untouched
<1>3. MergedCodebase(hint) \in {Extend(k, files, db), ApplyPatches(Extend(k, files, db))}
  BY DEF MergedCodebase, ApplyScanResults, KeptCodebase, Gone
<1>4. \A f \in Files : db[f] \in Versions[f]
  BY DEF IInv, Typed
<1> HIDE DEF k, files
<1> QED
  BY <1>1, <1>2, <1>3, <1>4, ExtendStorable

\* In a code base that describes the files, a file owns what it declares.
LEMMA OwnedIsDeclared ==
    ASSUME NEW cb, NEW d, ~ Conflict(d), Describes(cb, d), NEW f \in Present(d)
    PROVE  OwnedKeys(cb, f) = KeysOf(d, f)
<1>1. /\ DOMAIN cb.entries = Declared(d, Sources(d))
      /\ \A g \in Sources(d) : \A i \in DOMAIN d[g].decls : cb.entries[i].file = g
  <2>1. HasEntries(cb.entries, cb.patches, d)
    BY DEF Describes
  <2>2. \A g \in Sources(d) : \A i \in DOMAIN d[g].decls :
           cb.entries[i] = [file |-> g, decl |-> d[g].decls[i],
                            patch |-> Refinement(cb.patches, g, i)]
    BY <2>1 DEF HasEntries
  <2>3. DOMAIN cb.entries = Declared(d, Sources(d))
    BY <2>1 DEF HasEntries
  <2>4. ASSUME NEW g \in Sources(d), NEW i \in DOMAIN d[g].decls
        PROVE  cb.entries[i].file = g
    <3>1. cb.entries[i] = [file |-> g, decl |-> d[g].decls[i],
                           patch |-> Refinement(cb.patches, g, i)]
      BY <2>2
    <3> QED
      BY <3>1
  <2> QED
    BY <2>3, <2>4
<1>2. ASSUME NEW i \in OwnedKeys(cb, f)
      PROVE  i \in KeysOf(d, f)
  <2>1. i \in DOMAIN cb.entries /\ cb.entries[i].file = f
    BY DEF OwnedKeys
  <2>2. PICK g \in Sources(d) : i \in DOMAIN d[g].decls
    BY <1>1, <2>1 DEF Declared
  <2> QED
    BY <1>1, <2>1, <2>2 DEF KeysOf, Sources
<1>3. ASSUME NEW i \in KeysOf(d, f)
      PROVE  i \in OwnedKeys(cb, f)
  <2>1. f \in Sources(d) /\ i \in DOMAIN d[f].decls
    BY DEF KeysOf, Sources
  <2>2. i \in Declared(d, Sources(d))
    BY <2>1 DEF Declared
  <2> QED
    BY <1>1, <2>1, <2>2 DEF OwnedKeys
<1> QED
  BY <1>2, <1>3

\* What is known of a file that an analysis does not scan.
Remembered(old, d, f, conflict) ==
    /\ f \in DOMAIN old.files /\ old.files[f].hash = d[f]
    /\ ~ conflict => old.files[f].keys = KeysOf(d, f)

\* An analysis that stores a code base of the database, and the states of the files
\* that it did not scan as they were, establishes the invariant.
LEMMA FinishKeeps ==
    ASSUME IInv, NEW old, NEW cb, StorableCodebase(cb), NEW refs, NEW skip,
           NEW scanned \in SUBSET Present(db), NEW conflict \in BOOLEAN,
           ~ conflict => ~ Conflict(db) /\ Describes(cb, db) /\ Inherits(cb, refs.sig),
           \A f \in Present(db) \ scanned : Remembered(old, db, f, conflict),
           editorArtifacts /\ ~ scanOnly => HostFiles(db) \cap skip \subseteq old.editor,
           Finish(Store(old, cb, refs, db, scanned, skip), conflict)
    PROVE  IInv'
<1> DEFINE r == Store(old, cb, refs, db, scanned, skip)
<1>1. Stores(r, old, cb, refs, db, scanned, skip)
  BY StoreParts DEF StorableCodebase
<1>2. /\ cache' = r /\ announced' = {} /\ initialized' = TRUE /\ needsFullRebuild' = FALSE
      /\ conflicted' = conflict /\ db' = db /\ scanOnly' = scanOnly
      /\ editorArtifacts' = editorArtifacts
  BY DEF Finish
<1> HIDE DEF r
<1>3. Typed'
  BY <1>1, <1>2 DEF IInv, Typed, StorableCodebase, Present, Stores
<1>4. \A f \in Present(db) : /\ r.files[f].hash = db[f]
                             /\ ~ conflict => r.files[f].keys = KeysOf(db, f)
  <2>1. SUFFICES ASSUME NEW f \in Present(db)
                 PROVE  /\ r.files[f].hash = db[f]
                        /\ ~ conflict => r.files[f].keys = KeysOf(db, f)
    OBVIOUS
  <2>2. CASE f \in scanned
    <3>1. /\ r.files[f].hash = db[f]
          /\ r.files[f].keys = IF Patch(f) THEN {} ELSE OwnedKeys(cb, f)
      BY <1>1, <2>2 DEF Stores
    <3>2. ~ conflict => OwnedKeys(cb, f) = KeysOf(db, f)
      BY OwnedIsDeclared
    <3> QED
      BY <3>1, <3>2 DEF KeysOf
  <2>3. CASE f \notin scanned
    BY <1>1, <2>3 DEF Remembered, Before, Stores
  <2> QED
    BY <2>2, <2>3
<1>5. Tracked' = Present(db)
  BY <1>1, <1>2 DEF Tracked, Stores
<1>6. \A f \in Files : Seen'[f] = db[f]
  BY <1>2, <1>4, <1>5 DEF Seen, Present, Tracked
<1>7. Seen' = db
  <2>1. DOMAIN (Seen') = Files /\ IsMap(Seen')
    BY DEF Seen, IsMap
  <2>2. IsMap(db) /\ DOMAIN db = Files
    BY DEF IInv, Typed
  <2> QED
    BY <1>6, <2>1, <2>2 DEF IsMap
<1>8. Watched'
  <2>1. \A f \in Present(db) : r.files[f].hash \in Versions[f] \ {Absent}
    BY <1>4 DEF IInv, Typed, Present
  <2> QED
    BY <1>2, <1>5, <1>6, <2>1 DEF Watched
<1>9. Known'
  <2>1. ASSUME ~ conflict
        PROVE  /\ ~ Conflict(db) /\ Describes(r.codebase, db)
               /\ \A f \in Present(db) : r.files[f].keys = KeysOf(db, f)
    BY <1>1, <1>4, <2>1 DEF Describes, Stores
  <2> QED
    BY <1>2, <1>5, <1>7, <2>1 DEF Known
<1>10. Inherited'
  <2>1. ASSUME ~ conflict
        PROVE  Inherits(r.codebase, r.references.sig)
    <3>1. /\ IsInheritance(cb.inherits, cb.entries) /\ NamesParents(refs.sig, cb.entries)
          /\ IsFiniteSet({x[1] : x \in refs.sig}) /\ Describes(cb, db)
      BY <2>1 DEF Inherits, FiniteSources
    <3>2. /\ r.codebase.inherits = cb.inherits /\ r.codebase.entries = cb.entries
          /\ refs.sig \subseteq r.references.sig
          /\ \A x \in r.references.sig : x \in refs.sig \/ x[1] \in ClassesOf(cb.entries)
      BY <1>1 DEF Stores
    <3> DEFINE all == {x[1] : x \in refs.sig} \cup ClassesOf(cb.entries)
    <3>3. {x[1] : x \in r.references.sig} \in SUBSET all
      BY <3>2
    <3>4. IsFiniteSet(ClassesOf(cb.entries))
      BY <3>1, FiniteEntries DEF IInv, Typed
    <3>5. IsFiniteSet(all)
      BY <3>1, <3>4, FS_Union
    <3> HIDE DEF all
    <3>6. FiniteSources(r.references.sig)
      BY <3>3, <3>5, FS_Subset DEF FiniteSources
    <3>7. NamesParents(r.references.sig, cb.entries)
      BY <3>1, <3>2 DEF NamesParents
    <3> QED
      BY <3>1, <3>2, <3>6, <3>7 DEF Inherits
  <2> QED
    BY <1>2, <2>1 DEF Inherited
<1>11. EditorKept'
  <2>1. ASSUME editorArtifacts, ~ scanOnly
        PROVE  r.editor = HostFiles(db)
    BY <1>1, <2>1 DEF AnalyzedFiles, HostFiles, Stores
  <2> QED
    BY <1>2, <1>5, <2>1 DEF EditorKept, HostFiles
<1> QED
  BY <1>3, <1>8, <1>9, <1>10, <1>11 DEF IInv

\* What the merged code base keeps of the inheritance.
LEMMA MergedInherits ==
    ASSUME IInv, initialized, NEW hint \in {announced, Files}, NEW m, m = MergedCodebase(hint)
    PROVE  /\ DOMAIN m.inherits = DOMAIN cache.codebase.inherits \ Keys(Gone(hint))
           /\ \A c \in DOMAIN m.inherits : m.inherits[c] = cache.codebase.inherits[c]
<1> DEFINE k == KeptCodebase(hint)
           files == Rescanned(hint)
           merged == Extend(k, files, db)
<1>1. m = IF \E f \in files : Patch(f) THEN ApplyPatches(merged) ELSE merged
  BY DEF MergedCodebase, ApplyScanResults, KeptCodebase, Gone
<1>2. /\ CodebaseShape(k)
      /\ DOMAIN k.inherits = DOMAIN cache.codebase.inherits \ Keys(Gone(hint))
      /\ \A c \in DOMAIN k.inherits : k.inherits[c] = cache.codebase.inherits[c]
  BY KeptParts
<1> HIDE DEF k, files
<1>3. CodebaseShape(merged) /\ merged.inherits = k.inherits
  BY <1>2, ExtendParts
<1> HIDE DEF merged
<1>4. ApplyPatches(merged).inherits = merged.inherits
  BY <1>3, ApplyPatchesShape
<1>5. m.inherits = k.inherits
  BY <1>1, <1>3, <1>4
<1> QED
  BY <1>2, <1>5

\* `todo' has what was scanned and the classes of `s', which the changes affect.
Covers(hint, todo, s) ==
    /\ Changed(hint) \subseteq s /\ ClosedUnder(cache.references.sig, s)
    /\ \A f \in Rescanned(hint) : OwnedKeys(MergedCodebase(hint), f) \subseteq todo
    /\ \A c \in ClassesOf(MergedCodebase(hint).entries) : c \in todo \/ c \notin s

\* The class is not populated again, and what it inherited is still there: no file that
\* was dropped has declared it.
LEMMA InheritanceStays ==
    ASSUME IInv, initialized, ~ conflicted, NEW hint \in {announced, Files},
           ~ MustRebuild(hint), ~ Conflict(db), NEW todo, NEW s, Covers(hint, todo, s),
           NEW m, m = MergedCodebase(hint), NEW h, IsInheritance(h, m.entries),
           NEW c \in ClassesOf(m.entries), c \notin todo
    PROVE  /\ c \notin s /\ c \in DOMAIN m.inherits /\ m.inherits[c] = h[c]
           /\ SameAt(cache.codebase.entries, m.entries, c)
<1>1. Describes(m, db)
  BY MergedDescribes
<1>2. /\ Changed(hint) \subseteq s /\ ClosedUnder(cache.references.sig, s)
      /\ \A f \in Rescanned(hint) : OwnedKeys(m, f) \subseteq todo
      /\ c \notin s
  BY DEF Covers
<1>3. \A i : i \notin s => SameAt(cache.codebase.entries, m.entries, i)
  BY <1>1, <1>2, Stable
<1>4. /\ IsInheritance(cache.codebase.inherits, cache.codebase.entries)
      /\ NamesParents(cache.references.sig, cache.codebase.entries)
  BY DEF IInv, Inherited, Inherits
<1>5. Acyclic(m.entries)
  BY <1>1, AcyclicEntries
<1>6. c \in ClassesOf(cache.codebase.entries) /\ cache.codebase.inherits[c] = h[c]
  BY <1>2, <1>3, <1>4, <1>5, KeptInheritance
<1>7. ASSUME c \in Keys(Gone(hint))
      PROVE  FALSE
  <2>1. PICK g \in Gone(hint) \cap Tracked : c \in cache.files[g].keys
    BY <1>7 DEF Keys
  <2>2. cache.files[g].keys = KeysOf(Seen, g) /\ Present(Seen) = Tracked
    BY Untouched DEF IInv, Known
  <2>3. g \in Sources(Seen) /\ c \in DOMAIN Seen[g].decls
    BY <2>1, <2>2 DEF KeysOf, Sources
  <2>4. g \in Sources(db) /\ c \in DOMAIN db[g].decls
    BY <1>2, <2>3, UnchangedDeclaration
  <2>5. g \in Rescanned(hint)
    BY <2>1, <2>4 DEF Gone, Deleted, Sources
  <2>6. c \in OwnedKeys(m, g)
    BY <1>1, <2>4, DeclaredIsOwned
  <2> QED
    BY <1>2, <2>5, <2>6
<1>8. c \in DOMAIN cache.codebase.inherits
  BY <1>4, <1>6 DEF IsInheritance
<1> QED
  BY <1>2, <1>3, <1>6, <1>7, <1>8, MergedInherits

\* What is left of the inheritance is of classes.
LEMMA InheritanceOfClasses ==
    ASSUME IInv, initialized, ~ conflicted, NEW hint \in {announced, Files},
           ~ MustRebuild(hint), ~ Conflict(db), NEW m, m = MergedCodebase(hint)
    PROVE  DOMAIN m.inherits \subseteq ClassesOf(m.entries)
<1> SUFFICES ASSUME NEW c \in DOMAIN m.inherits
             PROVE  c \in ClassesOf(m.entries)
  OBVIOUS
<1>1. Describes(m, db)
  BY MergedDescribes
<1>2. c \in DOMAIN cache.codebase.inherits /\ c \notin Keys(Gone(hint))
  BY MergedInherits
<1>3. c \in ClassesOf(cache.codebase.entries)
  BY <1>2 DEF IInv, Inherited, Inherits, IsInheritance
<1>4. Describes(cache.codebase, Seen)
  BY DEF IInv, Known
<1>5. PICK f \in Sources(Seen) : EntryIn(cache.codebase, Seen, c, f)
  BY <1>3, <1>4, EntryOfFile DEF ClassesOf
<1>6. c \in DOMAIN Seen[f].decls /\ Seen[f].decls[c].kind = "class"
  BY <1>3, <1>5 DEF EntryIn, ClassesOf
<1>7. f \in Tracked /\ cache.files[f].keys = KeysOf(Seen, f)
  BY Untouched DEF IInv, Known, Sources
<1>8. f \notin Gone(hint)
  BY <1>2, <1>6, <1>7 DEF Keys, KeysOf, Sources
<1>9. f \in Sources(db) /\ Seen[f] = db[f]
  BY <1>7, <1>8, KeptFiles DEF Sources
<1>10. c \in DOMAIN m.entries /\ EntryIn(m, db, c, f)
  BY <1>1, <1>6, <1>9, DeclaredEntry
<1> QED
  BY <1>6, <1>9, <1>10 DEF EntryIn, ClassesOf

\* The classes have inherited what they inherit in the new code base.
LEMMA IncrementalInherits ==
    ASSUME IInv, initialized, ~ conflicted, NEW hint \in {announced, Files},
           ~ MustRebuild(hint), ~ Conflict(db), NEW todo, NEW s, Covers(hint, todo, s),
           NEW m, m = MergedCodebase(hint)
    PROVE  IsInheritance(Populate(m, todo).inherits, m.entries)
<1> DEFINE h == FromAncestors(m.entries)
<1>1. IsInheritance(h, m.entries)
  BY InheritanceExists
<1>2. Describes(m, db) /\ CodebaseShape(m)
  BY MergedDescribes, MergedStorable DEF StorableCodebase
<1>3. Acyclic(m.entries)
  BY <1>2, AcyclicEntries
<1>4. IsFiniteSet(ClassesOf(m.entries))
  BY <1>2, FiniteEntries DEF IInv, Typed
<1> HIDE DEF h
<1>5. \A c \in ClassesOf(m.entries) \ todo : c \in DOMAIN m.inherits /\ m.inherits[c] = h[c]
  BY <1>1, InheritanceStays
<1>6. DOMAIN m.inherits \subseteq ClassesOf(m.entries)
  BY InheritanceOfClasses
<1>7. Populate(m, todo).inherits = h
  BY <1>1, <1>2, <1>3, <1>4, <1>5, <1>6, PopulateInherits
<1> QED
  BY <1>1, <1>7

\* The graph gets the edges of `todo' and keeps those of what is not dirty.
Renews(hint, todo, sig) ==
    /\ SignatureReferences(MergedCodebase(hint), todo).sig \subseteq sig
    /\ \A x \in cache.references.sig : x[1] \notin DirtySymbols(hint) => x \in sig
    /\ \A x \in sig : x \in cache.references.sig \/ x[1] \in todo

\* The edges that Populate records.
LEMMA RecordedReferences ==
    ASSUME NEW cb, NEW todo
    PROVE  /\ \A x \in SignatureReferences(cb, todo).sig : x[1] \in todo
           /\ \A c \in todo : \A p \in Parents(cb.entries, c) :
                 <<c, p>> \in SignatureReferences(cb, todo).sig
<1> DEFINE of(i) == {i} \X (cb.entries[i].decl.uses \cup ParentIds(cb.entries[i].decl))
<1>1. SignatureReferences(cb, todo).sig = UNION {of(i) : i \in todo}
  BY DEF SignatureReferences, NoReferences
<1>2. ASSUME NEW c \in todo, NEW p \in Parents(cb.entries, c)
      PROVE  <<c, p>> \in of(c)
  BY DEF Parents
<1>3. \A i : \A x \in of(i) : x[1] = i
  OBVIOUS
<1> HIDE DEF of
<1> QED
  BY <1>1, <1>2, <1>3

\* It still names the parents of each class.
LEMMA IncrementalNames ==
    ASSUME IInv, initialized, ~ conflicted, NEW hint \in {announced, Files},
           ~ MustRebuild(hint), ~ Conflict(db), NEW m, m = MergedCodebase(hint),
           NEW todo, todo \subseteq DOMAIN m.entries, NEW s, Covers(hint, todo, s),
           NEW sig, Renews(hint, todo, sig)
    PROVE  NamesParents(sig, m.entries) /\ FiniteSources(sig)
<1>1. Describes(m, db)
  BY MergedDescribes
<1>2. \A c \in todo : \A p \in Parents(m.entries, c) : <<c, p>> \in sig
  BY RecordedReferences DEF Renews
<1>3. ASSUME NEW c \in ClassesOf(m.entries), c \notin todo, NEW p \in Parents(m.entries, c)
      PROVE  <<c, p>> \in sig
  <2>1. IsInheritance(FromAncestors(m.entries), m.entries)
    BY InheritanceExists
  <2>2. c \notin s /\ SameAt(cache.codebase.entries, m.entries, c)
    BY <1>3, <2>1, InheritanceStays
  <2>3. c \in ClassesOf(cache.codebase.entries) /\ p \in Parents(cache.codebase.entries, c)
    BY <1>3, <2>2 DEF SameAt, ClassesOf, Parents
  <2>4. <<c, p>> \in cache.references.sig
    BY <2>3 DEF IInv, Inherited, Inherits, NamesParents
  <2>5. ASSUME c \in DirtySymbols(hint)
        PROVE  FALSE
    <3>1. c \notin Changed(hint)
      BY <2>2 DEF Covers
    <3>2. PICK f \in Rescanned(hint) : ~ Patch(f) /\ c \in DOMAIN db[f].decls
      BY <2>5, <3>1 DEF DirtySymbols, DeclaredBy
    <3>3. f \in Sources(db)
      BY <3>2, Untouched DEF Sources
    <3>4. c \in OwnedKeys(m, f)
      BY <1>1, <3>2, <3>3, DeclaredIsOwned
    <3> QED
      BY <1>3, <3>2, <3>4 DEF Covers
  <2> QED
    BY <2>4, <2>5 DEF Renews
<1>4. NamesParents(sig, m.entries)
  BY <1>2, <1>3 DEF NamesParents
<1>5. FiniteSources(sig)
  <2> DEFINE before == {x[1] : x \in cache.references.sig}
  <2>1. {x[1] : x \in sig} \in SUBSET (before \cup todo)
    BY DEF Renews
  <2>2. IsFiniteSet(before)
    BY DEF IInv, Inherited, Inherits, FiniteSources
  <2>3. IsFiniteSet(todo)
    BY <1>1, FiniteEntries, FS_Subset DEF IInv, Typed
  <2> HIDE DEF before
  <2>4. IsFiniteSet(before \cup todo)
    BY <2>2, <2>3, FS_Union
  <2> QED
    BY <2>1, <2>4, FS_Subset DEF FiniteSources
<1> QED
  BY <1>4, <1>5

-----------------------------------------------------------------------------
(* The steps.                                                              *)

LEMMA EmptyCacheShape ==
    /\ CacheShape(EmptyCache) /\ DOMAIN EmptyCache.files = {}
    /\ EmptyCache.codebase.issues = {} /\ DOMAIN EmptyCache.codebase.entries = {}
    /\ DOMAIN EmptyCache.codebase.patches = {} /\ StorableCodebase(EmptyCodebase)
<1>1. IsMap(EmptyCodebase)
  BY DEF IsMap, EmptyCodebase
<1>2. CodebaseShape(EmptyCodebase)
  BY <1>1 DEF CodebaseShape, EmptyCodebase
<1>3. EmptyCache.codebase = EmptyCodebase /\ EmptyCodebase.issues = {}
      /\ DOMAIN EmptyCodebase.entries = {} /\ DOMAIN EmptyCodebase.patches = {}
  BY DEF EmptyCache, EmptyCodebase
<1>4. DOMAIN EmptyCache.references = {"sig", "body", "file"} /\ DOMAIN EmptyCache.files = {}
  BY DEF EmptyCache, NoReferences
<1>5. DOMAIN EmptyCache =
         {"codebase", "references", "files", "orphans", "external", "editor"}
  BY DEF EmptyCache
<1> QED
  BY <1>2, <1>3, <1>4, <1>5 DEF CacheShape, StorableCodebase

\* The service is created with nothing in memory.
LEMMA InitEstablishes == Init => IInv
<1> SUFFICES ASSUME Init
             PROVE  IInv
  OBVIOUS
<1>1. Typed
  BY EmptyCacheShape, VersionAssumption DEF Init, Typed, IsMap
<1> QED
  BY <1>1 DEF Init, IInv, Watched, Known, Inherited, EditorKept

\* A full analysis of the files: all classes are populated.
LEMMA FullInherits ==
    ASSUME ~ Conflict(db), \A f \in Files : db[f] \in Versions[f],
           NEW m, m = ApplyPatches(Extend(EmptyCodebase, Present(db), db)), CodebaseShape(m),
           NEW all, all = DOMAIN m.entries
    PROVE  Inherits(Populate(m, all), SignatureReferences(m, all).sig)
<1> DEFINE h == FromAncestors(m.entries)
           cb == Populate(m, all)
           sig == SignatureReferences(m, all).sig
           x == Extend(EmptyCodebase, Present(db), db)
<1>1. Describes(m, db)
  BY FullDescribes
<1>2. IsInheritance(h, m.entries) /\ Acyclic(m.entries)
  BY <1>1, InheritanceExists, AcyclicEntries
<1>3. IsFiniteSet(all) /\ IsFiniteSet(ClassesOf(m.entries))
  BY <1>1, FiniteEntries
<1>4. DOMAIN m.inherits = {}
  <2>1. CodebaseShape(EmptyCodebase) /\ DOMAIN EmptyCodebase.inherits = {}
    BY EmptyCacheShape DEF StorableCodebase, EmptyCodebase
  <2>2. CodebaseShape(x) /\ x.inherits = EmptyCodebase.inherits
    BY <2>1, ExtendParts
  <2>3. m = ApplyPatches(x)
    OBVIOUS
  <2> HIDE DEF x
  <2> QED
    BY <2>1, <2>2, <2>3, ApplyPatchesShape
<1> HIDE DEF h, x
<1>5. \A c \in ClassesOf(m.entries) : c \in all
  BY DEF ClassesOf
<1>6. DOMAIN m.inherits \subseteq ClassesOf(m.entries)
  BY <1>4
<1>7. \A c \in ClassesOf(m.entries) \ all : c \in DOMAIN m.inherits /\ m.inherits[c] = h[c]
  BY <1>5
<1>8. cb.inherits = h
  BY <1>2, <1>3, <1>6, <1>7, PopulateInherits
<1>9. cb.entries = m.entries
  BY PopulateParts
<1>10. NamesParents(sig, m.entries)
  BY <1>5, RecordedReferences DEF NamesParents
<1>11. FiniteSources(sig)
  <2>1. {e[1] : e \in sig} \in SUBSET all
    BY RecordedReferences
  <2> HIDE DEF sig
  <2> QED
    BY <1>3, <2>1, FS_Subset DEF FiniteSources
<1> HIDE DEF cb, sig
<1>12. Inherits(cb, sig)
  BY <1>2, <1>8, <1>9, <1>10, <1>11 DEF Inherits
<1> QED
  BY <1>12 DEF cb, sig

\* A full analysis begins with the files alone.
Staged(d) == [EmptyCache EXCEPT !.files = [f \in Present(d) |-> NoFile]]

LEMMA StagedParts ==
    ASSUME NEW d
    PROVE  /\ Staged(d).editor = {} /\ Staged(d).external = {}
           /\ DOMAIN Staged(d).files = Present(d)
BY DEF Staged, EmptyCache

\* A full analysis takes nothing from before.
LEMMA RebuildKeeps == IInv /\ Rebuild => IInv'
<1> SUFFICES ASSUME IInv, Rebuild
             PROVE  IInv'
  OBVIOUS
<1> DEFINE m == ApplyPatches(Extend(EmptyCodebase, Present(db), db))
           cb == Populate(m, DOMAIN m.entries)
           refs == SignatureReferences(m, DOMAIN m.entries)
<1>1. Finish(Store(Staged(db), cb, refs, db, Present(db), {}), Conflict(db))
  BY DEF Rebuild, FullAnalysis, Staged
<1>2. StorableCodebase(m)
  BY EmptyCacheShape, ExtendStorable DEF IInv, Typed
<1>3. ~ Conflict(db) => Describes(m, db)
  BY FullDescribes
<1>4. StorableCodebase(cb) /\ (~ Conflict(db) => Describes(cb, db))
  BY <1>2, <1>3, PopulateParts DEF StorableCodebase, Describes
<1>5. Conflict(db) \in BOOLEAN
  BY DEF Conflict
<1>6. ~ Conflict(db) => Inherits(cb, refs.sig)
  <2> DEFINE all == DOMAIN m.entries
  <2>1. CodebaseShape(m) /\ \A f \in Files : db[f] \in Versions[f]
    BY <1>2 DEF StorableCodebase, IInv, Typed
  <2> HIDE DEF m, all
  <2>2. ~ Conflict(db) => Inherits(Populate(m, all), SignatureReferences(m, all).sig)
    BY <2>1, FullInherits DEF m, all
  <2> QED
    BY <2>2 DEF all
<1>7. ~ Conflict(db) => ~ Conflict(db) /\ Describes(cb, db) /\ Inherits(cb, refs.sig)
  BY <1>4, <1>6
<1> HIDE DEF cb, refs
<1>8. \A f \in Present(db) \ Present(db) : Remembered(Staged(db), db, f, Conflict(db))
  OBVIOUS
<1>9. HostFiles(db) \cap {} \subseteq Staged(db).editor
  OBVIOUS
<1>10. StorableCodebase(cb) /\ Present(db) \in SUBSET Present(db)
  BY <1>4
<1> HIDE DEF m
<1> QED
  BY <1>1, <1>5, <1>7, <1>8, <1>9, <1>10, FinishKeeps

\* An incremental analysis that scans what changed and skips some of the rest.
LEMMA IncrementalKeeps ==
    ASSUME IInv, Incremental, NEW hint \in {announced, Files}, ~ MustRebuild(hint),
           NEW todo, todo \subseteq DOMAIN MergedCodebase(hint).entries,
           NEW refs, NEW skip \in SUBSET Unchanged(hint),
           ~ conflicted => /\ \E s : Covers(hint, todo, s)
                           /\ Renews(hint, todo, refs.sig),
           Finish(Store(cache, Populate(MergedCodebase(hint), todo), refs, db,
                        Rescanned(hint), skip),
                  conflicted \/ Conflict(db))
    PROVE  IInv'
<1> DEFINE cb == Populate(MergedCodebase(hint), todo)
           conflict == conflicted \/ Conflict(db)
<1>1. initialized /\ ~ needsFullRebuild
  BY DEF Incremental
<1>2. StorableCodebase(MergedCodebase(hint))
  BY <1>1, MergedStorable
<1>3. ~ conflict => Describes(MergedCodebase(hint), db)
  BY <1>1, MergedDescribes
<1>4. /\ StorableCodebase(cb) /\ cb.entries = MergedCodebase(hint).entries
      /\ ~ conflict => ~ Conflict(db) /\ Describes(cb, db)
  BY <1>2, <1>3, PopulateParts DEF StorableCodebase, Describes
<1>10. ASSUME ~ conflict
       PROVE  Inherits(cb, refs.sig)
  <2>1. PICK s : Covers(hint, todo, s)
    BY <1>10
  <2>2. ~ conflicted /\ ~ Conflict(db) /\ Renews(hint, todo, refs.sig)
    BY <1>10
  <2>3. IsInheritance(cb.inherits, MergedCodebase(hint).entries)
    BY <1>1, <2>1, <2>2, IncrementalInherits
  <2>4. NamesParents(refs.sig, MergedCodebase(hint).entries) /\ FiniteSources(refs.sig)
    BY <1>1, <2>1, <2>2, IncrementalNames
  <2> QED
    BY <1>4, <2>3, <2>4 DEF Inherits
<1>5. conflict \in BOOLEAN
  BY DEF Conflict, IInv, Typed
<1>6. Rescanned(hint) \in SUBSET Present(db)
  BY <1>1, Untouched
<1>7. ASSUME NEW f \in Present(db) \ Rescanned(hint)
      PROVE  Remembered(cache, db, f, conflict)
  <2>1. f \in Tracked /\ Seen[f] = db[f] /\ cache.files[f].hash = db[f]
    BY <1>1, Untouched
  <2>2. ~ conflict => cache.files[f].keys = KeysOf(Seen, f)
    BY <1>1, <2>1 DEF IInv, Known
  <2>3. KeysOf(Seen, f) = KeysOf(db, f)
    BY <2>1 DEF KeysOf
  <2> QED
    BY <2>1, <2>2, <2>3 DEF Remembered, Tracked
<1>8. editorArtifacts /\ ~ scanOnly => HostFiles(db) \cap skip \subseteq cache.editor
  <2>1. \A f \in skip : f \in Tracked
    BY <1>1, Untouched DEF Unchanged
  <2> QED
    BY <1>1, <2>1 DEF IInv, EditorKept, HostFiles
<1> HIDE DEF cb, conflict
<1>9. Finish(Store(cache, cb, refs, db, Rescanned(hint), skip), conflict)
  BY DEF cb, conflict
<1> QED
  BY <1>4, <1>5, <1>6, <1>7, <1>8, <1>9, <1>10, FinishKeeps

\* What a scanned file owns.
LEMMA OwnedAreEntries ==
    ASSUME NEW cb, NEW files
    PROVE  UNION {OwnedKeys(cb, f) : f \in files} \subseteq DOMAIN cb.entries
BY DEF OwnedKeys

\* No signature changed: everything that is not scanned again is skipped, and the graph
\* gains what the scanned declarations name.
LEMMA BodiesKeep ==
    ASSUME IInv, NEW hint \in {announced, Files}, AnalyzeIncrementalBodies(hint)
    PROVE  IInv'
<1> DEFINE cb == MergedCodebase(hint)
           fresh == UNION {OwnedKeys(cb, f) : f \in Rescanned(hint)}
           refs1 == RemoveBodyReferences(cache.references, Redeclared(Rescanned(hint)),
                                         Rescanned(hint))
           more == SignatureReferences(cb, fresh)
           refs == ExtendReferences(refs1, more)
<1>1. Incremental /\ ~ MustRebuild(hint) /\ Changed(hint) = {}
  BY DEF AnalyzeIncrementalBodies
<1>2. Finish(Store(cache, Populate(cb, fresh), refs, db, Rescanned(hint), Unchanged(hint)),
             conflicted \/ Conflict(db))
  BY DEF AnalyzeIncrementalBodies, BodyOnlyAnalysis
<1>3. fresh \subseteq DOMAIN cb.entries
  BY OwnedAreEntries
<1>4. Covers(hint, fresh, {})
  BY <1>1 DEF Covers, ClosedUnder
<1>5. refs.sig = cache.references.sig \cup more.sig
  <2>1. refs1.sig = cache.references.sig
    BY DEF RemoveBodyReferences, IInv, Typed, CacheShape
  <2> HIDE DEF refs1, more
  <2> QED
    BY <2>1 DEF ExtendReferences
<1>6. \A x \in more.sig : x[1] \in fresh
  <2> HIDE DEF fresh, cb
  <2> QED
    BY RecordedReferences
<1>7. Renews(hint, fresh, refs.sig)
  <2> HIDE DEF refs, fresh
  <2> QED
    BY <1>5, <1>6 DEF Renews
<1>8. ~ conflicted => (\E s : Covers(hint, fresh, s)) /\ Renews(hint, fresh, refs.sig)
  BY <1>4, <1>7
<1>9. Unchanged(hint) \in SUBSET Unchanged(hint)
  OBVIOUS
<1> HIDE DEF fresh, refs
<1> QED
  BY <1>1, <1>2, <1>3, <1>8, <1>9, IncrementalKeeps

\* Signatures changed: whatever the cascade comes to is populated again, the references of
\* what is dirty are dropped and recorded anew.
LEMMA SignaturesKeep ==
    ASSUME IInv, NEW hint \in {announced, Files}, AnalyzeIncrementalSignatures(hint)
    PROVE  IInv'
<1> DEFINE files == Rescanned(hint)
           cb == MergedCodebase(hint)
           changed == Changed(hint)
           keep == UNION {DOMAIN cache.codebase.signatures[f] : f \in Unchanged(hint)}
           invalid == InvalidSymbols(cache.references, changed)
           marked == MarkSafe(invalid, keep)
           kept == {i \in marked :
                      ~ (/\ i \in Classes(cb)
                         /\ \E p \in ParentIds(cb.entries[i].decl) :
                               p \in changed /\ p \in DOMAIN cb.entries)}
           affected == {f \in Unchanged(hint) :
                          Host(f) /\ ~ CanSkip(kept, invalid.files, f)}
           safe == kept \ Keys(affected)
           refs0 == IF Deleted = {} THEN cache.references
                    ELSE RetainReferencesFromFiles(cache.references, Present(db))
           refs1 == RemoveBodyReferences(RemoveDirtyReferences(refs0, DirtySymbols(hint)),
                                         Keys(affected), {})
           fresh == UNION {OwnedKeys(cb, f) : f \in files}
           todo == fresh \cup
                   {i \in DOMAIN cb.entries :
                      IF i \in Classes(cb) THEN i \notin safe
                      ELSE Host(cb.entries[i].file) /\ {i, Owner(i)} \cap safe = {}}
           skip == {f \in Unchanged(hint) : CanSkip(safe, invalid.files, f)}
           more == SignatureReferences(cb, todo)
           refs2 == RemoveReferencesFromFiles(ExtendReferences(refs1, more),
                                              Present(db) \ skip)
           s == Cascade(cache.references.sig, changed)
<1>1. Incremental /\ ~ MustRebuild(hint)
  BY DEF AnalyzeIncrementalSignatures
<1>2. Finish(Store(cache, Populate(cb, todo), refs2, db, files, skip),
             conflicted \/ Conflict(db))
  BY DEF AnalyzeIncrementalSignatures, SignatureAnalysis
<1>3. skip \in SUBSET Unchanged(hint)
  OBVIOUS
<1>4. s \subseteq invalid.ids
  BY DEF InvalidSymbols
<1>5. safe \subseteq marked /\ \A i \in marked : i \notin invalid.ids
  BY DEF MarkSafe
<1>6. \A c \in Classes(cb) : c \in todo \/ c \in safe
  BY DEF Classes
<1>7. todo \subseteq DOMAIN cb.entries
  BY OwnedAreEntries
<1>8. \A f \in files : OwnedKeys(cb, f) \subseteq todo
  OBVIOUS
<1>9. refs2.sig = EdgesNotFrom(cache.references.sig, DirtySymbols(hint)) \cup more.sig
  <2>1. DOMAIN refs0 = {"sig", "body", "file"} /\ refs0.sig = cache.references.sig
    BY DEF RetainReferencesFromFiles, IInv, Typed, CacheShape
  <2> HIDE DEF refs0, affected
  <2>2. refs1.sig = EdgesNotFrom(cache.references.sig, DirtySymbols(hint))
    BY <2>1 DEF RemoveBodyReferences, RemoveDirtyReferences
  <2> HIDE DEF refs1, more, skip
  <2> QED
    BY <2>2 DEF ExtendReferences, RemoveReferencesFromFiles
<1> HIDE DEF invalid, marked, safe, todo, skip, refs2
<1>10. ASSUME ~ conflicted
       PROVE  Covers(hint, todo, s)
  <2>1. initialized
    BY <1>1 DEF Incremental
  <2>2. IsFiniteSet(changed)
    BY <1>10, <2>1, FiniteChange
  <2>3. IsFiniteSet({e[1] : e \in cache.references.sig})
    BY <1>10, <2>1 DEF IInv, Inherited, Inherits, FiniteSources
  <2>4. changed \subseteq s /\ ClosedUnder(cache.references.sig, s)
    <3> HIDE DEF changed
    <3> QED
      BY <2>2, <2>3, CascadeCloses
  <2>5. \A c \in ClassesOf(cb.entries) : c \in todo \/ c \notin s
    BY <1>4, <1>5, <1>6, InheritFromParts
  <2> HIDE DEF s
  <2> QED
    BY <1>8, <2>4, <2>5 DEF Covers
<1>11. Renews(hint, todo, refs2.sig)
  <2>1. \A x \in more.sig : x[1] \in todo
    <3> HIDE DEF cb
    <3> QED
      BY RecordedReferences
  <2> QED
    BY <1>9, <2>1 DEF Renews, EdgesNotFrom
<1>12. ~ conflicted => (\E t : Covers(hint, todo, t)) /\ Renews(hint, todo, refs2.sig)
  <2> HIDE DEF s
  <2> QED
    BY <1>10, <1>11
<1> HIDE DEF s
<1> QED
  BY <1>1, <1>2, <1>3, <1>7, <1>12, IncrementalKeeps

\* Between two calls the files change, and the switches are set.
LEMMA SettingsKeep ==
    ASSUME IInv,
           \/ \E f \in Files : \E content \in Versions[f] : UpdateDatabase(f, content)
           \/ SetScanOnly
           \/ SetEditorArtifacts
    PROVE  IInv'
<1>1. ASSUME NEW f \in Files, NEW content \in Versions[f], UpdateDatabase(f, content)
      PROVE  IInv'
  <2>1. /\ db' = [db EXCEPT ![f] = content] /\ announced' = announced \cup {f}
        /\ UNCHANGED <<cache, initialized, needsFullRebuild, scanOnly,
                       editorArtifacts, conflicted>>
    BY <1>1 DEF UpdateDatabase
  <2>2. FileType[f] # "Builtin"
    BY <1>1, BuiltinAssumption DEF UpdateDatabase, IInv, Typed
  <2>6. Typed'
    BY <2>1, <2>2 DEF IInv, Typed, IsMap
  <2>3. Seen' = Seen /\ Tracked' = Tracked
    BY <2>1 DEF Seen, Tracked
  <2>4. Watched'
    BY <2>1, <2>3 DEF IInv, Watched, Typed
  <2>5. Known' /\ Inherited' /\ EditorKept'
    BY <2>1, <2>3 DEF IInv, Known, Inherited, EditorKept
  <2> QED
    BY <2>4, <2>5, <2>6 DEF IInv
<1>2. CASE SetScanOnly \/ SetEditorArtifacts
  <2>1. /\ cache' = [cache EXCEPT !.editor = {}]
        /\ UNCHANGED <<db, announced, initialized, conflicted>>
        /\ scanOnly' \in BOOLEAN /\ editorArtifacts' \in BOOLEAN
        /\ needsFullRebuild' \in BOOLEAN
        /\ editorArtifacts' /\ ~ scanOnly' /\ initialized => needsFullRebuild'
    BY <1>2 DEF SetScanOnly, SetEditorArtifacts, IInv, Typed
  <2>2. /\ CacheShape(cache') /\ cache'.files = cache.files
        /\ cache'.codebase = cache.codebase /\ cache'.references = cache.references
    BY <2>1 DEF IInv, Typed, CacheShape
  <2>3. Typed'
    BY <2>1, <2>2 DEF IInv, Typed
  <2>4. Tracked' = Tracked
    BY <2>2 DEF Tracked
  <2>5. Seen' = Seen
    BY <2>2, <2>4 DEF Seen
  <2>6. Watched' /\ Known' /\ Inherited' /\ EditorKept'
    BY <2>1, <2>2, <2>4, <2>5 DEF IInv, Watched, Known, Inherited, EditorKept
  <2> QED
    BY <2>3, <2>6 DEF IInv
<1> QED
  BY <1>1, <1>2

\* When a plugin fails, nothing is left of the analysis.
LEMMA FailKeeps == IInv /\ Fail => IInv'
<1> SUFFICES ASSUME IInv, Fail
             PROVE  IInv'
  OBVIOUS
<1>1. Typed'
  BY EmptyCacheShape DEF Fail, IInv, Typed
<1> QED
  BY <1>1 DEF Fail, IInv, Watched, Known, Inherited, EditorKept

\* A call that finds nothing to do has seen everything there is.
LEMMA UnchangedKeeps ==
    ASSUME IInv, NEW hint \in {announced, Files}, AnalyzeIncrementalUnchanged(hint)
    PROVE  IInv'
<1>1. /\ announced' = {} /\ initialized
      /\ UNCHANGED <<db, cache, initialized, needsFullRebuild, scanOnly,
                     editorArtifacts, conflicted>>
      /\ ContentChanged(hint) = {} /\ Deleted = {}
  BY DEF AnalyzeIncrementalUnchanged, Incremental, NothingChanged
<1>2. \A f \in Present(db) : f \in Tracked /\ Seen[f] = db[f]
  BY <1>1, Untouched
<1>3. ASSUME NEW f \in Files \ Present(db)
      PROVE  Seen[f] = db[f]
  BY <1>1 DEF Seen, Deleted, Present
<1>4. Seen' = Seen /\ Tracked' = Tracked
  BY <1>1 DEF Seen, Tracked
<1>5. Watched'
  BY <1>1, <1>2, <1>3, <1>4 DEF IInv, Watched
<1>6. Typed' /\ Known' /\ Inherited' /\ EditorKept'
  BY <1>1, <1>4 DEF IInv, Typed, Known, Inherited, EditorKept
<1> QED
  BY <1>5, <1>6 DEF IInv

\* Every step keeps the invariant.
LEMMA StepKeeps == IInv /\ [Next]_vars => IInv'
<1> SUFFICES ASSUME IInv, [Next]_vars
             PROVE  IInv'
  OBVIOUS
<1>1. CASE \/ \E f \in Files : \E content \in Versions[f] : UpdateDatabase(f, content)
           \/ SetScanOnly
           \/ SetEditorArtifacts
  BY <1>1, SettingsKeep
<1>2. CASE Rebuild
  BY <1>2, RebuildKeeps
<1>3. CASE Fail
  BY <1>3, FailKeeps
<1>4. ASSUME NEW hint \in {announced, Files},
             \/ AnalyzeIncrementalUnchanged(hint)
             \/ AnalyzeIncrementalFallback(hint)
             \/ AnalyzeIncrementalBodies(hint)
             \/ AnalyzeIncrementalSignatures(hint)
             \/ AnalyzeIncrementalFails(hint)
      PROVE  IInv'
  <2>1. CASE AnalyzeIncrementalUnchanged(hint)
    BY <2>1, UnchangedKeeps
  <2>2. CASE AnalyzeIncrementalFallback(hint)
    BY <1>2, <2>2 DEF AnalyzeIncrementalFallback
  <2>3. CASE AnalyzeIncrementalBodies(hint)
    BY <2>3, BodiesKeep
  <2>4. CASE AnalyzeIncrementalSignatures(hint)
    BY <2>4, SignaturesKeep
  <2>5. CASE AnalyzeIncrementalFails(hint)
    BY <1>3, <2>5 DEF AnalyzeIncrementalFails
  <2> QED
    BY <1>4, <2>1, <2>2, <2>3, <2>4, <2>5
<1>5. CASE UNCHANGED vars
  <2>1. Seen' = Seen /\ Tracked' = Tracked
    BY <1>5 DEF vars, Seen, Tracked
  <2> QED
    BY <1>5, <2>1 DEF vars, IInv, Typed, Watched, Known, Inherited, EditorKept
<1> QED
  BY <1>1, <1>2, <1>3, <1>4, <1>5
     DEF Next, Analyze, AnalyzeFails, AnalyzeIncrementalRebuild, AnalyzeIncrementalRefused

\* What is in memory between two calls is the code base, the keys and the editor data of
\* the contents that were seen, whatever changed and whatever was called since the start.
THEOREM MemoryIsOfWhatWasSeen == Spec => []IInv
<1>1. Init => IInv
  BY InitEstablishes
<1>2. IInv /\ [Next]_vars => IInv'
  BY StepKeeps
<1> QED
  BY <1>1, <1>2, PTL DEF Spec

-----------------------------------------------------------------------------
(* The properties.                                                         *)

\* The types of the variables; no issue of the scanner is handed out twice.
THEOREM AnalysisTyped == Spec => []TypeOK
<1>1. IInv => TypeOK
  BY DEF IInv, Typed, TypeOK
<1> QED
  BY <1>1, MemoryIsOfWhatWasSeen, PTL

\* Editor data: once the service is settled with them enabled, every host file has its
\* data and no other file has, although skipped files are not analysed again.
THEOREM EditorDataKept == Spec => []EditorDataIsComplete
<1>1. IInv => EditorDataIsComplete
  <2> SUFFICES ASSUME IInv, Settled, editorArtifacts, ~ scanOnly
               PROVE  cache.editor = {f \in Present(db) : Host(f)}
    BY DEF EditorDataIsComplete
  <2>1. cache.editor = {f \in Tracked : Host(f)}
    BY DEF IInv, EditorKept, Settled
  <2>2. Tracked = Present(db)
    <3>1. \A f \in Files : Seen[f] = db[f]
      BY DEF IInv, Watched, Settled
    <3>2. Present(Seen) = Tracked
      BY Untouched DEF Settled
    <3> QED
      BY <3>1, <3>2 DEF Present
  <2> QED
    BY <2>1, <2>2
<1> QED
  BY <1>1, MemoryIsOfWhatWasSeen, PTL

\* The code base of a full analysis.
LEMMA FullCodebase ==
    ASSUME IInv, ~ Conflict(db), NEW r, r = FullAnalysis(db)
    PROVE  /\ CodebaseShape(r.codebase) /\ Describes(r.codebase, db)
           /\ IsInheritance(r.codebase.inherits, r.codebase.entries)
           /\ r.codebase.issues = {}
<1> DEFINE m == ApplyPatches(Extend(EmptyCodebase, Present(db), db))
           all == DOMAIN m.entries
           cb == Populate(m, all)
           refs == SignatureReferences(m, all)
<1>1. r = Store(Staged(db), cb, refs, db, Present(db), {})
  BY DEF FullAnalysis, Staged
<1>2. StorableCodebase(m) /\ Describes(m, db)
  BY EmptyCacheShape, ExtendStorable, FullDescribes DEF IInv, Typed
<1>3. CodebaseShape(cb) /\ Describes(cb, db)
  BY <1>2, PopulateParts DEF StorableCodebase, Describes
<1>4. IsInheritance(cb.inherits, cb.entries)
  <2>1. CodebaseShape(m) /\ \A f \in Files : db[f] \in Versions[f]
    BY <1>2 DEF StorableCodebase, IInv, Typed
  <2> HIDE DEF m, all
  <2>2. Inherits(Populate(m, all), SignatureReferences(m, all).sig)
    BY <2>1, FullInherits DEF m, all
  <2> QED
    BY <2>2 DEF Inherits
<1> HIDE DEF cb, refs
<1>5. Stores(r, Staged(db), cb, refs, db, Present(db), {})
  BY <1>1, <1>3, StoreParts
<1>6. CodebaseShape(r.codebase)
  BY <1>5 DEF Stores, CacheShape
<1>7. Describes(r.codebase, db) /\ r.codebase.issues = {}
  BY <1>3, <1>5 DEF Stores, Describes
<1>8. IsInheritance(r.codebase.inherits, r.codebase.entries)
  BY <1>4, <1>5 DEF Stores
<1> QED
  BY <1>6, <1>7, <1>8

\* A code base is its parts, and its entries say what its classes inherit.
LEMMA SameCodebase ==
    ASSUME NEW d, ~ Conflict(d),
           NEW a, CodebaseShape(a), Describes(a, d), IsInheritance(a.inherits, a.entries),
           NEW b, CodebaseShape(b), Describes(b, d), IsInheritance(b.inherits, b.entries),
           a.issues = b.issues
    PROVE  a = b
<1>1. a.entries = b.entries /\ a.patches = b.patches /\ a.signatures = b.signatures
  BY DescribedOnce
<1>2. a.inherits = b.inherits
  BY <1>1, AcyclicEntries, InheritedOnce
<1>3. \A x \in {"entries", "signatures", "inherits", "patches", "issues"} : a[x] = b[x]
  BY <1>1, <1>2
<1> QED
  BY <1>3 DEF CodebaseShape, IsMap

\* Once the service is settled, what was seen is the database.
LEMMA SettledSeen ==
    ASSUME IInv, Settled
    PROVE  Seen = db
<1>1. \A f \in Files : Seen[f] = db[f]
  BY DEF IInv, Watched, Settled
<1>2. IsMap(Seen) /\ DOMAIN Seen = Files
  BY DEF Seen, IsMap
<1>3. IsMap(db) /\ DOMAIN db = Files
  BY DEF IInv, Typed
<1> QED
  BY <1>1, <1>2, <1>3 DEF IsMap

LEMMA SettledCodebase ==
    ASSUME IInv, Settled, ~ conflicted
    PROVE  ~ Conflict(db) /\ cache.codebase = FullAnalysis(db).codebase
<1> DEFINE c == cache.codebase
           r == FullAnalysis(db)
<1>1. ~ Conflict(db) /\ Describes(c, db)
  BY SettledSeen DEF IInv, Known, Settled
<1>2. IsInheritance(c.inherits, c.entries)
  BY DEF IInv, Inherited, Inherits, Settled
<1>3. CodebaseShape(c) /\ c.issues = {}
  BY DEF IInv, Typed, CacheShape
<1> HIDE DEF c, r
<1>4. /\ CodebaseShape(r.codebase) /\ Describes(r.codebase, db)
      /\ IsInheritance(r.codebase.inherits, r.codebase.entries)
      /\ r.codebase.issues = {}
  BY <1>1, FullCodebase DEF r
<1>5. c = r.codebase
  BY <1>1, <1>2, <1>3, <1>4, SameCodebase
<1> QED
  BY <1>1, <1>5 DEF c, r

\* As long as no order decides, the code base that stays in memory from update to update
\* is the one a full analysis of the files, the built-in ones included, would build: the declarations, each with its owner and its patch, what each
\* class has inherited, the signatures and the patches, whatever was rescanned, removed,
\* merged and populated again in between.
THEOREM CodebaseIsThatOfAFullAnalysis == Spec => []CodebaseMatchesFull
<1>1. IInv => CodebaseMatchesFull
  BY SettledCodebase DEF CodebaseMatchesFull
<1> QED
  BY <1>1, MemoryIsOfWhatWasSeen, PTL
-----------------------------------------------------------------------------
(* Two code bases that agree, but for some items.                          *)

\* What a declaration names.
Names(decl) == decl.uses \cup ParentIds(decl)

\* Outside s the code bases a and b have the same items, which name nothing in s and
\* inherit nothing from a class in s.
Agree(a, b, s) ==
    /\ \A i : i \notin s => SameAt(a.entries, b.entries, i)
    /\ \A c : c \notin s => SameAt(a.inherits, b.inherits, c)
    /\ \A i \in s : Owner(i) \in s
    /\ \A i \in DOMAIN a.entries : i \notin s => Names(a.entries[i].decl) \cap s = {}
    /\ \A c \in DOMAIN a.inherits : c \notin s => \A x \in a.inherits[c] : Owner(x[1]) \notin s

\* It is so in either direction.
LEMMA AgreeBack ==
    ASSUME NEW a, NEW b, NEW s, Agree(a, b, s)
    PROVE  Agree(b, a, s)
BY DEF Agree, SameAt

\* A code base with the same items agrees everywhere.
LEMMA AgreeEverywhere ==
    ASSUME NEW a, NEW b, a.entries = b.entries, a.inherits = b.inherits
    PROVE  Agree(a, b, {})
BY DEF Agree, SameAt

\* The class of a use and what this class inherits from.
Lineage(cb, class) ==
    {class} \cup {x[1] : x \in UNION {cb.inherits[c] : c \in {class} \cap DOMAIN cb.inherits}}

\* The references recorded for a use, one by one.
LEMMA RecordedMembers ==
    ASSUME NEW cb, NEW t, NEW r
    PROVE  r \in Recorded(cb, t) <=>
              \/ r = Owner(t)
              \/ /\ IsMember(t) /\ r \in DOMAIN cb.entries
                 /\ \E h \in Lineage(cb, Owner(t)) : r = <<h[1], t[2]>>
BY DEF Recorded, Lineage

\* An item that inherits from nothing in s does not meet s there.
LEMMA SameHeirs ==
    ASSUME NEW a, NEW b, NEW s, Agree(a, b, s), NEW class, class \notin s,
           class = Symbol(class[1])
    PROVE  /\ Lineage(a, class) = Lineage(b, class)
           /\ \A h \in Lineage(a, class) : Owner(h) \notin s
<1>1. SameAt(a.inherits, b.inherits, class)
  BY DEF Agree
<1>2. {class} \cap DOMAIN a.inherits = {class} \cap DOMAIN b.inherits
  BY <1>1 DEF SameAt
<1>3. Lineage(a, class) = Lineage(b, class)
  BY <1>1, <1>2 DEF SameAt, Lineage
<1>4. \A h \in Lineage(a, class) : Owner(h) \notin s
  BY DEF Lineage, Agree, Owner
<1> QED
  BY <1>3, <1>4

\* The references recorded for a use of a class that is not in s are the same.
LEMMA SameRecorded ==
    ASSUME NEW a, NEW b, NEW s, Agree(a, b, s), NEW t, Owner(t) \notin s
    PROVE  Recorded(a, t) = Recorded(b, t)
<1>1. Owner(t) = Symbol(Owner(t)[1])
  BY DEF Owner, Symbol
<1>2. /\ Lineage(a, Owner(t)) = Lineage(b, Owner(t))
      /\ \A h \in Lineage(a, Owner(t)) : Owner(h) \notin s
  BY <1>1, SameHeirs
<1>3. ASSUME NEW h \in Lineage(a, Owner(t))
      PROVE  <<h[1], t[2]>> \in DOMAIN a.entries <=> <<h[1], t[2]>> \in DOMAIN b.entries
  <2>1. Owner(<<h[1], t[2]>>) = Owner(h)
    BY DEF Owner
  <2>2. <<h[1], t[2]>> \notin s
    BY <1>2, <2>1 DEF Agree
  <2> QED
    BY <2>2 DEF Agree, SameAt
<1>4. \A r : r \in Recorded(a, t) <=> r \in Recorded(b, t)
  BY <1>2, <1>3, RecordedMembers
<1> QED
  BY <1>4

\* The references of an analysis, one by one.
LEMMA AnalysisMembers ==
    ASSUME NEW cb, NEW f, NEW content, NEW m, m = AnalysisReferences(cb, f, content), NEW x
    PROVE  /\ x \in m.sig <=>
                 \E c \in Classes(cb) \cap OwnedKeys(cb, f) : \E y \in cb.inherits[c] :
                    ~ IsMember(y[1]) /\ x = <<c, y[1]>>
           /\ x \in m.body <=>
                 \E o \in DOMAIN content.body : \E t \in content.body[o] :
                    \E r \in Recorded(cb, t) : x = <<o, r>>
           /\ x \in m.file <=>
                 \E t \in content.top : \E r \in Recorded(cb, t) : x = <<f, r>>
<1>1. x \in m.sig <=>
         \E c \in Classes(cb) \cap OwnedKeys(cb, f) : \E y \in cb.inherits[c] :
            ~ IsMember(y[1]) /\ x = <<c, y[1]>>
  BY DEF AnalysisReferences
<1>2. x \in m.body <=>
         \E o \in DOMAIN content.body : \E t \in content.body[o] :
            \E r \in Recorded(cb, t) : x = <<o, r>>
  BY DEF AnalysisReferences
<1>3. x \in m.file <=>
         \E t \in content.top : \E r \in Recorded(cb, t) : x = <<f, r>>
  BY DEF AnalysisReferences
<1> QED
  BY <1>1, <1>2, <1>3

\* The uses in the bodies and in the top-level code of a file.
UsesOf(content) == content.top \cup BodyTargets(content)

\* Nothing that the file declares or uses is in s.
Avoids(cb, f, content, s) ==
    /\ OwnedKeys(cb, f) \cap s = {}
    /\ \A t \in UsesOf(content) : Owner(t) \notin s

\* The edges of a graph with these parts.
SameEdges(m, n) == m.sig = n.sig /\ m.body = n.body /\ m.file = n.file

\* The analysis of a file that avoids s records the same in both code bases.
LEMMA SameAnalysis ==
    ASSUME NEW a, NEW b, NEW s, Agree(a, b, s), NEW f, NEW content, Avoids(a, f, content, s),
           OwnedKeys(a, f) = OwnedKeys(b, f),
           DOMAIN a.inherits = ClassesOf(a.entries), DOMAIN b.inherits = ClassesOf(b.entries)
    PROVE  SameEdges(AnalysisReferences(a, f, content), AnalysisReferences(b, f, content))
<1> DEFINE m == AnalysisReferences(a, f, content)
           n == AnalysisReferences(b, f, content)
           owned == OwnedKeys(a, f)
<1>1. Classes(a) = DOMAIN a.inherits /\ Classes(b) = DOMAIN b.inherits
  BY DEF Classes, ClassesOf
<1>2. \A c \in owned : SameAt(a.inherits, b.inherits, c)
  BY DEF Agree, Avoids
<1>3. \A o \in DOMAIN content.body : \A t \in content.body[o] : Recorded(a, t) = Recorded(b, t)
  BY SameRecorded DEF Avoids, UsesOf, BodyTargets
<1>4. \A t \in content.top : Recorded(a, t) = Recorded(b, t)
  BY SameRecorded DEF Avoids, UsesOf
<1>5. owned = OwnedKeys(b, f)
  OBVIOUS
<1> HIDE DEF owned
<1>6. \A x : x \in m.sig <=>
         \E c \in DOMAIN a.inherits \cap owned : \E y \in a.inherits[c] :
            ~ IsMember(y[1]) /\ x = <<c, y[1]>>
  BY <1>1, AnalysisMembers DEF owned
<1>7. \A x : x \in n.sig <=>
         \E c \in DOMAIN b.inherits \cap owned : \E y \in b.inherits[c] :
            ~ IsMember(y[1]) /\ x = <<c, y[1]>>
  BY <1>1, <1>5, AnalysisMembers
<1>8. \A x : /\ x \in m.body <=> \E o \in DOMAIN content.body : \E t \in content.body[o] :
                                    \E r \in Recorded(a, t) : x = <<o, r>>
             /\ x \in m.file <=> \E t \in content.top : \E r \in Recorded(a, t) : x = <<f, r>>
  BY AnalysisMembers
<1>9. \A x : /\ x \in n.body <=> \E o \in DOMAIN content.body : \E t \in content.body[o] :
                                    \E r \in Recorded(b, t) : x = <<o, r>>
             /\ x \in n.file <=> \E t \in content.top : \E r \in Recorded(b, t) : x = <<f, r>>
  BY AnalysisMembers
<1> HIDE DEF m, n
<1>10. \A x : x \in m.sig <=> x \in n.sig
  BY <1>2, <1>6, <1>7 DEF SameAt
<1>11. \A x : x \in m.body <=> x \in n.body
  BY <1>3, <1>8, <1>9
<1>12. \A x : x \in m.file <=> x \in n.file
  BY <1>4, <1>8, <1>9
<1>13. m.sig = n.sig
  BY <1>10
<1>14. m.body = n.body
  BY <1>11
<1>15. m.file = n.file
  BY <1>12
<1> QED
  BY <1>13, <1>14, <1>15 DEF SameEdges, m, n

\* What a reader of i comes to next.
Leads(cb, i, u) ==
    /\ i \in DOMAIN cb.entries
    /\ \/ u \in Names(cb.entries[i].decl)
       \/ u \in DOMAIN cb.entries /\ IsMember(u) /\ Owner(u) = i
       \/ i \in DOMAIN cb.inherits /\ \E x \in cb.inherits[i] : u = x[1]

LEMMA DependencyMembers ==
    ASSUME NEW cb
    PROVE  /\ \A e \in Dependencies(cb) : e = <<e[1], e[2]>> /\ Leads(cb, e[1], e[2])
           /\ \A i, u : Leads(cb, i, u) => <<i, u>> \in Dependencies(cb)
<1> DEFINE next(i) == cb.entries[i].decl.uses \cup ParentIds(cb.entries[i].decl)
                        \cup Members(cb, i)
                        \cup {x[1] : x \in UNION {cb.inherits[c] :
                                 c \in {i} \cap DOMAIN cb.inherits}}
<1>1. Dependencies(cb) = UNION {{i} \X next(i) : i \in DOMAIN cb.entries}
  BY DEF Dependencies
<1>2. \A i \in DOMAIN cb.entries : \A u : u \in next(i) <=> Leads(cb, i, u)
  BY DEF Leads, Names, Members
<1> HIDE DEF next
<1>3. \A e \in Dependencies(cb) : e = <<e[1], e[2]>> /\ Leads(cb, e[1], e[2])
  BY <1>1, <1>2
<1>4. ASSUME NEW i, NEW u, Leads(cb, i, u)
      PROVE  <<i, u>> \in Dependencies(cb)
  <2>1. i \in DOMAIN cb.entries /\ u \in next(i)
    BY <1>2, <1>4 DEF Leads
  <2> QED
    BY <1>1, <2>1
<1> QED
  BY <1>3, <1>4

\* From outside s a reader comes to the same items, and to none in s.
LEMMA SameLeads ==
    ASSUME NEW a, NEW b, NEW s, Agree(a, b, s), NEW i, i \notin s, NEW u, Leads(a, i, u)
    PROVE  Leads(b, i, u) /\ u \notin s
<1>1. SameAt(a.entries, b.entries, i) /\ SameAt(a.inherits, b.inherits, i)
  BY DEF Agree
<1>2. CASE u \in Names(a.entries[i].decl)
  BY <1>1, <1>2 DEF Leads, Agree, SameAt
<1>3. CASE u \in DOMAIN a.entries /\ IsMember(u) /\ Owner(u) = i
  <2>1. u \notin s
    BY <1>3 DEF Agree
  <2> QED
    BY <1>1, <1>3, <2>1 DEF Leads, Agree, SameAt
<1>4. CASE i \in DOMAIN a.inherits /\ \E x \in a.inherits[i] : u = x[1]
  <2>1. Owner(u) \notin s
    BY <1>4 DEF Agree
  <2> QED
    BY <1>1, <1>4, <2>1 DEF Leads, Agree, SameAt
<1> QED
  BY <1>2, <1>3, <1>4 DEF Leads

\* Along the edges nothing leads out of s.
Follows(edges, s) == \A e \in edges : e[1] \in s => e[2] \in s

\* Reach finds the smallest set with the start from which nothing leads away.
LEMMA ReachIsLeast ==
    ASSUME NEW edges, NEW ids, IsFiniteSet(ids), IsFiniteSet({e[2] : e \in edges})
    PROVE  /\ ids \subseteq Reach(edges, ids) /\ Follows(edges, Reach(edges, ids))
           /\ \A s : ids \subseteq s /\ Follows(edges, s) => Reach(edges, ids) \subseteq s
<1> DEFINE targets == {e[2] : e \in edges}
           U == ids \cup targets
           Next1(s) == s \cup {e[2] : e \in {x \in edges : x[1] \in s}}
           step == [s \in SUBSET U |-> Next1(s)]
           Eq(g) == g = [s \in SUBSET U |->
                           LET t == s \cup {e[2] : e \in {x \in edges : x[1] \in s}}
                           IN  IF t = s THEN s ELSE g[t]]
           grow == CHOOSE g : Eq(g)
           r == Reach(edges, ids)
<1>1. IsFiniteSet(U) /\ ids \in SUBSET U
  <2> HIDE DEF targets
  <2> QED
    BY FS_Union DEF targets
<1>2. \A g : Eq(g) <=> Iterates(g, step, U)
  BY DEF Iterates
<1>3. r = grow[ids]
  BY DEF Reach
<1>4. \A s \in SUBSET U : Next1(s) \in SUBSET U
  OBVIOUS
<1>5. \A s, c : s \subseteq c => Next1(s) \subseteq Next1(c)
  OBVIOUS
<1>6. \A s : s \subseteq Next1(s) /\ (Next1(s) = s <=> Follows(edges, s))
  BY DEF Follows
<1> HIDE DEF U, Next1
<1>7. Expands(step, U)
  BY <1>4, <1>5, <1>6 DEF Expands
<1>8. \A s \in SUBSET U : step[s] = Next1(s)
  OBVIOUS
<1> HIDE DEF step
<1>9. Iterates(grow, step, U)
  <2>1. Eq(grow)
    BY <1>2, <1>7, IterationExists
  <2> HIDE DEF grow
  <2> QED
    BY <1>2, <2>1
<1> HIDE DEF grow, Eq
<1>10. ClosesIn(r, step, U, ids)
  BY <1>1, <1>3, <1>7, <1>9, IterationCloses
<1> HIDE DEF r
<1>11. ids \subseteq r /\ r \in SUBSET U /\ Follows(edges, r)
  BY <1>6, <1>8, <1>10 DEF ClosesIn
<1>12. ASSUME NEW s, ids \subseteq s, Follows(edges, s)
       PROVE  r \subseteq s
  <2> DEFINE c == s \cap U
  <2>1. Follows(edges, U)
    BY DEF U, Follows
  <2>2. Follows(edges, c)
    BY <1>12, <2>1 DEF Follows
  <2>3. ids \subseteq c /\ c \in SUBSET U
    BY <1>1, <1>12
  <2> HIDE DEF c
  <2>4. step[c] = c
    BY <1>6, <1>8, <2>2, <2>3
  <2>5. r \subseteq c
    BY <1>10, <2>3, <2>4 DEF ClosesIn
  <2> QED
    BY <2>5 DEF c
<1> QED
  BY <1>11, <1>12 DEF r

\* The edges from which an analysis reads come to finitely many items.
FiniteReading(cb) == IsFiniteSet({e[2] : e \in Dependencies(cb)})

\* What is reached in one code base is reached in the other, and is not in s.
LEMMA ReachWithin ==
    ASSUME NEW a, NEW b, NEW s, Agree(a, b, s), NEW start, start \cap s = {},
           IsFiniteSet(start), FiniteReading(a), FiniteReading(b)
    PROVE  Reach(Dependencies(a), start) \subseteq Reach(Dependencies(b), start) \ s
<1> DEFINE r == Reach(Dependencies(b), start)
           x == r \ s
<1>1. start \subseteq r /\ Follows(Dependencies(b), r)
  BY ReachIsLeast DEF FiniteReading
<1> HIDE DEF r
<1>2. ASSUME NEW e \in Dependencies(a), e[1] \in x
      PROVE  e[2] \in x
  <2>1. Leads(a, e[1], e[2])
    BY DependencyMembers
  <2>2. Leads(b, e[1], e[2]) /\ e[2] \notin s
    BY <1>2, <2>1, SameLeads
  <2>3. <<e[1], e[2]>> \in Dependencies(b)
    BY <2>2, DependencyMembers
  <2>4. e[2] \in r
    BY <1>1, <1>2, <2>3 DEF Follows
  <2> QED
    BY <2>2, <2>4
<1>3. Follows(Dependencies(a), x)
  <2> HIDE DEF x
  <2> QED
    BY <1>2 DEF Follows
<1>4. start \subseteq x
  BY <1>1
<1> HIDE DEF x
<1>5. Reach(Dependencies(a), start) \subseteq x
  BY <1>3, <1>4, ReachIsLeast DEF FiniteReading
<1> QED
  BY <1>5 DEF x, r

\* The analysis of a file that avoids s reads the same in both code bases.
LEMMA SameIssues ==
    ASSUME NEW a, NEW b, NEW s, Agree(a, b, s), FiniteReading(a), FiniteReading(b),
           NEW content, NEW start, start = StartOf(content),
           start \cap s = {}, IsFiniteSet(start),
           ExternalReferences(a) = ExternalReferences(b)
    PROVE  FileIssues(a, Dependencies(a), content) = FileIssues(b, Dependencies(b), content)
<1> DEFINE ra == Reach(Dependencies(a), start)
           rb == Reach(Dependencies(b), start)
<1>1. Agree(b, a, s)
  BY AgreeBack
<1>2. ra \subseteq rb \ s /\ rb \subseteq ra \ s
  BY <1>1, ReachWithin
<1>3. ASSUME NEW i, i \notin s
      PROVE  View(a, i) = View(b, i)
  <2>1. SameAt(a.entries, b.entries, i) /\ SameAt(a.inherits, b.inherits, i)
    BY <1>3 DEF Agree
  <2>2. UNION {a.inherits[c] : c \in {i} \cap DOMAIN a.inherits}
          = UNION {b.inherits[c] : c \in {i} \cap DOMAIN b.inherits}
    BY <2>1 DEF SameAt
  <2> QED
    BY <2>1, <2>2 DEF View, SameAt
<1>4. /\ FileIssues(a, Dependencies(a), content) =
            [content |-> content, read |-> {View(a, i) : i \in ra},
             external |-> ExternalReferences(a)]
      /\ FileIssues(b, Dependencies(b), content) =
            [content |-> content, read |-> {View(b, i) : i \in rb},
             external |-> ExternalReferences(b)]
  BY DEF FileIssues
<1> HIDE DEF ra, rb
<1>5. ra = rb /\ \A i \in ra : View(a, i) = View(b, i)
  BY <1>2, <1>3
<1>6. {View(a, i) : i \in ra} = {View(b, i) : i \in rb}
  BY <1>5
<1> QED
  BY <1>4, <1>6

\* The graph has an edge from each declaration to what it names.
NamesAll(sig, e) == \A i \in DOMAIN e : \A u \in Names(e[i].decl) : <<i, u>> \in sig

\* Whatever a class inherits is an item of an ancestor.
LEMMA InheritedItems ==
    ASSUME NEW e, Acyclic(e), NEW h, IsInheritance(h, e), NEW c \in ClassesOf(e), NEW x \in h[c]
    PROVE  \E p \in Ancestors(e, c) : x \in Items(e, p)
<1>1. h = FromAncestors(e)
  BY InheritanceExists, InheritedOnce
<1>2. h[c] = UNION {Items(e, p) : p \in Ancestors(e, c)}
  BY <1>1 DEF FromAncestors
<1> QED
  BY <1>2

\* No ancestor of a class outside s is in s.
LEMMA AncestorsAvoid ==
    ASSUME NEW e, NEW sig, NamesParents(sig, e), NEW s, ClosedUnder(sig, s),
           NEW c \in ClassesOf(e), c \notin s, NEW p \in Ancestors(e, c)
    PROVE  p \notin s /\ Owner(p) = p /\ p \in AllParents(e)
<1> DEFINE t == {q \in AllParents(e) : q \notin s}
<1>1. \A q \in ClassesOf(e) : q \notin s => Parents(e, q) \subseteq t
  <2>1. ASSUME NEW q \in ClassesOf(e), q \notin s, NEW r \in Parents(e, q)
        PROVE  r \in AllParents(e) /\ r \notin s
    <3>1. <<q, r>> \in sig
      BY <2>1 DEF NamesParents
    <3>2. <<q, r>>[1] = q /\ <<q, r>>[2] = r
      OBVIOUS
    <3> QED
      BY <2>1, <3>1, <3>2 DEF ClosedUnder, AllParents
  <2> QED
    BY <2>1
<1>2. Upward(e, t) /\ t \in SUBSET AllParents(e)
  BY <1>1 DEF Upward
<1>3. Parents(e, c) \subseteq t
  BY <1>1
<1> HIDE DEF t
<1>4. p \in t
  BY <1>2, <1>3 DEF Ancestors
<1>5. p \in AllParents(e) /\ p \notin s
  BY <1>4 DEF t
<1>6. Owner(p) = p
  <2>1. PICK n : p = Symbol(n)
    BY <1>5 DEF AllParents, Parents, ParentIds
  <2> QED
    BY <2>1 DEF Owner, Symbol
<1> QED
  BY <1>5, <1>6

\* The items inherited by a class outside s belong to no class in s.
LEMMA HeirsAvoid ==
    ASSUME NEW e, Acyclic(e), NEW h, IsInheritance(h, e), NEW sig, NamesParents(sig, e),
           NEW s, ClosedUnder(sig, s), NEW c \in ClassesOf(e), c \notin s, NEW x \in h[c]
    PROVE  Owner(x[1]) \notin s
<1>1. PICK p \in Ancestors(e, c) : x \in Items(e, p)
  BY InheritedItems
<1>2. p \notin s /\ Owner(p) = p
  BY AncestorsAvoid
<1>3. Owner(x[1]) = p
  BY <1>1, <1>2 DEF Items, MembersOf
<1> QED
  BY <1>2, <1>3

\* Outside a set that is closed in the graph two code bases agree if their items do.
LEMMA ClosedAgree ==
    ASSUME NEW a, NEW b, NEW sig, NEW s, ClosedUnder(sig, s), NamesAll(sig, a.entries),
           Acyclic(a.entries), IsInheritance(a.inherits, a.entries),
           Acyclic(b.entries), IsInheritance(b.inherits, b.entries),
           \A i : i \notin s => SameAt(a.entries, b.entries, i)
    PROVE  Agree(a, b, s)
<1>1. NamesParents(sig, a.entries)
  BY DEF NamesAll, NamesParents, ClassesOf, Names, Parents
<1>2. \A c \in ClassesOf(b.entries) :
         c \notin s => c \in ClassesOf(a.entries) /\ a.inherits[c] = b.inherits[c]
  BY <1>1, KeptInheritance
<1>3. DOMAIN a.inherits = ClassesOf(a.entries) /\ DOMAIN b.inherits = ClassesOf(b.entries)
  BY DEF IsInheritance
<1>4. \A c : c \notin s => SameAt(a.inherits, b.inherits, c)
  BY <1>2, <1>3 DEF SameAt, ClassesOf
<1>5. ASSUME NEW i \in DOMAIN a.entries, i \notin s, NEW u \in Names(a.entries[i].decl)
      PROVE  u \notin s
  <2>1. <<i, u>> \in sig
    BY <1>5 DEF NamesAll
  <2>2. <<i, u>>[1] = i /\ <<i, u>>[2] = u
    OBVIOUS
  <2> QED
    BY <1>5, <2>1, <2>2 DEF ClosedUnder
<1>6. \A c \in DOMAIN a.inherits : c \notin s => \A x \in a.inherits[c] : Owner(x[1]) \notin s
  BY <1>1, <1>3, HeirsAvoid
<1>7. \A i \in s : Owner(i) \in s
  BY DEF ClosedUnder
<1>8. \A i \in DOMAIN a.entries : i \notin s => Names(a.entries[i].decl) \cap s = {}
  BY <1>5
<1> QED
  BY <1>4, <1>6, <1>7, <1>8 DEF Agree

\* The contents d are versions of the files.
AreVersions(d) == \A f \in Files : d[f] \in Versions[f] \cup {Absent}

\* A declaration names finitely many symbols.
LEMMA FiniteNames ==
    ASSUME NEW d, AreVersions(d), NEW f \in Present(d), NEW i \in DOMAIN d[f].decls
    PROVE  IsFiniteSet(Names(d[f].decls[i]))
<1> DEFINE decl == d[f].decls[i]
           symbol == [p \in decl.parents |-> Symbol(p)]
<1>1. f \in Files /\ d[f] \in Versions[f] \ {Absent}
  BY DEF AreVersions, Present
<1>2. IsFiniteSet(decl.uses) /\ IsFiniteSet(decl.parents)
  BY <1>1, FiniteAssumption
<1>3. ParentIds(decl) = {symbol[p] : p \in decl.parents}
  BY DEF ParentIds
<1> HIDE DEF decl, symbol
<1>4. IsFiniteSet(ParentIds(decl))
  BY <1>2, <1>3, FiniteImage
<1>5. IsFiniteSet(decl.uses \cup ParentIds(decl))
  BY <1>2, <1>4, FS_Union
<1> QED
  BY <1>5 DEF Names, decl

\* An analysis reads finitely much.
LEMMA ReadingIsFinite ==
    ASSUME NEW cb, NEW d, AreVersions(d), Describes(cb, d), Acyclic(cb.entries),
           IsInheritance(cb.inherits, cb.entries), IsFiniteSet(DOMAIN cb.entries)
    PROVE  FiniteReading(cb)
<1> DEFINE e == cb.entries
           names == [i \in DOMAIN e |-> Names(e[i].decl)]
           all == UNION {names[i] : i \in DOMAIN e}
           targets == {x[2] : x \in Dependencies(cb)}
<1>1. \A i \in DOMAIN e : IsFiniteSet(names[i])
  <2>1. SUFFICES ASSUME NEW i \in DOMAIN e
                 PROVE  IsFiniteSet(names[i])
    OBVIOUS
  <2>2. PICK f \in Sources(d) : EntryIn(cb, d, i, f)
    BY EntryOfFile
  <2>3. f \in Present(d) /\ i \in DOMAIN d[f].decls /\ e[i].decl = d[f].decls[i]
    BY <2>2 DEF EntryIn, Sources
  <2>4. IsFiniteSet(Names(d[f].decls[i]))
    BY <2>3, FiniteNames
  <2> QED
    BY <2>3, <2>4
<1>2. \A i \in DOMAIN e : \A u \in Names(e[i].decl) : u \in all
  OBVIOUS
<1>3. IsFiniteSet(all)
  <2> DEFINE sets == {names[i] : i \in DOMAIN e}
  <2> HIDE DEF names, e
  <2>1. IsFiniteSet(sets)
    BY FiniteImage DEF e
  <2>2. \A t \in sets : IsFiniteSet(t)
    BY <1>1
  <2> HIDE DEF sets
  <2>3. IsFiniteSet(UNION sets)
    BY <2>1, <2>2, FS_UNION
  <2> QED
    BY <2>3 DEF sets
<1> HIDE DEF names, all
<1>4. AllParents(e) \subseteq all
  BY <1>2 DEF AllParents, Parents, ClassesOf, Names
<1>5. ASSUME NEW i, NEW u, Leads(cb, i, u)
      PROVE  u \in DOMAIN e \cup all
  <2>1. CASE u \in Names(e[i].decl)
    BY <1>2, <1>5, <2>1 DEF Leads
  <2>2. CASE u \in DOMAIN e
    BY <2>2
  <2>3. CASE i \in DOMAIN cb.inherits /\ \E x \in cb.inherits[i] : u = x[1]
    <3>1. PICK x \in cb.inherits[i] : u = x[1]
      BY <2>3
    <3>2. i \in ClassesOf(e)
      BY <2>3 DEF IsInheritance
    <3>3. PICK p \in Ancestors(e, i) : x \in Items(e, p)
      BY <3>2, InheritedItems
    <3>4. p \in AllParents(e)
      BY <3>3 DEF Ancestors
    <3> QED
      BY <1>4, <3>1, <3>3, <3>4 DEF Items, MembersOf
  <2> QED
    BY <1>5, <2>1, <2>2, <2>3 DEF Leads
<1>6. targets \in SUBSET (DOMAIN e \cup all)
  BY <1>5, DependencyMembers
<1>7. IsFiniteSet(DOMAIN e \cup all)
  BY <1>3, FS_Union
<1> HIDE DEF e, targets
<1>8. IsFiniteSet(targets)
  BY <1>6, <1>7, FS_Subset
<1> QED
  BY <1>8 DEF FiniteReading, targets

-----------------------------------------------------------------------------
(* What an analysis leaves of references and issues.                       *)

\* The graph has these edges, in a signature if they belong to one.
Records(refs, more) ==
    /\ more.sig \subseteq refs.sig
    /\ more.body \subseteq refs.sig \cup refs.body
    /\ more.file \subseteq refs.file

\* What the analysis of f finds; `scan' is the scan-only mode.
RightIssues(cb, f, content, scan) ==
    IF scan \/ ~ Host(f) THEN Absent ELSE FileIssues(cb, Dependencies(cb), content)

\* The result r is that of an analysis of d.
Answers(r, d, scan) ==
    /\ NamesAll(r.references.sig, r.codebase.entries)
    /\ r.external = IF scan THEN {} ELSE ExternalReferences(r.codebase)
    /\ \A f \in Present(d) : r.files[f].issues = RightIssues(r.codebase, f, d[f], scan)
    /\ ~ scan => \A f \in HostFiles(d) :
                    Records(r.references, AnalysisReferences(r.codebase, f, d[f]))

LEMMA StartIsFinite ==
    ASSUME NEW d, AreVersions(d), NEW f \in Present(d)
    PROVE  IsFiniteSet(StartOf(d[f]))
<1> DEFINE content == d[f]
           body == [o \in DOMAIN content.body |-> content.body[o]]
           sets == {body[o] : o \in DOMAIN content.body}
           owner == [t \in UsesOf(content) |-> Owner(t)]
<1>1. f \in Files /\ content \in Versions[f] \ {Absent}
  BY DEF AreVersions, Present
<1>2. /\ IsFiniteSet(DOMAIN content.decls) /\ IsFiniteSet(content.top)
      /\ \A o \in DOMAIN content.body : IsFiniteSet(content.body[o])
  BY <1>1, FiniteAssumption
<1>3. DOMAIN content.body \subseteq DOMAIN content.decls
  BY <1>1, ScopeAssumption
<1>4. IsFiniteSet(DOMAIN content.body)
  BY <1>2, <1>3, FS_Subset
<1>5. BodyTargets(content) = UNION sets
  BY DEF BodyTargets
<1>6. \A t \in sets : IsFiniteSet(t)
  BY <1>2
<1> HIDE DEF content, body
<1>7. IsFiniteSet(sets)
  BY <1>4, FiniteImage
<1> HIDE DEF sets
<1>8. IsFiniteSet(UsesOf(content))
  BY <1>2, <1>5, <1>6, <1>7, FS_UNION, FS_Union DEF UsesOf
<1>9. {Owner(t) : t \in UsesOf(content)} = {owner[t] : t \in UsesOf(content)}
  OBVIOUS
<1> HIDE DEF owner
<1>10. IsFiniteSet({Owner(t) : t \in UsesOf(content)})
  BY <1>8, <1>9, FiniteImage
<1>11. IsFiniteSet(DOMAIN content.decls \cup {Owner(t) : t \in UsesOf(content)})
  BY <1>2, <1>10, FS_Union
<1> QED
  BY <1>11 DEF StartOf, UsesOf, content

\* With the same items, inheritance and dependencies are the same.
LEMMA SameDependencies ==
    ASSUME NEW a, NEW b, a.entries = b.entries, a.inherits = b.inherits
    PROVE  Dependencies(a) = Dependencies(b)
<1>1. Agree(a, b, {}) /\ Agree(b, a, {})
  BY AgreeEverywhere
<1>2. \A i, u : Leads(a, i, u) <=> Leads(b, i, u)
  BY <1>1, SameLeads
<1>3. \A e : e \in Dependencies(a) <=> e \in Dependencies(b)
  BY <1>2, DependencyMembers
<1> QED
  BY <1>3

\* A code base with the same items gives the same analyses.
LEMMA SameResults ==
    ASSUME NEW a, NEW b, a.entries = b.entries, a.inherits = b.inherits, FiniteReading(a),
           DOMAIN a.inherits = ClassesOf(a.entries), NEW d, AreVersions(d), NEW f \in Present(d),
           NEW scan
    PROVE  /\ RightIssues(a, f, d[f], scan) = RightIssues(b, f, d[f], scan)
           /\ SameEdges(AnalysisReferences(a, f, d[f]), AnalysisReferences(b, f, d[f]))
           /\ ExternalReferences(a) = ExternalReferences(b)
<1>1. Agree(a, b, {})
  BY AgreeEverywhere
<1>2. ExternalReferences(a) = ExternalReferences(b)
  BY DEF ExternalReferences
<1>3. FiniteReading(b)
  BY SameDependencies DEF FiniteReading
<1>4. IsFiniteSet(StartOf(d[f])) /\ StartOf(d[f]) \cap {} = {}
  BY StartIsFinite
<1>5. FileIssues(a, Dependencies(a), d[f]) = FileIssues(b, Dependencies(b), d[f])
  BY <1>1, <1>2, <1>3, <1>4, SameIssues DEF StartOf
<1>6. OwnedKeys(a, f) = OwnedKeys(b, f)
  BY DEF OwnedKeys
<1>7. Avoids(a, f, d[f], {})
  BY DEF Avoids
<1>8. SameEdges(AnalysisReferences(a, f, d[f]), AnalysisReferences(b, f, d[f]))
  BY <1>1, <1>6, <1>7, SameAnalysis
<1> QED
  BY <1>2, <1>5, <1>8 DEF RightIssues

\* What Store keeps of references and issues.
LEMMA StoredAnswers ==
    ASSUME NEW old, NEW cb, NEW refs, NEW d, NEW scanned, NEW skip,
           NEW r, r = Store(old, cb, refs, d, scanned, skip),
           NEW analyzed, analyzed = AnalyzedFiles(cb, d, skip, old.external)
    PROVE  /\ refs.sig \subseteq r.references.sig
           /\ refs.sig \cup refs.body \subseteq r.references.sig \cup r.references.body
           /\ refs.file \subseteq r.references.file
           /\ \A f \in analyzed : Records(r.references, AnalysisReferences(cb, f, d[f]))
           /\ r.external = IF scanOnly THEN {} ELSE ExternalReferences(cb)
           /\ \A f \in Present(d) :
                 r.files[f].issues =
                    IF f \in analyzed THEN FileIssues(cb, Dependencies(cb), d[f])
                    ELSE IF f \in scanned THEN Absent ELSE Before(old, f).issues
<1> DEFINE more == {AnalysisReferences(cb, f, d[f]) : f \in analyzed}
<1>1. r.references = ExtendAll(refs, more)
  BY DEF Store
<1>2. \A f \in analyzed : AnalysisReferences(cb, f, d[f]) \in more
  OBVIOUS
<1>3. r.external = IF scanOnly THEN {} ELSE ExternalReferences(cb)
  BY DEF Store
<1>4. \A f \in Present(d) :
         r.files[f].issues = IF f \in analyzed THEN FileIssues(cb, Dependencies(cb), d[f])
                             ELSE IF f \in scanned THEN Absent ELSE Before(old, f).issues
  BY DEF Store, Before
<1> HIDE DEF more
<1>5. /\ r.references.sig = refs.sig \cup UNION {m.sig : m \in more}
      /\ r.references.body = (refs.body \cup UNION {m.body : m \in more}) \ r.references.sig
      /\ r.references.file = refs.file \cup UNION {m.file : m \in more}
  BY <1>1 DEF ExtendAll, ExtendReferences
<1>6. \A m \in more : Records(r.references, m)
  BY <1>5 DEF Records
<1> QED
  BY <1>2, <1>3, <1>4, <1>5, <1>6

\* What Store leaves is the result of an analysis if the code base is complete, and right
\* for the files that were not analysed.
LEMMA StoreAnswers ==
    ASSUME NEW old, NEW cb, CodebaseShape(cb), IsInheritance(cb.inherits, cb.entries),
           FiniteReading(cb), NEW d, AreVersions(d), NEW refs, NamesAll(refs.sig, cb.entries),
           NEW scanned, NEW skip, skip \cap scanned = {},
           NEW analyzed, analyzed = AnalyzedFiles(cb, d, skip, old.external),
           \A f \in Present(d) \ scanned : f \notin analyzed =>
              Before(old, f).issues = RightIssues(cb, f, d[f], scanOnly),
           ~ scanOnly => \A f \in HostFiles(d) : f \notin analyzed =>
                            Records(refs, AnalysisReferences(cb, f, d[f])),
           NEW r, r = Store(old, cb, refs, d, scanned, skip)
    PROVE  Answers(r, d, scanOnly)
<1>1. /\ r.codebase.entries = cb.entries /\ r.codebase.inherits = cb.inherits
      /\ DOMAIN cb.inherits = ClassesOf(cb.entries)
  <2>1. Stores(r, old, cb, refs, d, scanned, skip)
    BY StoreParts
  <2> QED
    BY <2>1 DEF Stores, IsInheritance
<1>2. /\ refs.sig \subseteq r.references.sig
      /\ refs.sig \cup refs.body \subseteq r.references.sig \cup r.references.body
      /\ refs.file \subseteq r.references.file
      /\ \A f \in analyzed : Records(r.references, AnalysisReferences(cb, f, d[f]))
      /\ r.external = IF scanOnly THEN {} ELSE ExternalReferences(cb)
      /\ \A f \in Present(d) :
            r.files[f].issues = IF f \in analyzed THEN FileIssues(cb, Dependencies(cb), d[f])
                                ELSE IF f \in scanned THEN Absent ELSE Before(old, f).issues
  BY StoredAnswers
<1>3. /\ \A f \in analyzed : ~ scanOnly /\ f \in HostFiles(d)
      /\ \A f \in scanned \cap Present(d) : f \notin analyzed => scanOnly \/ ~ Host(f)
  BY DEF AnalyzedFiles, HostFiles
<1>4. ASSUME NEW f \in Present(d)
      PROVE  /\ RightIssues(cb, f, d[f], scanOnly) = RightIssues(r.codebase, f, d[f], scanOnly)
             /\ SameEdges(AnalysisReferences(cb, f, d[f]),
                          AnalysisReferences(r.codebase, f, d[f]))
  <2> DEFINE b == r.codebase
  <2>1. cb.entries = b.entries /\ cb.inherits = b.inherits
    BY <1>1
  <2> HIDE DEF b
  <2>2. /\ RightIssues(cb, f, d[f], scanOnly) = RightIssues(b, f, d[f], scanOnly)
        /\ SameEdges(AnalysisReferences(cb, f, d[f]), AnalysisReferences(b, f, d[f]))
    BY <1>1, <2>1, SameResults
  <2> QED
    BY <2>2 DEF b
<1>5. ExternalReferences(cb) = ExternalReferences(r.codebase)
  BY <1>1 DEF ExternalReferences
<1>6. NamesAll(r.references.sig, r.codebase.entries)
  BY <1>1, <1>2 DEF NamesAll
<1>7. ASSUME NEW f \in Present(d)
      PROVE  r.files[f].issues = RightIssues(r.codebase, f, d[f], scanOnly)
  <2>1. CASE f \in analyzed
    <3>1. r.files[f].issues = FileIssues(cb, Dependencies(cb), d[f])
      BY <1>2, <2>1
    <3>2. RightIssues(cb, f, d[f], scanOnly) = FileIssues(cb, Dependencies(cb), d[f])
      BY <1>3, <2>1 DEF RightIssues, HostFiles
    <3> QED
      BY <1>4, <3>1, <3>2
  <2>2. CASE f \notin analyzed /\ f \in scanned
    <3>1. r.files[f].issues = Absent
      BY <1>2, <2>2
    <3>2. RightIssues(r.codebase, f, d[f], scanOnly) = Absent
      BY <1>3, <2>2 DEF RightIssues
    <3> QED
      BY <3>1, <3>2
  <2>3. CASE f \notin analyzed /\ f \notin scanned
    BY <1>2, <1>4, <2>3
  <2> QED
    BY <2>1, <2>2, <2>3
<1>8. ASSUME ~ scanOnly, NEW f \in HostFiles(d)
      PROVE  Records(r.references, AnalysisReferences(r.codebase, f, d[f]))
  <2>1. Records(r.references, AnalysisReferences(cb, f, d[f]))
    <3>1. CASE f \in analyzed
      BY <1>2, <3>1
    <3>2. CASE f \notin analyzed
      <4>1. Records(refs, AnalysisReferences(cb, f, d[f]))
        BY <1>8, <3>2
      <4> QED
        BY <1>2, <4>1 DEF Records
    <3> QED
      BY <3>1, <3>2
  <2>2. f \in Present(d)
    BY DEF HostFiles
  <2> QED
    BY <1>4, <2>1, <2>2 DEF Records, SameEdges
<1> QED
  BY <1>2, <1>5, <1>6, <1>7, <1>8 DEF Answers

\* The second invariant: what is kept is the result of an analysis of what was seen.
Answered == Incremental /\ ~ conflicted => Answers(cache, Seen, scanOnly)

\* A call that leaves such a result of the database keeps it.
LEMMA FinishAnswers ==
    ASSUME IInv', IsMap(db), DOMAIN db = Files, NEW r, NEW conflict, Finish(r, conflict),
           ~ conflict => Answers(r, db, scanOnly)
    PROVE  Answered'
<1>1. /\ cache' = r /\ announced' = {} /\ initialized' = TRUE /\ conflicted' = conflict
      /\ db' = db /\ scanOnly' = scanOnly
  BY DEF Finish
<1>2. \A f \in Files : (Seen')[f] = db[f]
  BY <1>1 DEF IInv, Watched
<1>3. IsMap(Seen') /\ DOMAIN (Seen') = Files
  BY DEF Seen, IsMap
<1>4. Seen' = db
  BY <1>2, <1>3 DEF IsMap
<1> QED
  BY <1>1, <1>4 DEF Answered

\* The population records what each item names.
LEMMA RecordedNames ==
    ASSUME NEW cb, NEW todo, NEW i \in todo, NEW u \in Names(cb.entries[i].decl)
    PROVE  <<i, u>> \in SignatureReferences(cb, todo).sig
BY DEF SignatureReferences, Names, NoReferences

\* A full analysis analyses everything.
LEMMA FullAnswers ==
    ASSUME IInv, ~ Conflict(db), NEW full, full = FullAnalysis(db)
    PROVE  Answers(full, db, scanOnly)
<1> DEFINE m == ApplyPatches(Extend(EmptyCodebase, Present(db), db))
           all == DOMAIN m.entries
           cb == Populate(m, all)
           refs == SignatureReferences(m, all)
           analyzed == AnalyzedFiles(cb, db, {}, Staged(db).external)
           r == Store(Staged(db), cb, refs, db, Present(db), {})
<1>1. full = r
  BY DEF FullAnalysis, Staged
<1>2. \A f \in Files : db[f] \in Versions[f]
  BY DEF IInv, Typed
<1>3. CodebaseShape(m)
  BY <1>2, EmptyCacheShape, ExtendStorable DEF StorableCodebase
<1>4. CodebaseShape(cb) /\ cb.entries = m.entries /\ cb.patches = m.patches
      /\ cb.signatures = m.signatures
  <2> HIDE DEF m, all
  <2> QED
    BY <1>3, PopulateParts
<1>5. AreVersions(db) /\ IsMap(db) /\ DOMAIN db = Files
  BY <1>2 DEF AreVersions, IInv, Typed
<1>6. ~ scanOnly => \A f \in HostFiles(db) : f \in analyzed
  BY DEF AnalyzedFiles, HostFiles
<1>7. {} \cap Present(db) = {}
  OBVIOUS
<1>8. Describes(m, db)
  BY FullDescribes
<1>9. IsInheritance(cb.inherits, cb.entries)
  <2>1. Inherits(cb, refs.sig)
    <3> HIDE DEF all
    <3>1. all = DOMAIN m.entries
      BY DEF all
    <3> HIDE DEF cb, refs
    <3> QED
      BY <1>2, <1>3, <3>1, FullInherits DEF cb, refs
  <2> QED
    BY <2>1 DEF Inherits
<1> HIDE DEF m, all, cb, refs, analyzed
<1>10. Describes(cb, db)
  BY <1>4, <1>8 DEF Describes
<1>11. FiniteReading(cb)
  BY <1>2, <1>5, <1>9, <1>10, AcyclicEntries, FiniteEntries, ReadingIsFinite
<1>12. NamesAll(refs.sig, cb.entries)
  BY <1>4, RecordedNames DEF NamesAll, refs, all
<1>13. \A f \in Present(db) \ Present(db) : f \notin analyzed =>
         Before(Staged(db), f).issues = RightIssues(cb, f, db[f], scanOnly)
  OBVIOUS
<1>14. ~ scanOnly => \A f \in HostFiles(db) : f \notin analyzed =>
         Records(refs, AnalysisReferences(cb, f, db[f]))
  BY <1>6
<1> HIDE DEF r
<1> QED
  BY <1>1, <1>4, <1>5, <1>7, <1>9, <1>11, <1>12, <1>13, <1>14, StoreAnswers DEF r, analyzed

LEMMA RebuildAnswers ==
    ASSUME IInv, Rebuild, IInv'
    PROVE  Answered'
<1> DEFINE r == FullAnalysis(db)
<1>1. Finish(r, Conflict(db)) /\ IsMap(db) /\ DOMAIN db = Files
  BY DEF Rebuild, IInv, Typed
<1>2. ~ Conflict(db) => Answers(r, db, scanOnly)
  BY FullAnswers
<1> HIDE DEF r
<1> QED
  BY <1>1, <1>2, FinishAnswers

-----------------------------------------------------------------------------
(* An incremental analysis answers as a full one.                          *)

\* What has changed between two versions of a file is declared in one of them.
LEMMA ChangedIsDeclared ==
    ASSUME NEW old, NEW new, \A i \in DOMAIN old : Owner(i) \in DOMAIN old,
           \A i \in DOMAIN new : Owner(i) \in DOMAIN new, NEW i \in ChangedIds(old, new)
    PROVE  old # new /\ (i \in DOMAIN old \/ i \in DOMAIN new)
<1> DEFINE differs == {j \in DOMAIN old \cup DOMAIN new :
                         ~ (j \in DOMAIN old \cap DOMAIN new /\ old[j] = new[j])}
<1>1. i \in differs \/ \E j \in differs : i = Owner(j)
  BY DEF ChangedIds
<1>2. PICK j \in differs : i = j \/ i = Owner(j)
  BY <1>1
<1> QED
  BY <1>2

\* What is known of a file that is not scanned again.
KeptFile(f) ==
    /\ f \in Tracked /\ Seen[f] = db[f] /\ f \in Present(Seen)
    /\ cache.files[f].keys = KeysOf(db, f)
    /\ f \in DOMAIN cache.codebase.signatures
    /\ cache.codebase.signatures[f] = db[f].decls

LEMMA UnchangedFile ==
    ASSUME IInv, initialized, ~ conflicted, NEW hint \in {announced, Files},
           NEW f \in Unchanged(hint)
    PROVE  KeptFile(f) /\ f \in Present(db)
<1>1. f \in Present(db) /\ f \in Tracked /\ Seen[f] = db[f] /\ Present(Seen) = Tracked
  BY Untouched DEF Unchanged
<1>2. cache.files[f].keys = KeysOf(Seen, f)
  BY <1>1 DEF IInv, Known
<1>3. HasSignatures(cache.codebase.signatures, Seen)
  BY DEF IInv, Known, Describes
<1>4. f \in DOMAIN cache.codebase.signatures /\ cache.codebase.signatures[f] = Seen[f].decls
  BY <1>1, <1>3 DEF HasSignatures
<1> QED
  BY <1>1, <1>2, <1>4 DEF KeptFile, KeysOf

\* What such a file declares has not changed, and is not taken for dirty: no other file
\* declares it or has declared it.
LEMMA KeptItem ==
    ASSUME IInv, initialized, ~ conflicted, NEW hint \in {announced, Files},
           ~ MustRebuild(hint), ~ Conflict(db),
           NEW f \in Unchanged(hint), ~ Patch(f), NEW i \in DOMAIN db[f].decls
    PROVE  i \notin Changed(hint) /\ i \notin DirtySymbols(hint)
<1> DEFINE sigs == cache.codebase.signatures
           Old(g) == IF g \in DOMAIN sigs THEN sigs[g] ELSE <<>>
<1>1. /\ f \in Present(db) /\ f \notin Rescanned(hint)
      /\ f \in Present(Seen) /\ Seen[f] = db[f]
  BY UnchangedFile DEF KeptFile, Unchanged
<1>2. /\ Present(Seen) = Tracked /\ Rescanned(hint) \subseteq Present(db)
      /\ \A g \in Present(db) \ ContentChanged(hint) : g \in Tracked /\ Seen[g] = db[g]
  BY Untouched
<1>3. DOMAIN sigs = Tracked /\ \A g \in Tracked : sigs[g] = Seen[g].decls
  <2>1. HasSignatures(sigs, Seen)
    BY DEF IInv, Known, Describes
  <2> QED
    BY <1>2, <2>1 DEF HasSignatures
<1>4. ~ Conflict(Seen) /\ HasPatches(cache.codebase.patches, Seen)
  BY DEF IInv, Known, Describes
<1>5. ASSUME NEW g \in Present(db), ~ Patch(g), i \in DOMAIN db[g].decls
      PROVE  g = f
  BY <1>1, <1>5, OneDeclarer
<1>6. ASSUME NEW g \in Tracked, ~ Patch(g), i \in DOMAIN Seen[g].decls
      PROVE  g = f
  BY <1>1, <1>2, <1>4, <1>6, OneDeclarer
<1>7. ASSUME NEW g \in Tracked, NEW j \in DOMAIN Seen[g].decls
      PROVE  Owner(j) \in DOMAIN Seen[g].decls
  <2>1. g \in Files /\ Seen[g] \in Versions[g] \ {Absent}
    BY DEF IInv, Typed, Watched, Seen, Tracked
  <2> QED
    BY <2>1, ScopeAssumption
<1>8. ASSUME NEW g \in Present(db), NEW j \in DOMAIN db[g].decls
      PROVE  Owner(j) \in DOMAIN db[g].decls
  <2>1. g \in Files /\ db[g] \in Versions[g] \ {Absent}
    BY DEF IInv, Typed, Present
  <2> QED
    BY <2>1, ScopeAssumption
<1>9. ASSUME NEW g \in Rescanned(hint), i \in ChangedIds(Old(g), db[g].decls)
      PROVE  FALSE
  <2>1. g \in Present(db)
    BY <1>2
  <2>2. CASE g \notin Tracked
    <3>1. Old(g) = <<>>
      BY <1>3, <2>2
    <3> DEFINE old == Old(g)
               new == db[g].decls
    <3>2. DOMAIN old = {} /\ i \in ChangedIds(old, new)
      BY <1>9, <3>1
    <3>3. \A j \in DOMAIN new : Owner(j) \in DOMAIN new
      BY <1>8, <2>1
    <3> HIDE DEF old, new, sigs
    <3>4. i \in DOMAIN new
      BY <3>2, <3>3, ChangedIsDeclared
    <3>5. ~ Patch(g)
      <4>1. g \in ContentChanged(hint)
        BY <2>1, <2>2 DEF ContentChanged
      <4> QED
        BY <4>1 DEF MustRebuild
    <3> QED
      BY <1>1, <1>5, <2>1, <3>4, <3>5 DEF new
  <2>3. CASE g \in Tracked
    <3>1. Old(g) = Seen[g].decls
      BY <1>3, <2>3
    <3> DEFINE old == Seen[g].decls
               new == db[g].decls
    <3>2. i \in ChangedIds(old, new)
      BY <1>9, <3>1
    <3>3. /\ \A j \in DOMAIN old : Owner(j) \in DOMAIN old
          /\ \A j \in DOMAIN new : Owner(j) \in DOMAIN new
      BY <1>7, <1>8, <2>1, <2>3
    <3> HIDE DEF old, new, sigs
    <3>4. old # new /\ (i \in DOMAIN old \/ i \in DOMAIN new)
      BY <3>2, <3>3, ChangedIsDeclared
    <3>5. CASE Patch(g)
      <4>1. g \in ContentChanged(hint)
        BY <1>2, <2>1, <3>4 DEF old, new
      <4> QED
        BY <3>5, <4>1 DEF MustRebuild
    <3>6. CASE ~ Patch(g)
      BY <1>1, <1>5, <1>6, <2>1, <2>3, <3>4, <3>6 DEF old, new
    <3> QED
      BY <3>5, <3>6
  <2> QED
    BY <2>2, <2>3
<1>10. ASSUME NEW g \in Deleted, i \in DOMAIN sigs[g]
       PROVE  FALSE
  <2>1. g \in Tracked /\ g \notin Present(db) /\ i \in DOMAIN Seen[g].decls
    BY <1>3, <1>10 DEF Deleted
  <2>2. CASE Patch(g)
    <3>1. g \in PatchFiles(Seen)
      BY <1>2, <2>1, <2>2 DEF PatchFiles
    <3> DEFINE p == cache.codebase.patches
    <3>2. i \in DOMAIN p /\ p[i] = [file |-> g, decl |-> Seen[g].decls[i]]
      BY <1>4, <2>1, <3>1 DEF HasPatches, Declared
    <3>3. p[i].file \in Deleted
      BY <3>2
    <3> QED
      BY <3>2, <3>3 DEF MustRebuild
  <2>3. CASE ~ Patch(g)
    BY <1>1, <1>6, <2>1, <2>3
  <2> QED
    BY <2>2, <2>3
<1>11. i \notin Changed(hint)
  <2> HIDE DEF Old
  <2>1. Changed(hint) = (UNION {ChangedIds(Old(g), db[g].decls) : g \in Rescanned(hint)})
                          \cup (UNION {DOMAIN sigs[g] : g \in Deleted})
    BY DEF Changed, Old
  <2> HIDE DEF sigs
  <2> QED
    BY <1>9, <1>10, <2>1
<1>12. ASSUME NEW g \in Rescanned(hint), ~ Patch(g), i \in DOMAIN db[g].decls
       PROVE  FALSE
  BY <1>1, <1>2, <1>5, <1>12
<1>13. i \notin DirtySymbols(hint)
  BY <1>11, <1>12 DEF DirtySymbols, DeclaredBy
<1> QED
  BY <1>11, <1>13

\* The edges from what the file declares, and from its top-level code, are kept.
KeepsUses(old, refs, f, content) ==
    /\ \A x \in old.body : x[1] \in DOMAIN content.decls => x \in refs.sig \cup refs.body
    /\ \A x \in old.file : x[1] = f => x \in refs.file

\* So is what an analysis of the file has recorded.
LEMMA KeptRecords ==
    ASSUME NEW d, ~ Conflict(d), NEW cb, Describes(cb, d), NEW f \in HostFiles(d),
           DOMAIN d[f].body \subseteq DOMAIN d[f].decls,
           NEW old, NEW refs, KeepsUses(old, refs, f, d[f]),
           \A x \in old.sig : x[1] \in DOMAIN d[f].decls => x \in refs.sig,
           NEW more, more = AnalysisReferences(cb, f, d[f]), Records(old, more)
    PROVE  Records(refs, more)
<1>1. f \in Present(d) /\ ~ Patch(f)
  BY DEF HostFiles, Host, Patch
<1>2. OwnedKeys(cb, f) = DOMAIN d[f].decls
  BY <1>1, OwnedIsDeclared DEF KeysOf
<1>3. \A x \in more.sig : x[1] \in DOMAIN d[f].decls
  <2>1. SUFFICES ASSUME NEW x \in more.sig
                 PROVE  x[1] \in DOMAIN d[f].decls
    OBVIOUS
  <2>2. PICK c \in OwnedKeys(cb, f) : \E y \in cb.inherits[c] : x = <<c, y[1]>>
    BY AnalysisMembers
  <2> QED
    BY <1>2, <2>2
<1>4. \A x \in more.body : x[1] \in DOMAIN d[f].decls
  <2>1. SUFFICES ASSUME NEW x \in more.body
                 PROVE  x[1] \in DOMAIN d[f].decls
    OBVIOUS
  <2>2. PICK o \in DOMAIN d[f].body : \E t \in d[f].body[o] :
           \E r \in Recorded(cb, t) : x = <<o, r>>
    BY AnalysisMembers
  <2> QED
    BY <2>2
<1>5. \A x \in more.file : x[1] = f
  <2>1. SUFFICES ASSUME NEW x \in more.file
                 PROVE  x[1] = f
    OBVIOUS
  <2>2. PICK t \in d[f].top : \E r \in Recorded(cb, t) : x = <<f, r>>
    BY AnalysisMembers
  <2> QED
    BY <2>2
<1> QED
  BY <1>3, <1>4, <1>5 DEF Records, KeepsUses

\* The graph still names what every item names.
LEMMA IncrementalNamesAll ==
    ASSUME IInv, initialized, ~ conflicted, NEW hint \in {announced, Files},
           ~ MustRebuild(hint), ~ Conflict(db), NEW m, m = MergedCodebase(hint),
           NamesAll(cache.references.sig, cache.codebase.entries),
           NEW todo, NEW s, Covers(hint, todo, s), NEW sig, Renews(hint, todo, sig)
    PROVE  NamesAll(sig, m.entries)
<1>1. Describes(m, db)
  BY MergedDescribes
<1>2. SUFFICES ASSUME NEW i \in DOMAIN m.entries, NEW u \in Names(m.entries[i].decl)
               PROVE  <<i, u>> \in sig
  BY DEF NamesAll
<1>3. CASE i \in todo
  BY <1>3, RecordedNames DEF Renews
<1>4. CASE i \notin todo
  <2>1. PICK f \in Sources(db) : i \in DOMAIN db[f].decls
    BY <1>1, EntryOfFile DEF EntryIn
  <2>2. i \in OwnedKeys(m, f)
    BY <1>1, <2>1, DeclaredIsOwned
  <2>3. f \in Unchanged(hint) /\ ~ Patch(f)
    BY <1>4, <2>1, <2>2 DEF Covers, Unchanged, Sources
  <2>4. i \notin Changed(hint) /\ i \notin DirtySymbols(hint)
    BY <2>1, <2>3, KeptItem
  <2>5. SameAt(cache.codebase.entries, m.entries, i)
    BY <1>1, <2>4, Stable
  <2>6. <<i, u>> \in cache.references.sig
    BY <2>5 DEF SameAt, NamesAll
  <2> QED
    BY <2>4, <2>6 DEF Renews
<1> QED
  BY <1>3, <1>4

\* What a file that is skipped starts from is not affected, and its edges are kept.
Spares(f, refs, s) ==
    StartOf(db[f]) \cap s = {} /\ KeepsUses(cache.references, refs, f, db[f])

LEMMA IncrementalAnswers ==
    ASSUME IInv, Incremental, ~ conflicted, Answered, NEW hint \in {announced, Files},
           ~ MustRebuild(hint), ~ Conflict(db), NEW m, m = MergedCodebase(hint),
           NEW todo, NEW s, Covers(hint, todo, s), NEW refs, Renews(hint, todo, refs.sig),
           NEW skip \in SUBSET Unchanged(hint),
           ~ scanOnly => \A f \in skip : Host(f) => Spares(f, refs, s),
           NEW r, r = Store(cache, Populate(m, todo), refs, db, Rescanned(hint), skip)
    PROVE  Answers(r, db, scanOnly)
<1> DEFINE cb == Populate(m, todo)
           a == cache.codebase
           analyzed == AnalyzedFiles(cb, db, skip, cache.external)
<1>1. initialized /\ Answers(cache, Seen, scanOnly)
  BY DEF Incremental, Answered
<1>2. CodebaseShape(m) /\ Describes(m, db)
  BY <1>1, MergedStorable, MergedDescribes DEF StorableCodebase
<1>3. /\ CodebaseShape(cb) /\ cb.entries = m.entries /\ cb.patches = m.patches
      /\ cb.signatures = m.signatures
  BY <1>2, PopulateParts
<1>4. IsInheritance(cb.inherits, cb.entries)
  BY <1>1, <1>3, IncrementalInherits
<1>5. /\ NamesAll(cache.references.sig, a.entries) /\ Describes(a, Seen) /\ ~ Conflict(Seen)
      /\ IsInheritance(a.inherits, a.entries)
  BY <1>1 DEF Answers, IInv, Known, Inherited, Inherits
<1> HIDE DEF cb, a, analyzed
<1>6. Describes(cb, db)
  BY <1>2, <1>3 DEF Describes
<1>7. NamesAll(refs.sig, cb.entries)
  BY <1>1, <1>3, <1>5, IncrementalNamesAll DEF a
<1>8. AreVersions(db) /\ AreVersions(Seen)
  <2>1. \A f \in Files : db[f] \in Versions[f]
    BY DEF IInv, Typed
  <2>2. \A f \in Files : Seen[f] \in Versions[f] \cup {Absent}
    BY <1>1 DEF IInv, Watched, Seen
  <2> QED
    BY <2>1, <2>2 DEF AreVersions
<1>9. Acyclic(a.entries) /\ Acyclic(cb.entries)
  BY <1>5, <1>6, AcyclicEntries
<1>10. /\ Changed(hint) \subseteq s /\ ClosedUnder(cache.references.sig, s)
       /\ \A i : i \notin s => SameAt(a.entries, cb.entries, i)
  BY <1>1, <1>6, Stable DEF Covers, a
<1>11. Agree(a, cb, s)
  BY <1>4, <1>5, <1>9, <1>10, ClosedAgree
<1>12. FiniteReading(cb)
  <2>1. IsFiniteSet(DOMAIN cb.entries)
    BY <1>6, <1>8, FiniteEntries DEF AreVersions
  <2> QED
    BY <1>4, <1>6, <1>8, <1>9, <2>1, ReadingIsFinite
<1>13. FiniteReading(a)
  <2>1. IsFiniteSet(DOMAIN a.entries)
    BY <1>5, <1>8, FiniteEntries DEF AreVersions
  <2> QED
    BY <1>5, <1>8, <1>9, <2>1, ReadingIsFinite
<1>14. ASSUME NEW f \in Unchanged(hint)
       PROVE  KeptFile(f) /\ f \in Present(db) /\ Before(cache, f) = cache.files[f]
  BY <1>1, UnchangedFile DEF Before, KeptFile, Tracked
<1>15. ASSUME ~ scanOnly, NEW f \in HostFiles(db), f \notin analyzed
       PROVE  /\ f \in skip /\ f \in Unchanged(hint) /\ Spares(f, refs, s)
              /\ ExternalReferences(a) = ExternalReferences(cb)
  <2>1. f \in skip /\ cache.external = ExternalReferences(cb) /\ Host(f)
    BY <1>15 DEF analyzed, AnalyzedFiles, HostFiles
  <2>2. cache.external = ExternalReferences(a)
    BY <1>1, <1>15 DEF Answers, a
  <2> QED
    BY <1>15, <2>1, <2>2
<1>16. ASSUME NEW f \in Present(db) \ Rescanned(hint), f \notin analyzed
       PROVE  Before(cache, f).issues = RightIssues(cb, f, db[f], scanOnly)
  <2>1. f \in Unchanged(hint)
    BY DEF Unchanged
  <2>2. KeptFile(f) /\ Before(cache, f) = cache.files[f]
    BY <1>14, <2>1
  <2>3. cache.files[f].issues = RightIssues(a, f, db[f], scanOnly)
    BY <1>1, <2>2 DEF Answers, KeptFile, a
  <2>4. CASE scanOnly \/ ~ Host(f)
    BY <2>2, <2>3, <2>4 DEF RightIssues
  <2>5. CASE ~ scanOnly /\ Host(f)
    <3>1. f \in HostFiles(db)
      BY <2>5 DEF HostFiles
    <3>2. Spares(f, refs, s) /\ ExternalReferences(a) = ExternalReferences(cb)
      BY <1>15, <1>16, <2>5, <3>1
    <3> DEFINE start == StartOf(db[f])
    <3>3. start = StartOf(db[f]) /\ start \cap s = {}
      BY <3>2 DEF StartOf, UsesOf, Spares
    <3>4. IsFiniteSet(start)
      BY <1>8, StartIsFinite
    <3> HIDE DEF start
    <3>5. FileIssues(a, Dependencies(a), db[f]) = FileIssues(cb, Dependencies(cb), db[f])
      BY <1>11, <1>12, <1>13, <3>2, <3>3, <3>4, SameIssues
    <3> QED
      BY <2>2, <2>3, <2>5, <3>5 DEF RightIssues
  <2> QED
    BY <2>4, <2>5
<1>17. ASSUME ~ scanOnly, NEW f \in HostFiles(db), f \notin analyzed
       PROVE  Records(refs, AnalysisReferences(cb, f, db[f]))
  <2>1. /\ f \in skip /\ f \in Unchanged(hint) /\ Spares(f, refs, s)
    BY <1>15, <1>17
  <2>2. KeptFile(f) /\ f \in Present(db) /\ ~ Patch(f) /\ Host(f)
    BY <1>14, <2>1 DEF HostFiles, Host, Patch
  <2>3. f \in HostFiles(Seen) /\ Seen[f] = db[f] /\ f \in Present(Seen)
    BY <2>2 DEF KeptFile, HostFiles
  <2>4. OwnedKeys(a, f) = DOMAIN db[f].decls /\ OwnedKeys(cb, f) = DOMAIN db[f].decls
    BY <1>5, <1>6, <2>2, <2>3, OwnedIsDeclared DEF KeysOf
  <2>5. Avoids(a, f, db[f], s)
    <3>1. StartOf(db[f]) \cap s = {}
      BY <2>1 DEF Spares
    <3> QED
      BY <2>4, <3>1 DEF Avoids, StartOf, UsesOf
  <2>6. DOMAIN a.inherits = ClassesOf(a.entries) /\ DOMAIN cb.inherits = ClassesOf(cb.entries)
    BY <1>4, <1>5 DEF IsInheritance
  <2>7. SameEdges(AnalysisReferences(a, f, db[f]), AnalysisReferences(cb, f, db[f]))
    BY <1>11, <2>4, <2>5, <2>6, SameAnalysis
  <2>8. Records(cache.references, AnalysisReferences(a, f, db[f]))
    BY <1>1, <1>17, <2>3 DEF Answers, a
  <2> DEFINE more == AnalysisReferences(cb, f, db[f])
  <2>9. Records(cache.references, more)
    BY <2>7, <2>8 DEF Records, SameEdges
  <2>10. \A x \in cache.references.sig : x[1] \in DOMAIN db[f].decls => x \in refs.sig
    <3>1. \A i \in DOMAIN db[f].decls : i \notin DirtySymbols(hint)
      BY <1>1, <2>1, <2>2, KeptItem
    <3> QED
      BY <3>1 DEF Renews
  <2>11. DOMAIN db[f].body \subseteq DOMAIN db[f].decls
    <3>1. f \in Files /\ db[f] \in Versions[f] \ {Absent}
      BY <2>2 DEF IInv, Typed, Present
    <3> QED
      BY <3>1, ScopeAssumption
  <2>12. KeepsUses(cache.references, refs, f, db[f])
    BY <2>1 DEF Spares
  <2> HIDE DEF more
  <2>13. Records(refs, more)
    BY <1>6, <2>9, <2>10, <2>11, <2>12, KeptRecords DEF more
  <2> QED
    BY <2>13 DEF more
<1>18. skip \cap Rescanned(hint) = {}
  BY DEF Unchanged
<1>19. ~ scanOnly => \A f \in HostFiles(db) : f \notin analyzed =>
          Records(refs, AnalysisReferences(cb, f, db[f]))
  BY <1>17
<1>20. \A f \in Present(db) \ Rescanned(hint) : f \notin analyzed =>
          Before(cache, f).issues = RightIssues(cb, f, db[f], scanOnly)
  BY <1>16
<1>21. r = Store(cache, cb, refs, db, Rescanned(hint), skip)
  BY DEF cb
<1> QED
  BY <1>3, <1>4, <1>7, <1>8, <1>12, <1>18, <1>19, <1>20, <1>21, StoreAnswers DEF analyzed

\* No signature changed: the bodies whose references are dropped are those that are
\* analysed again.
LEMMA BodiesAnswer ==
    ASSUME IInv, Answered, NEW hint \in {announced, Files},
           AnalyzeIncrementalBodies(hint)
    PROVE  Answered'
<1> DEFINE m == MergedCodebase(hint)
           files == Rescanned(hint)
           fresh == UNION {OwnedKeys(m, f) : f \in files}
           refs1 == RemoveBodyReferences(cache.references, Redeclared(files), files)
           more == SignatureReferences(m, fresh)
           refs == ExtendReferences(refs1, more)
           skip == Unchanged(hint)
           r == Store(cache, Populate(m, fresh), refs, db, files, skip)
           conflict == conflicted \/ Conflict(db)
<1>1. Incremental /\ initialized /\ ~ MustRebuild(hint) /\ Changed(hint) = {}
  BY DEF AnalyzeIncrementalBodies, Incremental
<1>2. Finish(r, conflict)
  BY DEF AnalyzeIncrementalBodies, BodyOnlyAnalysis
<1>3. IInv'
  BY BodiesKeep
<1>4. \A f \in files : OwnedKeys(m, f) \subseteq fresh
  OBVIOUS
<1>5. \A c \in ClassesOf(m.entries) : c \in fresh \/ c \notin {}
  OBVIOUS
<1>6. Covers(hint, fresh, {})
  BY <1>1, <1>4, <1>5 DEF Covers, ClosedUnder
<1>7. DOMAIN cache.references = {"sig", "body", "file"}
  BY DEF IInv, Typed, CacheShape
<1>8. /\ refs1.sig = cache.references.sig
      /\ refs1.body = EdgesNotFrom(cache.references.body, Redeclared(files))
      /\ refs1.file = EdgesNotFrom(cache.references.file, files)
  BY <1>7 DEF RemoveBodyReferences
<1> HIDE DEF refs1
<1>9. \A x \in more.sig : x[1] \in fresh
  <2> HIDE DEF fresh, m
  <2> QED
    BY RecordedReferences
<1> HIDE DEF more
<1>10. /\ refs.sig = cache.references.sig \cup more.sig
       /\ refs1.body \subseteq refs.sig \cup refs.body /\ refs1.file \subseteq refs.file
  BY <1>8 DEF ExtendReferences
<1> HIDE DEF refs, fresh
<1>11. Renews(hint, fresh, refs.sig)
  BY <1>9, <1>10 DEF Renews, more
<1>12. ASSUME ~ conflict, NEW f \in skip, Host(f)
       PROVE  Spares(f, refs, {})
  <2>1. f \in Present(db) /\ f \notin files /\ ~ Patch(f)
    BY <1>12 DEF Unchanged, Host, Patch
  <2>2. files \subseteq Present(db)
    BY <1>1, Untouched
  <2>3. ASSUME NEW i \in DOMAIN db[f].decls, i \in Redeclared(files)
        PROVE  FALSE
    <3>1. PICK g \in files : i \in DOMAIN db[g].decls /\ (IsMember(i) \/ ~ Patch(g))
      BY <2>3 DEF Redeclared, DeclaredBy
    <3>2. CASE Patch(g)
      <4>1. \A h \in Present(db) : i \in DOMAIN db[h].decls => Patch(h) \/ Host(h)
        BY <1>12, <2>1, OneDeclarer
      <4>2. Materializes(db)
        BY <2>1, <2>2, <3>1, <3>2, <4>1 DEF Materializes
      <4> QED
        BY <1>12, <4>2 DEF Conflict
    <3>3. CASE ~ Patch(g)
      <4>1. g = f
        BY <1>12, <2>1, <2>2, <3>1, <3>3, OneDeclarer
      <4> QED
        BY <2>1, <4>1
    <3> QED
      BY <3>2, <3>3
  <2>4. KeepsUses(cache.references, refs, f, db[f])
    BY <1>8, <1>10, <2>1, <2>3 DEF KeepsUses, EdgesNotFrom
  <2> QED
    BY <2>4 DEF Spares
<1>13. skip \in SUBSET Unchanged(hint)
  OBVIOUS
<1> HIDE DEF m, files, skip, r
<1>14. ASSUME ~ conflict
       PROVE  Answers(r, db, scanOnly)
  <2>1. \A f \in skip : Host(f) => Spares(f, refs, {})
    BY <1>12, <1>14
  <2> QED
    BY <1>1, <1>6, <1>11, <1>13, <1>14, <2>1, IncrementalAnswers DEF r, m, files
<1>15. IsMap(db) /\ DOMAIN db = Files
  BY DEF IInv, Typed
<1> HIDE DEF conflict
<1> QED
  BY <1>2, <1>3, <1>14, <1>15, FinishAnswers

\* Signatures changed: whatever the cascade comes to is analysed again, and what is skipped
\* keeps its references.
LEMMA SignaturesAnswer ==
    ASSUME IInv, Answered, NEW hint \in {announced, Files}, AnalyzeIncrementalSignatures(hint)
    PROVE  Answered'
<1> DEFINE files == Rescanned(hint)
           cb == MergedCodebase(hint)
           changed == Changed(hint)
           keep == UNION {DOMAIN cache.codebase.signatures[f] : f \in Unchanged(hint)}
           invalid == InvalidSymbols(cache.references, changed)
           marked == MarkSafe(invalid, keep)
           kept == {i \in marked :
                      ~ (/\ i \in Classes(cb)
                         /\ \E p \in ParentIds(cb.entries[i].decl) :
                               p \in changed /\ p \in DOMAIN cb.entries)}
           affected == {f \in Unchanged(hint) :
                          Host(f) /\ ~ CanSkip(kept, invalid.files, f)}
           safe == kept \ Keys(affected)
           refs0 == IF Deleted = {} THEN cache.references
                    ELSE RetainReferencesFromFiles(cache.references, Present(db))
           refs1 == RemoveBodyReferences(RemoveDirtyReferences(refs0, DirtySymbols(hint)),
                                         Keys(affected), {})
           fresh == UNION {OwnedKeys(cb, f) : f \in files}
           todo == fresh \cup
                   {i \in DOMAIN cb.entries :
                      IF i \in Classes(cb) THEN i \notin safe
                      ELSE Host(cb.entries[i].file) /\ {i, Owner(i)} \cap safe = {}}
           skip == {f \in Unchanged(hint) : CanSkip(safe, invalid.files, f)}
           more == SignatureReferences(cb, todo)
           refs2 == RemoveReferencesFromFiles(ExtendReferences(refs1, more),
                                              Present(db) \ skip)
           s == Cascade(cache.references.sig, changed)
           r == Store(cache, Populate(cb, todo), refs2, db, files, skip)
           conflict == conflicted \/ Conflict(db)
<1>1. Incremental /\ initialized /\ ~ MustRebuild(hint)
  BY DEF AnalyzeIncrementalSignatures, Incremental
<1>2. Finish(r, conflict)
  BY DEF AnalyzeIncrementalSignatures, SignatureAnalysis
<1>3. IInv'
  BY SignaturesKeep
<1>4. skip \in SUBSET Unchanged(hint)
  OBVIOUS
<1>5. /\ s \subseteq invalid.ids
      /\ \A x \in cache.references.sig \cup cache.references.body :
            x[2] \in s => x[1] \in invalid.ids
      /\ \A x \in cache.references.file : x[2] \in s => x[1] \in invalid.files
  <2> DEFINE direct == {o \in {e[1] : e \in cache.references.sig} : Owner(o) \in changed}
             signatures == s \cup direct
  <2>1. /\ invalid.ids = signatures \cup Origins(cache.references.sig
                                                   \cup cache.references.body, signatures)
        /\ invalid.files = Origins(cache.references.file, signatures)
    BY DEF InvalidSymbols
  <2> HIDE DEF s, invalid
  <2> QED
    BY <2>1 DEF Origins
<1>6. safe \subseteq kept /\ kept \subseteq marked /\ \A i \in marked : i \notin invalid.ids
  BY DEF MarkSafe
<1>7. \A c \in Classes(cb) : c \in todo \/ c \in safe
  BY DEF Classes
<1>8. \A f \in files : OwnedKeys(cb, f) \subseteq todo
  OBVIOUS
<1>9. DOMAIN cache.references = {"sig", "body", "file"}
  BY DEF IInv, Typed, CacheShape
<1>10. /\ DOMAIN refs0 = {"sig", "body", "file"} /\ refs0.sig = cache.references.sig
       /\ refs0.body = cache.references.body
       /\ \A x \in cache.references.file : x[1] \in Present(db) => x \in refs0.file
  BY <1>9 DEF RetainReferencesFromFiles
<1> HIDE DEF refs0, affected
<1>11. /\ refs1.sig = EdgesNotFrom(cache.references.sig, DirtySymbols(hint))
       /\ refs1.body = EdgesNotFrom(EdgesNotFrom(cache.references.body, DirtySymbols(hint)),
                                    Keys(affected))
       /\ refs1.file = EdgesNotFrom(refs0.file, {})
  BY <1>10 DEF RemoveBodyReferences, RemoveDirtyReferences
<1> HIDE DEF refs1, more, skip
<1>12. /\ refs2.sig = EdgesNotFrom(cache.references.sig, DirtySymbols(hint)) \cup more.sig
       /\ refs1.body \subseteq refs2.sig \cup refs2.body
       /\ \A x \in refs0.file : x[1] \notin Present(db) \ skip => x \in refs2.file
  BY <1>11 DEF ExtendReferences, RemoveReferencesFromFiles, EdgesNotFrom
<1>13. \A f \in skip : /\ f \in Unchanged(hint) /\ f \notin invalid.files
                       /\ DOMAIN cache.codebase.signatures[f] \subseteq safe
  BY DEF skip, CanSkip
<1>14. \A i \in safe : i \notin Keys(affected)
  OBVIOUS
<1> HIDE DEF invalid, marked, kept, safe, todo, refs2
<1>15. ASSUME ~ conflicted
       PROVE  Covers(hint, todo, s)
  <2>1. IsFiniteSet(changed)
    BY <1>1, <1>15, FiniteChange
  <2>2. IsFiniteSet({e[1] : e \in cache.references.sig})
    BY <1>1, <1>15 DEF IInv, Inherited, Inherits, FiniteSources
  <2>3. changed \subseteq s /\ ClosedUnder(cache.references.sig, s)
    <3> HIDE DEF changed
    <3> QED
      BY <2>1, <2>2, CascadeCloses
  <2>4. \A c \in ClassesOf(cb.entries) : c \in todo \/ c \notin s
    BY <1>5, <1>6, <1>7, InheritFromParts
  <2> HIDE DEF s
  <2> QED
    BY <1>8, <2>3, <2>4 DEF Covers
<1>16. Renews(hint, todo, refs2.sig)
  <2>1. \A x \in more.sig : x[1] \in todo
    <3> HIDE DEF cb
    <3> QED
      BY RecordedReferences DEF more
  <2> QED
    BY <1>12, <2>1 DEF Renews, EdgesNotFrom, more
<1> HIDE DEF s, changed
<1>17. ASSUME ~ conflict, ~ scanOnly, NEW f \in skip, Host(f)
       PROVE  Spares(f, refs2, s)
  <2>1. f \in Unchanged(hint) /\ f \notin invalid.files
    BY <1>13
  <2>2. KeptFile(f) /\ f \in Present(db) /\ ~ Patch(f)
    BY <1>1, <1>17, <2>1, UnchangedFile DEF Host, Patch
  <2>3. \A i \in DOMAIN db[f].decls : i \in safe
    BY <1>13, <2>2 DEF KeptFile
  <2>4. \A i \in DOMAIN db[f].decls : i \notin invalid.ids /\ i \notin Keys(affected)
    BY <1>6, <1>14, <2>3
  <2>5. \A i \in DOMAIN db[f].decls : i \notin DirtySymbols(hint)
    BY <1>1, <1>17, <2>1, <2>2, KeptItem
  <2>6. \A x \in cache.references.body :
           x[1] \in DOMAIN db[f].decls => x \in refs2.sig \cup refs2.body
    BY <1>11, <1>12, <2>4, <2>5 DEF EdgesNotFrom
  <2>7. \A x \in cache.references.file : x[1] = f => x \in refs2.file
    BY <1>10, <1>12, <1>17, <2>2
  <2>8. ASSUME NEW t \in UsesOf(db[f])
        PROVE  Owner(t) \notin s
    <3> DEFINE edges == AnalysisReferences(cache.codebase, f, db[f])
    <3>1. Records(cache.references, edges)
      <4>1. f \in HostFiles(Seen) /\ Seen[f] = db[f]
        BY <1>17, <2>2 DEF KeptFile, HostFiles
      <4> QED
        BY <1>1, <1>17, <4>1 DEF Answered, Answers
    <3>2. Owner(t) \in Recorded(cache.codebase, t)
      BY RecordedMembers
    <3>3. CASE t \in db[f].top
      <4>1. <<f, Owner(t)>> \in edges.file
        BY <3>2, <3>3, AnalysisMembers
      <4> HIDE DEF edges
      <4>2. <<f, Owner(t)>> \in cache.references.file
        BY <3>1, <4>1 DEF Records
      <4>3. <<f, Owner(t)>>[1] = f /\ <<f, Owner(t)>>[2] = Owner(t)
        OBVIOUS
      <4> QED
        BY <1>5, <2>1, <4>2, <4>3
    <3>4. CASE t \in BodyTargets(db[f])
      <4>1. PICK o \in DOMAIN db[f].body : t \in db[f].body[o]
        BY <3>4 DEF BodyTargets
      <4>2. <<o, Owner(t)>> \in edges.body
        BY <3>2, <4>1, AnalysisMembers
      <4> HIDE DEF edges
      <4>3. <<o, Owner(t)>> \in cache.references.sig \cup cache.references.body
        BY <3>1, <4>2 DEF Records
      <4>4. <<o, Owner(t)>>[1] = o /\ <<o, Owner(t)>>[2] = Owner(t)
        OBVIOUS
      <4>5. o \in DOMAIN db[f].decls
        <5>1. f \in Files /\ db[f] \in Versions[f] \ {Absent}
          BY <2>2 DEF IInv, Typed, Present
        <5> QED
          BY <4>1, <5>1, ScopeAssumption
      <4> QED
        BY <1>5, <2>4, <4>3, <4>4, <4>5
    <3> QED
      BY <3>3, <3>4 DEF UsesOf
  <2>9. StartOf(db[f]) \cap s = {}
    BY <1>5, <2>4, <2>8 DEF StartOf, UsesOf
  <2> QED
    BY <2>6, <2>7, <2>9 DEF Spares, KeepsUses
<1>18. skip \in SUBSET Unchanged(hint)
  BY <1>4
<1> HIDE DEF cb, files, r
<1>19. ASSUME ~ conflict
       PROVE  Answers(r, db, scanOnly)
  <2>1. ~ scanOnly => \A f \in skip : Host(f) => Spares(f, refs2, s)
    BY <1>17, <1>19
  <2>2. Covers(hint, todo, s) /\ ~ conflicted /\ ~ Conflict(db)
    BY <1>15, <1>19
  <2> QED
    BY <1>1, <1>16, <1>18, <2>1, <2>2, IncrementalAnswers DEF r, cb, files
<1>20. IsMap(db) /\ DOMAIN db = Files
  BY DEF IInv, Typed
<1> HIDE DEF conflict
<1> QED
  BY <1>2, <1>3, <1>19, <1>20, FinishAnswers

\* Between two calls nothing of the result changes.
LEMMA KeptAnswers ==
    ASSUME Answered, Incremental' => Incremental, conflicted' = conflicted,
           scanOnly' = scanOnly, cache'.codebase = cache.codebase,
           cache'.references = cache.references, cache'.files = cache.files,
           cache'.external = cache.external
    PROVE  Answered'
<1>1. Seen' = Seen
  BY DEF Seen, Tracked
<1> QED
  BY <1>1 DEF Answered, Answers

LEMMA SettingsAnswer ==
    ASSUME IInv, Answered,
           \/ \E f \in Files : \E content \in Versions[f] : UpdateDatabase(f, content)
           \/ SetScanOnly
           \/ SetEditorArtifacts
    PROVE  Answered'
<1>1. CASE \E f \in Files : \E content \in Versions[f] : UpdateDatabase(f, content)
  BY <1>1, KeptAnswers DEF UpdateDatabase, Incremental
<1>2. CASE SetScanOnly
  BY <1>2 DEF SetScanOnly, Answered, Incremental
<1>3. CASE SetEditorArtifacts
  <2>1. /\ cache' = [cache EXCEPT !.editor = {}] /\ scanOnly' = scanOnly
        /\ conflicted' = conflicted /\ initialized' = initialized
        /\ needsFullRebuild \in BOOLEAN
        /\ needsFullRebuild' = (needsFullRebuild \/ (editorArtifacts' /\ initialized))
    BY <1>3 DEF SetEditorArtifacts, IInv, Typed
  <2>2. /\ cache'.codebase = cache.codebase /\ cache'.references = cache.references
        /\ cache'.files = cache.files /\ cache'.external = cache.external
    BY <2>1 DEF IInv, Typed, CacheShape
  <2>3. Incremental' => Incremental
    BY <2>1 DEF Incremental
  <2> QED
    BY <2>1, <2>2, <2>3, KeptAnswers
<1> QED
  BY <1>1, <1>2, <1>3

\* Every step keeps the second invariant.
LEMMA StepAnswers ==
    ASSUME IInv, Answered, [Next]_vars
    PROVE  Answered'
<1>1. IInv'
  BY StepKeeps
<1>2. CASE \/ \E f \in Files : \E content \in Versions[f] : UpdateDatabase(f, content)
           \/ SetScanOnly
           \/ SetEditorArtifacts
  BY <1>2, SettingsAnswer
<1>3. CASE Rebuild
  BY <1>1, <1>3, RebuildAnswers
<1>4. CASE Fail
  BY <1>4 DEF Fail, Answered, Incremental
<1>5. ASSUME NEW hint \in {announced, Files},
             \/ AnalyzeIncrementalUnchanged(hint)
             \/ AnalyzeIncrementalFallback(hint)
             \/ AnalyzeIncrementalBodies(hint)
             \/ AnalyzeIncrementalSignatures(hint)
             \/ AnalyzeIncrementalFails(hint)
      PROVE  Answered'
  <2>1. CASE AnalyzeIncrementalUnchanged(hint)
    BY <2>1, KeptAnswers DEF AnalyzeIncrementalUnchanged, Incremental
  <2>2. CASE AnalyzeIncrementalFallback(hint)
    BY <1>3, <2>2 DEF AnalyzeIncrementalFallback
  <2>3. CASE AnalyzeIncrementalBodies(hint)
    BY <2>3, BodiesAnswer
  <2>4. CASE AnalyzeIncrementalSignatures(hint)
    BY <2>4, SignaturesAnswer
  <2>5. CASE AnalyzeIncrementalFails(hint)
    BY <1>4, <2>5 DEF AnalyzeIncrementalFails
  <2> QED
    BY <1>5, <2>1, <2>2, <2>3, <2>4, <2>5
<1>6. CASE UNCHANGED vars
  BY <1>6, KeptAnswers DEF vars, Incremental
<1> QED
  BY <1>2, <1>3, <1>4, <1>5, <1>6
     DEF Next, Analyze, AnalyzeFails, AnalyzeIncrementalRebuild, AnalyzeIncrementalRefused

\* As long as no order decides, each file has what its analysis reads along the
\* dependencies in the contents that were seen, the graph has every reference of that
\* analysis, and the contributions of the plugins are up to date: a file that was skipped,
\* call after call, needed no new analysis but for the heirs of its classes.
THEOREM ResultsAreOfWhatWasSeen == Spec => [](IInv /\ Answered)
<1>1. Init => IInv /\ Answered
  BY InitEstablishes DEF Init, Answered, Incremental
<1>2. IInv /\ Answered /\ [Next]_vars => (IInv /\ Answered)'
  BY StepKeeps, StepAnswers
<1> QED
  BY <1>1, <1>2, PTL DEF Spec

\* Every edge is one of the population or of an analysis.
OnlyRecords(refs, cb, d, scan) ==
    /\ \A x \in refs.sig :
          \/ \E i \in DOMAIN cb.entries : \E u \in Names(cb.entries[i].decl) : x = <<i, u>>
          \/ ~ scan /\ \E f \in HostFiles(d) : x \in AnalysisReferences(cb, f, d[f]).sig
    /\ \A x \in refs.body :
          ~ scan /\ \E f \in HostFiles(d) : x \in AnalysisReferences(cb, f, d[f]).body
    /\ \A x \in refs.file :
          ~ scan /\ \E f \in HostFiles(d) : x \in AnalysisReferences(cb, f, d[f]).file

\* A full analysis records nothing else.
LEMMA FullRecords ==
    ASSUME IInv, ~ Conflict(db), NEW full, full = FullAnalysis(db)
    PROVE  OnlyRecords(full.references, full.codebase, db, scanOnly)
<1> DEFINE m == ApplyPatches(Extend(EmptyCodebase, Present(db), db))
           all == DOMAIN m.entries
           cb == Populate(m, all)
           refs == SignatureReferences(m, all)
           analyzed == AnalyzedFiles(cb, db, {}, Staged(db).external)
           more == {AnalysisReferences(cb, f, db[f]) : f \in analyzed}
           c == full.codebase
<1>1. full = Store(Staged(db), cb, refs, db, Present(db), {})
  BY DEF FullAnalysis, Staged
<1>2. StorableCodebase(m)
  BY EmptyCacheShape, ExtendStorable DEF IInv, Typed
<1>3. CodebaseShape(cb) /\ cb.entries = m.entries
  <2> HIDE DEF m, all
  <2> QED
    BY <1>2, PopulateParts DEF StorableCodebase
<1>4. full.references = ExtendAll(refs, more)
  <2> HIDE DEF cb, refs
  <2> QED
    BY <1>1 DEF Store
<1>5. \A f \in analyzed : ~ scanOnly /\ f \in HostFiles(db)
  BY DEF AnalyzedFiles, HostFiles
<1>6. refs.body = {} /\ refs.file = {}
  BY DEF SignatureReferences, NoReferences
<1>7. \A x \in refs.sig : \E i \in all : \E u \in Names(m.entries[i].decl) : x = <<i, u>>
  <2> HIDE DEF m, all
  <2> QED
    BY DEF SignatureReferences, NoReferences, Names
<1> HIDE DEF m, cb, refs, analyzed
<1>8. c.entries = cb.entries /\ c.inherits = cb.inherits
  <2>1. Stores(full, Staged(db), cb, refs, db, Present(db), {})
    BY <1>1, <1>3, StoreParts
  <2> QED
    BY <2>1 DEF Stores
<1> HIDE DEF c
<1>9. Agree(cb, c, {})
  BY <1>8, AgreeEverywhere
<1>10. /\ IsInheritance(c.inherits, c.entries)
       /\ DOMAIN cb.inherits = ClassesOf(cb.entries)
       /\ DOMAIN c.inherits = ClassesOf(c.entries)
  <2>1. IsInheritance(c.inherits, c.entries)
    BY FullCodebase DEF c
  <2> QED
    BY <1>8, <2>1 DEF IsInheritance
<1>11. ASSUME NEW f
       PROVE  SameEdges(AnalysisReferences(cb, f, db[f]), AnalysisReferences(c, f, db[f]))
  <2>1. OwnedKeys(cb, f) = OwnedKeys(c, f)
    BY <1>8 DEF OwnedKeys
  <2>2. Avoids(cb, f, db[f], {})
    BY DEF Avoids
  <2> QED
    BY <1>9, <1>10, <2>1, <2>2, SameAnalysis
<1>12. \A e \in more : ~ scanOnly /\ \E f \in HostFiles(db) :
          SameEdges(e, AnalysisReferences(c, f, db[f]))
  BY <1>5, <1>11
<1> HIDE DEF more
<1>13. /\ full.references.sig = refs.sig \cup UNION {e.sig : e \in more}
       /\ full.references.body \subseteq refs.body \cup UNION {e.body : e \in more}
       /\ full.references.file = refs.file \cup UNION {e.file : e \in more}
  BY <1>4 DEF ExtendAll, ExtendReferences
<1>14. \A x \in full.references.sig :
          \/ \E i \in DOMAIN c.entries : \E u \in Names(c.entries[i].decl) : x = <<i, u>>
          \/ ~ scanOnly /\ \E f \in HostFiles(db) :
                x \in AnalysisReferences(c, f, db[f]).sig
  BY <1>3, <1>7, <1>8, <1>12, <1>13 DEF SameEdges
<1>15. \A x \in full.references.body :
          ~ scanOnly /\ \E f \in HostFiles(db) : x \in AnalysisReferences(c, f, db[f]).body
  BY <1>6, <1>12, <1>13 DEF SameEdges
<1>16. \A x \in full.references.file :
          ~ scanOnly /\ \E f \in HostFiles(db) : x \in AnalysisReferences(c, f, db[f]).file
  BY <1>6, <1>12, <1>13 DEF SameEdges
<1> QED
  BY <1>14, <1>15, <1>16 DEF OnlyRecords, c

\* As long as no order decides, no reference is forgotten: what a full analysis would
\* record is in the graph from which the next invalidation starts, whatever was dropped,
\* skipped and recorded again in between.
THEOREM ReferencesAreRecorded == Spec => []ReferencesAreComplete
<1>1. IInv /\ Answered => ReferencesAreComplete
  <2> SUFFICES ASSUME IInv, Answered, Settled, ~ conflicted,
                      NEW full, full = FullAnalysis(db)
               PROVE  /\ full.references.sig \subseteq cache.references.sig
                      /\ full.references.body
                           \subseteq cache.references.sig \cup cache.references.body
                      /\ full.references.file \subseteq cache.references.file
    BY DEF ReferencesAreComplete
  <2> DEFINE c == cache.codebase
  <2>1. ~ Conflict(db) /\ c = full.codebase
    BY SettledCodebase
  <2>2. OnlyRecords(full.references, c, db, scanOnly)
    BY <2>1, FullRecords
  <2>3. Answers(cache, db, scanOnly)
    BY SettledSeen DEF Answered, Incremental, Settled
  <2>4. /\ NamesAll(cache.references.sig, c.entries)
        /\ ~ scanOnly => \A f \in HostFiles(db) :
                            Records(cache.references, AnalysisReferences(c, f, db[f]))
    BY <2>3 DEF Answers
  <2> HIDE DEF c
  <2> QED
    BY <2>2, <2>4 DEF OnlyRecords, NamesAll, Records
<1> QED
  BY <1>1, ResultsAreOfWhatWasSeen, PTL

\* As long as no order decides, every file has what its analysis in a full analysis of the
\* same files reads along the dependencies, whatever was analysed again and whatever was
\* skipped.  Not covered are the heirs of a class and what the scanner complains about:
\* there the two do differ (MatchesFull).
THEOREM ReadingsAreThoseOfAFullAnalysis == Spec => []ReadingsMatchFull
<1>1. IInv /\ Answered => ReadingsMatchFull
  <2> SUFFICES ASSUME IInv, Answered, Settled, ~ conflicted,
                      NEW full, full = FullAnalysis(db)
               PROVE  /\ DOMAIN cache.files = DOMAIN full.files
                      /\ \A f \in DOMAIN full.files :
                            cache.files[f].issues = full.files[f].issues
    BY DEF ReadingsMatchFull
  <2>1. ~ Conflict(db) /\ cache.codebase = full.codebase
    BY SettledCodebase
  <2>2. Answers(full, db, scanOnly)
    BY <2>1, FullAnswers
  <2>3. Answers(cache, db, scanOnly)
    BY SettledSeen DEF Answered, Incremental, Settled
  <2>4. DOMAIN full.files = Present(db)
    BY DEF FullAnalysis, Store
  <2>5. DOMAIN cache.files = Present(db)
    BY SettledSeen, Untouched DEF Tracked, Settled
  <2> QED
    BY <2>1, <2>2, <2>3, <2>4, <2>5 DEF Answers
<1> QED
  BY <1>1, ResultsAreOfWhatWasSeen, PTL
===============================================================================
