-------------------------- MODULE ModuleLoad_proofs --------------------------
(***************************************************************************)
(* Theorems about ModuleLoad for any repositories, any number of paths and *)
(* versions and any number of runners: the build list, the error and the   *)
(* panic of a call of Load.                                                *)
(***************************************************************************)
EXTENDS ModuleLoad, WorkSet_proofs

-----------------------------------------------------------------------------
(* Induction over the naturals, about sets of them. *)

\* A set of naturals that is not empty has a least element.
LEMMA LeastElement ==
  ASSUME NEW S \in SUBSET Nat, S # {}
  PROVE  \E x \in S : \A y \in S : x <= y
<1> DEFINE Less == OpToRel(<, Nat)
<1>1. IsWellFoundedOn(Less, Nat)
  BY NatLessThanWellFounded
<1>2. PICK x \in S : \A y \in S : ~ (<<y, x>> \in Less)
  <2> HIDE DEF Less
  <2> QED
    BY <1>1, WFMin
<1>3. \A y \in S : y < x => <<y, x>> \in Less
  BY DEF OpToRel
<1> HIDE DEF Less
<1>4. \A y \in S : ~(y < x)
  BY <1>2, <1>3
<1>5. x \in Nat /\ \A y \in S : y \in Nat
  OBVIOUS
<1>6. QED
  BY <1>4, <1>5

\* What holds of 0 and passes on to the next holds of all.
LEMMA SetInduction ==
  ASSUME NEW S, 0 \in S, \A n \in Nat : n \in S => n + 1 \in S
  PROVE  Nat \subseteq S
<1>1. SUFFICES ASSUME Nat \ S # {} PROVE FALSE
  OBVIOUS
<1>2. PICK x \in Nat \ S : \A y \in Nat \ S : x <= y
  BY <1>1, LeastElement
<1>3. x # 0 /\ x - 1 \in Nat /\ x - 1 \in S
  <2>1. x # 0 /\ x - 1 \in Nat
    OBVIOUS
  <2>2. QED
    BY <1>2, <2>1
<1>4. (x - 1) + 1 = x
  OBVIOUS
<1>5. QED
  BY <1>3, <1>4

-----------------------------------------------------------------------------
(* sortWith. *)

\* How many of S are below p.
Rank(S, p) == Cardinality({q \in S : q < p})

\* A higher path has a higher rank.
LEMMA RankGrows ==
  ASSUME NEW S \in SUBSET Nat, IsFiniteSet(S), NEW p \in S, NEW q \in S, p < q
  PROVE  Rank(S, p) < Rank(S, q)
<1> DEFINE P == {x \in S : x < p}
           Q == {x \in S : x < q}
<1>1. IsFiniteSet(P) /\ IsFiniteSet(Q)
  <2>1. P \in SUBSET S /\ Q \in SUBSET S
    OBVIOUS
  <2>2. QED
    BY <2>1, FS_Subset
<1>2. Cardinality(P \cup {p}) = Cardinality(P) + 1
  <2>1. p \in Nat /\ p \notin P
    OBVIOUS
  <2>2. QED
    BY <1>1, <2>1, FS_AddElement
<1>3. P \cup {p} \in SUBSET Q
  <2>1. p \in Nat /\ q \in Nat /\ \A x \in S : x \in Nat
    OBVIOUS
  <2>2. \A x \in P \cup {p} : x \in Q
    BY <2>1
  <2>3. QED
    BY <2>2
<1>4. Cardinality(P \cup {p}) <= Cardinality(Q)
  BY <1>1, <1>3, FS_Subset
<1>5. Cardinality(P) \in Nat /\ Cardinality(Q) \in Nat
  BY <1>1, FS_CardinalityType
<1>6. QED
  BY <1>2, <1>4, <1>5 DEF Rank

\* Every rank below the number of paths is some path's.
LEMMA RankIsTaken ==
  ASSUME NEW S \in SUBSET Nat, IsFiniteSet(S)
  PROVE  \A k \in Nat : k < Cardinality(S) => \E p \in S : Rank(S, p) = k
<1> DEFINE T == {k \in Nat : k < Cardinality(S) => \E p \in S : Rank(S, p) = k}
<1>1. Cardinality(S) \in Nat
  BY FS_CardinalityType
<1>2. 0 \in T
  <2>1. SUFFICES ASSUME 0 < Cardinality(S) PROVE \E p \in S : Rank(S, p) = 0
    OBVIOUS
  <2>2. S # {}
    BY <2>1, FS_EmptySet
  <2>3. PICK p \in S : \A q \in S : p <= q
    BY <2>2, LeastElement
  <2>4. {q \in S : q < p} = {}
    <3>1. p \in Nat /\ \A q \in S : q \in Nat
      OBVIOUS
    <3>2. \A q \in S : ~(q < p)
      BY <2>3, <3>1
    <3>3. QED
      BY <3>2
  <2>5. QED
    BY <2>4, FS_EmptySet DEF Rank
<1>3. ASSUME NEW k \in Nat, k \in T PROVE k + 1 \in T
  <2>1. SUFFICES ASSUME k + 1 < Cardinality(S) PROVE \E p \in S : Rank(S, p) = k + 1
    OBVIOUS
  <2>2. PICK p \in S : Rank(S, p) = k
    BY <1>1, <1>3, <2>1
  <2> DEFINE P == {q \in S : q < p}
             Above == {q \in S : q > p}
  <2>3. IsFiniteSet(P) /\ Cardinality(P) = k
    <3>1. P \in SUBSET S
      OBVIOUS
    <3>2. QED
      BY <2>2, <3>1, FS_Subset DEF Rank
  <2>4. Cardinality(P \cup {p}) = k + 1
    <3>1. p \in Nat /\ p \notin P
      OBVIOUS
    <3>2. QED
      BY <2>3, <3>1, FS_AddElement
  <2>5. Above # {}
    <3>1. SUFFICES ASSUME Above = {} PROVE FALSE
      OBVIOUS
    <3>2. S = P \cup {p}
      <4>1. p \in Nat /\ \A q \in S : q \in Nat
        OBVIOUS
      <4>2. \A q \in S : ~(q > p)
        BY <3>1
      <4>3. \A q \in S : q \in P \cup {p}
        BY <4>1, <4>2
      <4>4. QED
        BY <4>3
    <3>3. QED
      BY <1>1, <2>1, <2>4, <3>2
  <2>6. PICK r \in Above : \A q \in Above : r <= q
    <3>1. Above \in SUBSET Nat
      OBVIOUS
    <3> HIDE DEF Above
    <3>2. QED
      BY <2>5, <3>1, LeastElement
  <2>7. {q \in S : q < r} = P \cup {p}
    <3>1. p \in Nat /\ r \in Nat /\ p < r /\ \A q \in S : q \in Nat
      OBVIOUS
    <3>2. \A q \in S : q > p => r <= q
      BY <2>6
    <3>3. \A q \in S : q < r <=> q \in P \cup {p}
      BY <3>1, <3>2
    <3>4. QED
      BY <3>3
  <2>8. QED
    BY <2>4, <2>6, <2>7 DEF Rank
<1>4. Nat \subseteq T
  <2> HIDE DEF T
  <2> QED
    BY <1>2, <1>3, SetInduction
<1>5. QED
  BY <1>4

\* SortWith lists the paths in increasing order.
LEMMA SortWithSorts ==
  ASSUME NEW S \in SUBSET Path
  PROVE  /\ SortWith(S) \in Seq(S)
         /\ ToSet(SortWith(S)) = S
         /\ \A i, j \in DOMAIN SortWith(S) : i < j => SortWith(S)[i] < SortWith(S)[j]
<1> DEFINE s == SortWith(S)
           N == Cardinality(S)
<1>1. S \in SUBSET Nat /\ IsFiniteSet(S) /\ N \in Nat
  BY PathAssumption, FS_Subset, FS_CardinalityType
<1>2. s = [k \in 1..N |-> CHOOSE p \in S : Rank(S, p) = k - 1]
  BY DEF SortWith, Rank
<1>3. \A k \in 1..N : s[k] \in S /\ Rank(S, s[k]) = k - 1
  <2>1. TAKE k \in 1..N
  <2>2. \E p \in S : Rank(S, p) = k - 1
    BY <1>1, RankIsTaken
  <2>3. QED
    BY <1>2, <2>2
<1>4. s \in [1..N -> S] /\ DOMAIN s = 1..N
  BY <1>2, <1>3
<1>5. \A i, j \in 1..N : i < j => s[i] < s[j]
  <2>1. SUFFICES ASSUME NEW i \in 1..N, NEW j \in 1..N, i < j, ~(s[i] < s[j])
                 PROVE  FALSE
    OBVIOUS
  <2>2. s[i] \in S /\ s[j] \in S /\ s[i] \in Nat /\ s[j] \in Nat
    BY <1>1, <1>3
  <2>3. Rank(S, s[i]) = i - 1 /\ Rank(S, s[j]) = j - 1
    BY <1>3
  <2>4. s[j] # s[i]
    BY <2>1, <2>3
  <2>5. Rank(S, s[j]) < Rank(S, s[i])
    <3>1. s[j] < s[i]
      BY <2>1, <2>2, <2>4
    <3> HIDE DEF s
    <3>2. QED
      BY <1>1, <2>2, <3>1, RankGrows
  <2>6. QED
    BY <2>1, <2>3, <2>5
<1>6. S \subseteq ToSet(s)
  <2>1. SUFFICES ASSUME NEW p \in S PROVE \E k \in 1..N : s[k] = p
    BY <1>4 DEF ToSet
  <2> DEFINE P == {q \in S : q < p}
  <2>2. P \in SUBSET S /\ p \notin P
    <3>1. p \in Nat
      BY <1>1
    <3>2. QED
      BY <3>1
  <2>3. Cardinality(P) \in Nat /\ Cardinality(P) < N
    BY <1>1, <2>2, FS_Subset, FS_CardinalityType
  <2>4. Rank(S, p) \in Nat /\ Rank(S, p) < N
    BY <2>3 DEF Rank
  <2> DEFINE k == Rank(S, p) + 1
  <2>5. k \in 1..N /\ k - 1 = Rank(S, p)
    BY <1>1, <2>4
  <2> HIDE DEF k, s, P
  <2>6. s[k] \in S /\ Rank(S, s[k]) = Rank(S, p)
    BY <1>3, <2>5
  <2>7. ~(s[k] < p)
    <3>1. SUFFICES ASSUME s[k] < p PROVE FALSE
      OBVIOUS
    <3>2. Rank(S, s[k]) < Rank(S, p)
      BY <1>1, <2>6, <3>1, RankGrows
    <3>3. QED
      BY <2>4, <2>6, <3>2
  <2>8. ~(p < s[k])
    <3>1. SUFFICES ASSUME p < s[k] PROVE FALSE
      OBVIOUS
    <3>2. Rank(S, p) < Rank(S, s[k])
      BY <1>1, <2>6, <3>1, RankGrows
    <3>3. QED
      BY <2>4, <2>6, <3>2
  <2>9. s[k] \in Nat /\ p \in Nat
    BY <1>1, <2>6
  <2>10. s[k] = p
    BY <2>7, <2>8, <2>9
  <2>11. QED
    BY <2>5, <2>10
<1>7. ToSet(s) = S
  BY <1>4, <1>6 DEF ToSet
<1>8. s \in Seq(S)
  BY <1>1, <1>4
<1>9. QED
  <2> HIDE DEF s
  <2> QED
    BY <1>4, <1>5, <1>7, <1>8 DEF s

-----------------------------------------------------------------------------
(* Comparisons.  Real versions are all but "none". *)

Real == Path \X Version
Choice == Version \cup {NoVersion}

GoodReqs(reqs) ==
  /\ reqs.main \in Real
  /\ reqs.rank \in [Path -> [Version -> Nat \ {0}]]

\* "none" is 0, any version more.
Level(reqs, p, v) == IF v = NoVersion THEN 0 ELSE reqs.rank[p][v]

LEMMA LevelIsNat ==
  ASSUME NEW reqs, GoodReqs(reqs), NEW p \in Path, NEW v \in Choice
  PROVE  Level(reqs, p, v) \in Nat /\ (v # NoVersion => Level(reqs, p, v) > 0)
<1>1. v # NoVersion => reqs.rank[p][v] \in Nat \ {0}
  BY DEF GoodReqs, Choice
<1>2. QED
  BY <1>1 DEF Level

\* CmpVersion: the main module's version on top, the others by level.
LEMMA CmpVersionIs ==
  ASSUME NEW reqs, GoodReqs(reqs), NEW p \in Path, NEW v \in Choice, NEW u \in Choice
  PROVE  CmpVersion(reqs, p, v, u) =
           IF <<p, v>> = reqs.main
           THEN IF <<p, u>> = reqs.main THEN 0 ELSE 1
           ELSE IF <<p, u>> = reqs.main THEN -1
                ELSE IF Level(reqs, p, v) < Level(reqs, p, u) THEN -1
                     ELSE IF Level(reqs, p, v) > Level(reqs, p, u) THEN 1 ELSE 0
<1> DEFINE lv == Level(reqs, p, v)
           lu == Level(reqs, p, u)
<1>1. CompareKnown(reqs, p, v, u) = CASE lv < lu -> -1 [] lv > lu -> 1 [] OTHER -> 0
  BY DEF CompareKnown, Level
<1>2. <<p, v>> = reqs.main /\ <<p, u>> = reqs.main => CmpVersion(reqs, p, v, u) = 0
  BY DEF CmpVersion
<1>3. <<p, v>> # reqs.main /\ <<p, u>> = reqs.main => CmpVersion(reqs, p, v, u) = -1
  BY DEF CmpVersion
<1>4. <<p, v>> = reqs.main /\ <<p, u>> # reqs.main => CmpVersion(reqs, p, v, u) = 1
  BY DEF CmpVersion
<1>5. <<p, v>> # reqs.main /\ <<p, u>> # reqs.main =>
        CmpVersion(reqs, p, v, u) = CompareKnown(reqs, p, v, u)
  BY DEF CmpVersion
<1> HIDE DEF lv, lu
<1>6. lv \in Nat /\ lu \in Nat =>
        CompareKnown(reqs, p, v, u) = IF lv < lu THEN -1 ELSE IF lv > lu THEN 1 ELSE 0
  BY <1>1
<1>7. lv \in Nat /\ lu \in Nat
  BY LevelIsNat DEF lv, lu
<1>8. QED
  BY <1>2, <1>3, <1>4, <1>5, <1>6, <1>7 DEF lv, lu

\* v does not compare below u.
NotBelow(reqs, p, v, u) == ~(CmpVersion(reqs, p, v, u) < 0)

\* What Raise asks of Cmp, for which buildList goes through Max.
LEMMA CmpBelow ==
  ASSUME NEW reqs, GoodReqs(reqs), NEW p \in Path, NEW v \in Choice, NEW u \in Choice
  PROVE  Cmp(reqs, p, v, u) < 0 <=> ~NotBelow(reqs, p, v, u)
<1> DEFINE c == CmpVersion(reqs, p, v, u)
<1>1. c \in Int /\ (v = u => c = 0)
  BY CmpVersionIs, LevelIsNat
<1>2. MaxVersion(reqs, p, v, u) = IF c < 0 THEN u ELSE v
  BY DEF MaxVersion
<1>3. MaxVersion(reqs, p, v, u) # v <=> c < 0
  <2> HIDE DEF c
  <2> QED
    BY <1>1, <1>2
<1>4. MaxVersion(reqs, p, v, u) # v => Cmp(reqs, p, v, u) = -1
  BY DEF Cmp
<1>5. MaxVersion(reqs, p, v, u) = v => Cmp(reqs, p, v, u) \in {0, 1}
  BY DEF Cmp
<1>6. QED
  BY <1>3, <1>4, <1>5 DEF NotBelow

\* The comparison is a total preorder with "none" at the bottom and the main
\* module on top.
LEMMA NotBelowOrders ==
  ASSUME NEW reqs, GoodReqs(reqs), NEW p \in Path,
         NEW v \in Choice, NEW u \in Choice, NEW t \in Choice
  PROVE  /\ NotBelow(reqs, p, v, v)
         /\ NotBelow(reqs, p, v, u) \/ NotBelow(reqs, p, u, v)
         /\ NotBelow(reqs, p, v, u) /\ NotBelow(reqs, p, u, t) => NotBelow(reqs, p, v, t)
         /\ u # NoVersion /\ NotBelow(reqs, p, v, u) => v # NoVersion
         /\ <<p, u>> = reqs.main /\ NotBelow(reqs, p, v, u) => v = u
         /\ /\ <<p, v>> # reqs.main /\ u # NoVersion
            /\ NotBelow(reqs, p, v, u)
            => reqs.rank[p][u] - reqs.rank[p][v] <= 0
<1>1. \A x \in {v, u, t} : /\ Level(reqs, p, x) \in Nat
                           /\ x # NoVersion => Level(reqs, p, x) > 0
                           /\ x = NoVersion => Level(reqs, p, x) = 0
  BY LevelIsNat DEF Level
<1>2. <<p, NoVersion>> # reqs.main
  BY VersionAssumption DEF GoodReqs, Real
<1>3. \A x \in {v, u, t} : x # NoVersion => Level(reqs, p, x) = reqs.rank[p][x]
  BY DEF Level
<1> DEFINE top(x) == <<p, x>> = reqs.main
<1>4. \A x, y \in {v, u, t} :
        NotBelow(reqs, p, x, y) <=>
          top(x) \/ (~top(y) /\ Level(reqs, p, x) >= Level(reqs, p, y))
  BY <1>1, CmpVersionIs DEF NotBelow
<1>5. \A x, y \in {v, u, t} : top(x) /\ top(y) => x = y
  OBVIOUS
<1> HIDE DEF top
<1>6. /\ NotBelow(reqs, p, v, v)
      /\ NotBelow(reqs, p, v, u) \/ NotBelow(reqs, p, u, v)
      /\ NotBelow(reqs, p, v, u) /\ NotBelow(reqs, p, u, t) => NotBelow(reqs, p, v, t)
  BY <1>1, <1>4
<1>7. u # NoVersion /\ NotBelow(reqs, p, v, u) => v # NoVersion
  <2>1. ~top(NoVersion)
    BY <1>2 DEF top
  <2>2. QED
    BY <1>1, <1>4, <2>1
<1>8. top(u) /\ NotBelow(reqs, p, v, u) => v = u
  BY <1>4, <1>5
<1>9. ~top(v) /\ u # NoVersion /\ NotBelow(reqs, p, v, u)
        => reqs.rank[p][u] - reqs.rank[p][v] <= 0
  BY <1>1, <1>3, <1>4, <1>7
<1>10. QED
  BY <1>6, <1>7, <1>8, <1>9 DEF top

-----------------------------------------------------------------------------
(* Selecting.  A loop over a list is a recursive function: that there is   *)
(* one is proved by induction, one turn at a time.                         *)

LEMMA RaisedUnfolds ==
  ASSUME NEW reqs, NEW selected, NEW deps, Len(deps) \in Nat
  PROVE  /\ Raised(reqs, selected, deps)[0] = selected
         /\ \A n \in 1..Len(deps) :
              Raised(reqs, selected, deps)[n] =
                Raise(reqs, Raised(reqs, selected, deps)[n - 1], deps[n])
<1> DEFINE Is(N, g) == g = [n \in 0..N |-> IF n = 0 THEN selected
                                          ELSE Raise(reqs, g[n - 1], deps[n])]
           T == {N \in Nat : \E g : Is(N, g)}
           r == Raised(reqs, selected, deps)
<1>1. 0 \in T
  <2>1. Is(0, [n \in 0..0 |-> selected])
    OBVIOUS
  <2>2. QED
    BY <2>1
<1>2. ASSUME NEW N \in Nat, N \in T PROVE N + 1 \in T
  <2>1. PICK g : Is(N, g)
    BY <1>2
  <2> DEFINE h == [n \in 0..(N + 1) |-> IF n = N + 1 THEN Raise(reqs, g[N], deps[N + 1])
                                        ELSE g[n]]
  <2>2. \A n \in 0..N : h[n] = g[n]
    OBVIOUS
  <2>3. h[0] = selected
    BY <2>1, <2>2
  <2>4. \A n \in 1..N : h[n] = Raise(reqs, h[n - 1], deps[n])
    BY <2>1, <2>2
  <2>5. h[N + 1] = Raise(reqs, h[(N + 1) - 1], deps[N + 1])
    BY <2>2
  <2>6. \A n \in 0..(N + 1) : h[n] = IF n = 0 THEN selected ELSE Raise(reqs, h[n - 1], deps[n])
    <3> HIDE DEF h
    <3> QED
      BY <2>3, <2>4, <2>5
  <2>7. h = [n \in 0..(N + 1) |-> h[n]]
    OBVIOUS
  <2> HIDE DEF h
  <2>8. Is(N + 1, h)
    BY <2>6, <2>7
  <2> HIDE DEF Is
  <2>9. QED
    BY <2>8
<1>3. Len(deps) \in T
  <2> HIDE DEF T
  <2> QED
    BY <1>1, <1>2, SetInduction
<1>4. r = CHOOSE g : Is(Len(deps), g)
  BY DEF Raised
<1>5. Is(Len(deps), r)
  <2>1. \E g : Is(Len(deps), g)
    BY <1>3
  <2> HIDE DEF Is, r
  <2>2. QED
    BY <1>4, <2>1
<1> HIDE DEF r
<1>6. r[0] = selected /\ \A n \in 1..Len(deps) : r[n] = Raise(reqs, r[n - 1], deps[n])
  BY <1>5
<1>7. QED
  BY <1>6 DEF r

Selections == [Path -> Choice]

\* One requirement is taken into account, and nothing goes down.
LEMMA RaiseOnce ==
  ASSUME NEW reqs, GoodReqs(reqs), NEW selected \in Selections, NEW dep \in Real
  PROVE  /\ Raise(reqs, selected, dep) \in Selections
         /\ \A p \in Path : \/ Raise(reqs, selected, dep)[p] = selected[p]
                            \/ dep = <<p, Raise(reqs, selected, dep)[p]>>
         /\ \A p \in Path : NotBelow(reqs, p, Raise(reqs, selected, dep)[p], selected[p])
         /\ NotBelow(reqs, PathOf(dep), Raise(reqs, selected, dep)[PathOf(dep)], VersionOf(dep))
<1> DEFINE p == PathOf(dep)
           v == VersionOf(dep)
           r == Raise(reqs, selected, dep)
<1>1. p \in Path /\ v \in Version /\ v \in Choice /\ dep = <<p, v>>
  BY DEF Real, Choice, PathOf, VersionOf
<1>2. selected[p] \in Choice /\ \A q \in Path : selected[q] \in Choice
  BY <1>1 DEF Selections
<1>3. \A q \in Path : NotBelow(reqs, q, selected[q], selected[q])
  BY <1>2, NotBelowOrders
<1>4. CASE NotBelow(reqs, p, selected[p], v)
  <2>1. ~(Cmp(reqs, p, selected[p], v) < 0)
    BY <1>1, <1>2, <1>4, CmpBelow
  <2>2. r = selected
    BY <2>1 DEF Raise
  <2> HIDE DEF r, p, v
  <2>3. QED
    BY <1>3, <1>4, <2>2 DEF r, p, v
<1>5. CASE ~NotBelow(reqs, p, selected[p], v)
  <2>1. Cmp(reqs, p, selected[p], v) < 0
    BY <1>1, <1>2, <1>5, CmpBelow
  <2>2. r = [selected EXCEPT ![p] = v]
    BY <2>1 DEF Raise
  <2>3. NotBelow(reqs, p, v, selected[p]) /\ NotBelow(reqs, p, v, v)
    BY <1>1, <1>2, <1>5, NotBelowOrders
  <2>4. r \in Selections /\ r[p] = v /\ \A q \in Path : q # p => r[q] = selected[q]
    BY <1>1, <2>2 DEF Selections
  <2> HIDE DEF r, p, v
  <2>5. \A q \in Path : r[q] = selected[q] \/ dep = <<q, r[q]>>
    BY <1>1, <2>4
  <2>6. \A q \in Path : NotBelow(reqs, q, r[q], selected[q])
    BY <1>3, <2>3, <2>4
  <2>7. NotBelow(reqs, p, r[p], v)
    BY <2>3, <2>4
  <2>8. QED
    BY <2>4, <2>5, <2>6, <2>7 DEF r, p, v
<1>6. QED
  BY <1>4, <1>5

\* So it is after any number of them.
LEMMA RaisedIs ==
  ASSUME NEW reqs, GoodReqs(reqs), NEW selected \in Selections, NEW deps \in Seq(Real),
         NEW k \in 0..Len(deps)
  PROVE  LET r == Raised(reqs, selected, deps)[k] IN
         /\ r \in Selections
         /\ \A p \in Path : r[p] = selected[p] \/ \E i \in 1..k : deps[i] = <<p, r[p]>>
         /\ \A p \in Path : NotBelow(reqs, p, r[p], selected[p])
         /\ \A i \in 1..k : NotBelow(reqs, PathOf(deps[i]), r[PathOf(deps[i])], VersionOf(deps[i]))
<1> DEFINE r == Raised(reqs, selected, deps)
           Good(n) ==
             /\ r[n] \in Selections
             /\ \A p \in Path : r[n][p] = selected[p] \/ \E i \in 1..n : deps[i] = <<p, r[n][p]>>
             /\ \A p \in Path : NotBelow(reqs, p, r[n][p], selected[p])
             /\ \A i \in 1..n :
                  NotBelow(reqs, PathOf(deps[i]), r[n][PathOf(deps[i])], VersionOf(deps[i]))
           T == {n \in Nat : n <= Len(deps) => Good(n)}
<1>1. r[0] = selected /\ \A n \in 1..Len(deps) : r[n] = Raise(reqs, r[n - 1], deps[n])
  BY RaisedUnfolds
<1> HIDE DEF r
<1>2. 0 \in T
  <2>1. \A p \in Path : NotBelow(reqs, p, selected[p], selected[p])
    BY NotBelowOrders DEF Selections
  <2>2. QED
    BY <1>1, <2>1
<1>3. ASSUME NEW n \in Nat, n \in T PROVE n + 1 \in T
  <2> HIDE DEF Good
  <2>1. SUFFICES ASSUME n + 1 <= Len(deps) PROVE Good(n + 1)
    OBVIOUS
  <2>a. Good(n)
    BY <1>3, <2>1
  <2> USE DEF Good
  <2>2. /\ r[n] \in Selections
        /\ \A p \in Path : r[n][p] = selected[p] \/ \E i \in 1..n : deps[i] = <<p, r[n][p]>>
        /\ \A p \in Path : NotBelow(reqs, p, r[n][p], selected[p])
        /\ \A i \in 1..n :
             NotBelow(reqs, PathOf(deps[i]), r[n][PathOf(deps[i])], VersionOf(deps[i]))
    BY <2>a
  <2>3. n + 1 \in 1..Len(deps) /\ (n + 1) - 1 = n
    BY <2>1
  <2> DEFINE dep == deps[n + 1]
             now == r[n + 1]
  <2>4. dep \in Real
    BY <2>3
  <2>5. now = Raise(reqs, r[n], dep)
    BY <1>1, <2>3
  <2> HIDE DEF dep, now
  <2>6. /\ now \in Selections
        /\ \A p \in Path : now[p] = r[n][p] \/ dep = <<p, now[p]>>
        /\ \A p \in Path : NotBelow(reqs, p, now[p], r[n][p])
        /\ NotBelow(reqs, PathOf(dep), now[PathOf(dep)], VersionOf(dep))
    BY <2>2, <2>4, <2>5, RaiseOnce
  <2>7. \A p \in Path : now[p] \in Choice /\ r[n][p] \in Choice /\ selected[p] \in Choice
    BY <2>2, <2>6 DEF Selections
  <2>8. \A p \in Path : now[p] = selected[p] \/ \E i \in 1..(n + 1) : deps[i] = <<p, now[p]>>
    <3>1. SUFFICES ASSUME NEW p \in Path, now[p] # selected[p]
                   PROVE  \E i \in 1..(n + 1) : deps[i] = <<p, now[p]>>
      OBVIOUS
    <3>2. CASE now[p] = r[n][p]
      <4>1. PICK i \in 1..n : deps[i] = <<p, r[n][p]>>
        BY <2>2, <3>1, <3>2
      <4>2. i \in 1..(n + 1)
        OBVIOUS
      <4>3. QED
        BY <3>2, <4>1, <4>2
    <3>3. CASE dep = <<p, now[p]>>
      BY <3>3 DEF dep
    <3>4. QED
      BY <2>6, <3>2, <3>3
  <2>9. \A p \in Path : NotBelow(reqs, p, now[p], selected[p])
    BY <2>2, <2>6, <2>7, NotBelowOrders
  <2>10. \A i \in 1..(n + 1) :
           NotBelow(reqs, PathOf(deps[i]), now[PathOf(deps[i])], VersionOf(deps[i]))
    <3>1. TAKE i \in 1..(n + 1)
    <3>2. CASE i = n + 1
      BY <2>6, <3>2 DEF dep
    <3>3. CASE i \in 1..n
      <4>1. PathOf(deps[i]) \in Path /\ VersionOf(deps[i]) \in Choice
        BY <2>1, <3>3 DEF Real, Choice, PathOf, VersionOf
      <4>2. NotBelow(reqs, PathOf(deps[i]), r[n][PathOf(deps[i])], VersionOf(deps[i]))
        BY <2>2, <3>3
      <4>3. QED
        BY <2>6, <2>7, <4>1, <4>2, NotBelowOrders
    <3>4. QED
      BY <3>2, <3>3
  <2>11. QED
    BY <2>6, <2>8, <2>9, <2>10 DEF now
<1>4. k \in T
  <2> HIDE DEF T
  <2> QED
    BY <1>2, <1>3, SetInduction
<1>5. Good(k)
  <2> HIDE DEF Good
  <2> QED
    BY <1>4
<1>6. QED
  BY <1>5 DEF r

-----------------------------------------------------------------------------
(* The graph. *)

\* What is selected is one of reach, and the highest of its path.
Selects(reqs, selected, reach) ==
  /\ selected \in Selections
  /\ \A p \in Path : selected[p] # NoVersion => <<p, selected[p]>> \in reach
  /\ \A x \in reach : NotBelow(reqs, PathOf(x), selected[PathOf(x)], VersionOf(x))

LEMMA NothingSelected ==
  ASSUME NEW reqs
  PROVE  Selects(reqs, NoneSelected, {})
BY DEF Selects, NoneSelected, Selections, Choice

\* It stays so when requirements are added.
LEMMA RaiseAllSelects ==
  ASSUME NEW reqs, GoodReqs(reqs), NEW selected, NEW reach \in SUBSET Real,
         Selects(reqs, selected, reach), NEW deps \in Seq(Real)
  PROVE  Selects(reqs, RaiseAll(reqs, selected, deps), reach \cup ToSet(deps))
<1> DEFINE r == Raised(reqs, selected, deps)[Len(deps)]
<1>1. /\ r \in Selections
      /\ \A p \in Path : r[p] = selected[p] \/ \E i \in 1..Len(deps) : deps[i] = <<p, r[p]>>
      /\ \A p \in Path : NotBelow(reqs, p, r[p], selected[p])
      /\ \A i \in 1..Len(deps) :
           NotBelow(reqs, PathOf(deps[i]), r[PathOf(deps[i])], VersionOf(deps[i]))
  <2>1. Len(deps) \in 0..Len(deps)
    OBVIOUS
  <2>2. QED
    BY <2>1, RaisedIs DEF Selects
<1>2. RaiseAll(reqs, selected, deps) = r
  BY DEF RaiseAll
<1> HIDE DEF r
<1>3. ToSet(deps) = {deps[i] : i \in 1..Len(deps)}
  BY DEF ToSet
<1>4. ASSUME NEW p \in Path, r[p] # NoVersion PROVE <<p, r[p]>> \in reach \cup ToSet(deps)
  <2>1. CASE r[p] = selected[p]
    BY <1>4, <2>1 DEF Selects
  <2>2. CASE \E i \in 1..Len(deps) : deps[i] = <<p, r[p]>>
    BY <1>3, <2>2
  <2>3. QED
    BY <1>1, <2>1, <2>2
<1>5. ASSUME NEW x \in reach \cup ToSet(deps)
      PROVE  NotBelow(reqs, PathOf(x), r[PathOf(x)], VersionOf(x))
  <2>1. CASE x \in reach
    <3>1. PathOf(x) \in Path /\ VersionOf(x) \in Choice
      BY <2>1 DEF Real, Choice, PathOf, VersionOf
    <3>2. r[PathOf(x)] \in Choice /\ selected[PathOf(x)] \in Choice
      BY <1>1, <3>1 DEF Selections, Selects
    <3>3. NotBelow(reqs, PathOf(x), selected[PathOf(x)], VersionOf(x))
      BY <2>1 DEF Selects
    <3>4. QED
      BY <1>1, <3>1, <3>2, <3>3, NotBelowOrders
  <2>2. CASE x \in ToSet(deps)
    BY <1>1, <1>3, <2>2
  <2>3. QED
    BY <2>1, <2>2
<1>6. QED
  BY <1>1, <1>2, <1>4, <1>5 DEF Selects

\* What is selected was, or is one of the requirements.
LEMMA RaiseAllIs ==
  ASSUME NEW reqs, GoodReqs(reqs), NEW selected \in Selections, NEW deps \in Seq(Real)
  PROVE  /\ RaiseAll(reqs, selected, deps) \in Selections
         /\ \A p \in Path : \/ RaiseAll(reqs, selected, deps)[p] = selected[p]
                            \/ <<p, RaiseAll(reqs, selected, deps)[p]>> \in ToSet(deps)
<1> DEFINE r == Raised(reqs, selected, deps)[Len(deps)]
<1>1. Len(deps) \in 0..Len(deps)
  OBVIOUS
<1>2. /\ r \in Selections
      /\ \A p \in Path : r[p] = selected[p] \/ \E i \in 1..Len(deps) : deps[i] = <<p, r[p]>>
  BY <1>1, RaisedIs
<1>3. RaiseAll(reqs, selected, deps) = r
  BY DEF RaiseAll
<1> HIDE DEF r
<1>4. ToSet(deps) = {deps[i] : i \in 1..Len(deps)}
  BY DEF ToSet
<1>5. QED
  BY <1>2, <1>3, <1>4

\* The main module's own version stays selected, whatever is required of its
\* path: it is above all others.
LEMMA MainIsSelected ==
  ASSUME NEW reqs, GoodReqs(reqs), NEW selected, NEW reach,
         Selects(reqs, selected, reach), reqs.main \in reach
  PROVE  /\ PathOf(reqs.main) \in Path
         /\ selected[PathOf(reqs.main)] = VersionOf(reqs.main)
         /\ VersionOf(reqs.main) # NoVersion
<1>1. /\ PathOf(reqs.main) \in Path /\ VersionOf(reqs.main) \in Version
      /\ VersionOf(reqs.main) \in Choice
      /\ reqs.main = <<PathOf(reqs.main), VersionOf(reqs.main)>>
  BY DEF GoodReqs, Real, Choice, PathOf, VersionOf
<1>2. selected[PathOf(reqs.main)] \in Choice
  BY <1>1 DEF Selects, Selections
<1>3. NotBelow(reqs, PathOf(reqs.main), selected[PathOf(reqs.main)], VersionOf(reqs.main))
  BY DEF Selects
<1>4. QED
  BY <1>1, <1>2, <1>3, NotBelowOrders, VersionAssumption

-----------------------------------------------------------------------------
(* The build list. *)

\* The main module is the only root: the loop takes one turn.
LEMMA RootsListedOne ==
  ASSUME NEW g, NEW m, g.roots = <<m>>, g.selected[PathOf(m)] = VersionOf(m),
         VersionOf(m) # NoVersion, m = <<PathOf(m), VersionOf(m)>>
  PROVE  RootsListed(g)[Len(g.roots)] = <<m>>
<1> DEFINE Turn(n, before) ==
             IF g.selected[PathOf(g.roots[n])] = NoVersion
                \/ <<PathOf(g.roots[n]), g.selected[PathOf(g.roots[n])]>> \in ToSet(before)
             THEN before
             ELSE Append(before, <<PathOf(g.roots[n]), g.selected[PathOf(g.roots[n])]>>)
           Is(f) == f = [n \in 0..Len(g.roots) |-> IF n = 0 THEN <<>> ELSE Turn(n, f[n - 1])]
           r == RootsListed(g)
<1>1. Len(g.roots) = 1 /\ g.roots[1] = m
  OBVIOUS
<1>2. r = CHOOSE f : Is(f)
  BY DEF RootsListed
<1>7. Turn(1, <<>>) = <<m>>
  BY <1>1 DEF ToSet
<1> HIDE DEF Turn
<1>3. \E f : Is(f)
  <2> DEFINE h == [n \in 0..1 |-> IF n = 0 THEN <<>> ELSE Turn(1, <<>>)]
  <2>1. h[0] = <<>> /\ h[1] = Turn(1, h[0]) /\ h = [n \in 0..1 |-> h[n]]
    OBVIOUS
  <2> HIDE DEF h
  <2>2. \A n \in 0..1 : h[n] = IF n = 0 THEN <<>> ELSE Turn(n, h[n - 1])
    <3>1. TAKE n \in 0..1
    <3>2. n = 0 \/ (n = 1 /\ n - 1 = 0)
      OBVIOUS
    <3>3. QED
      BY <2>1, <3>2
  <2>3. h = [n \in 0..1 |-> IF n = 0 THEN <<>> ELSE Turn(n, h[n - 1])]
    BY <2>1, <2>2
  <2>4. Is(h)
    BY <1>1, <2>3
  <2> HIDE DEF Is
  <2>5. QED
    BY <2>4
<1>4. Is(r)
  <2> HIDE DEF Is, r
  <2> QED
    BY <1>2, <1>3
<1> HIDE DEF r
<1>5. r[0] = <<>>
  BY <1>1, <1>4
<1>6. r[1] = Turn(1, r[0])
  BY <1>1, <1>4
<1>8. QED
  BY <1>1, <1>5, <1>6, <1>7 DEF r

\* The main module, then the highest of each other path, by path.
LEMMA GraphBuildListIs ==
  ASSUME NEW reqs, GoodReqs(reqs), NEW g, g.roots = <<reqs.main>>,
         Selects(reqs, g.selected, g.reach), reqs.main \in g.reach,
         NEW list, list = GraphBuildList(g)
  PROVE  /\ list \in Seq(Real) /\ list # <<>>
         /\ list[1] = reqs.main
         /\ \A i, j \in 2..Len(list) : i < j => PathOf(list[i]) < PathOf(list[j])
         /\ \A m \in Real : m \in ToSet(list) <=> g.selected[PathOf(m)] = VersionOf(m)
<1> DEFINE main1 == reqs.main
           others == SortWith(OtherPaths(g))
           tail == [i \in DOMAIN others |-> <<others[i], g.selected[others[i]]>>]
<1>1. /\ PathOf(main1) \in Path /\ g.selected[PathOf(main1)] = VersionOf(main1)
      /\ VersionOf(main1) # NoVersion
  BY MainIsSelected
<1>2. main1 \in Real /\ main1 = <<PathOf(main1), VersionOf(main1)>>
  BY DEF GoodReqs, Real, PathOf, VersionOf
<1>3. RootsListed(g)[Len(g.roots)] = <<main1>>
  BY <1>1, <1>2, RootsListedOne
<1>4. list = <<main1>> \o tail
  BY <1>3 DEF GraphBuildList
<1>5. OtherPaths(g) = {p \in Path \ {PathOf(main1)} : g.selected[p] # NoVersion}
  <2>1. {PathOf(r) : r \in ToSet(g.roots)} = {PathOf(main1)}
    BY DEF ToSet
  <2>2. QED
    BY <2>1 DEF OtherPaths
<1>6. OtherPaths(g) \in SUBSET Path
  BY <1>5
<1>7. /\ others \in Seq(OtherPaths(g))
      /\ ToSet(others) = OtherPaths(g)
      /\ \A i, j \in DOMAIN others : i < j => others[i] < others[j]
  BY <1>6, SortWithSorts
<1> HIDE DEF others
<1>8. \A p \in OtherPaths(g) : <<p, g.selected[p]>> \in Real
  <2>1. \A p \in Path : g.selected[p] \in Choice
    BY DEF Selects, Selections
  <2>2. QED
    BY <1>5, <2>1 DEF Real, Choice
<1>9. tail \in Seq(Real) /\ Len(tail) = Len(others)
      /\ \A i \in 1..Len(others) : tail[i] = <<others[i], g.selected[others[i]]>>
  <2>1. DOMAIN others = 1..Len(others) /\ Len(others) \in Nat
    BY <1>7
  <2>2. \A i \in 1..Len(others) : others[i] \in OtherPaths(g)
    BY <1>7
  <2>3. \A i \in 1..Len(others) : <<others[i], g.selected[others[i]]>> \in Real
    BY <1>8, <2>2
  <2>4. QED
    BY <2>1, <2>3
<1> HIDE DEF tail
<1>10. /\ list \in Seq(Real) /\ Len(list) = 1 + Len(others) /\ list[1] = main1
       /\ \A i \in 2..Len(list) : list[i] = tail[i - 1]
  BY <1>2, <1>4, <1>9
<1>11. \A i \in 2..Len(list) :
         i - 1 \in 1..Len(others) /\ list[i] = <<others[i - 1], g.selected[others[i - 1]]>>
  BY <1>7, <1>9, <1>10
<1>12. \A i, j \in 2..Len(list) : i < j => PathOf(list[i]) < PathOf(list[j])
  <2>1. TAKE i, j \in 2..Len(list)
  <2>2. HAVE i < j
  <2>3. i - 1 < j - 1
    BY <2>2
  <2>4. others[i - 1] < others[j - 1]
    BY <1>7, <1>11, <2>3
  <2>5. QED
    BY <1>11, <2>4 DEF PathOf
<1>13. ASSUME NEW m \in Real PROVE m \in ToSet(list) <=> g.selected[PathOf(m)] = VersionOf(m)
  <2>1. m = <<PathOf(m), VersionOf(m)>> /\ PathOf(m) \in Path /\ VersionOf(m) # NoVersion
    BY VersionAssumption DEF Real, PathOf, VersionOf
  <2>2. ToSet(list) = {list[i] : i \in 1..Len(list)}
    BY <1>10 DEF ToSet
  <2>3. ASSUME m \in ToSet(list) PROVE g.selected[PathOf(m)] = VersionOf(m)
    <3>1. PICK i \in 1..Len(list) : m = list[i]
      BY <2>2, <2>3
    <3>2. CASE i = 1
      BY <1>1, <1>10, <3>1, <3>2
    <3>3. CASE i # 1
      <4>1. i \in 2..Len(list)
        BY <1>10, <3>3
      <4>2. QED
        BY <1>11, <3>1, <4>1 DEF PathOf, VersionOf
    <3>4. QED
      BY <3>2, <3>3
  <2>4. ASSUME g.selected[PathOf(m)] = VersionOf(m) PROVE m \in ToSet(list)
    <3>1. CASE PathOf(m) = PathOf(main1)
      <4>1. m = main1
        BY <1>1, <1>2, <2>1, <2>4, <3>1
      <4>2. 1 \in 1..Len(list)
        BY <1>7, <1>10
      <4>3. QED
        BY <1>10, <2>2, <4>1, <4>2
    <3>2. CASE PathOf(m) # PathOf(main1)
      <4>1. PathOf(m) \in ToSet(others)
        BY <1>5, <1>7, <2>1, <2>4, <3>2
      <4>2. PICK i \in 1..Len(others) : others[i] = PathOf(m)
        BY <1>7, <4>1 DEF ToSet
      <4>3. i + 1 \in 2..Len(list) /\ (i + 1) - 1 = i /\ i + 1 \in 1..Len(list)
        BY <1>7, <1>10
      <4>4. list[i + 1] = m
        BY <1>11, <2>1, <2>4, <4>2, <4>3
      <4>5. QED
        BY <2>2, <4>3, <4>4
    <3>3. QED
      BY <3>1, <3>2
  <2>5. QED
    BY <2>3, <2>4
<1>14. list # <<>>
  BY <1>7, <1>10
<1>15. QED
  BY <1>10, <1>12, <1>13, <1>14

-----------------------------------------------------------------------------
(* What the main module reaches. *)

AllMods == Cardinality(Mod)

LEMMA ModsAreFinite == IsFiniteSet(Mod) /\ AllMods \in Nat /\ Real \subseteq Mod
<1>1. IsFiniteSet(Version \cup {NoVersion})
  BY VersionAssumption, FS_AddElement
<1>2. IsFiniteSet(Mod)
  BY <1>1, PathAssumption, FS_Product DEF Mod
<1>3. QED
  BY <1>2, FS_CardinalityType DEF AllMods, Real, Mod

\* One requirement further.
Further(w, S) == S \cup UNION {ToSet(Needs(w, m)) : m \in S}

LEMMA WithinUnfolds ==
  ASSUME NEW w
  PROVE  /\ Within(w)[0] = {Main(w)}
         /\ \A n \in 1..AllMods : Within(w)[n] = Further(w, Within(w)[n - 1])
<1> DEFINE first == {Main(w)}
           Is(N, g) == g = [n \in 0..N |-> IF n = 0 THEN first ELSE Further(w, g[n - 1])]
           T == {N \in Nat : \E g : Is(N, g)}
           r == Within(w)
<1>1. r = CHOOSE g : Is(AllMods, g)
  BY DEF Within, Further, AllMods
<1> HIDE DEF r, first
<1>2. 0 \in T
  <2>1. Is(0, [n \in 0..0 |-> first])
    OBVIOUS
  <2>2. QED
    BY <2>1
<1>3. ASSUME NEW N \in Nat, N \in T PROVE N + 1 \in T
  <2>1. PICK g : Is(N, g)
    BY <1>3
  <2> DEFINE h == [n \in 0..(N + 1) |-> IF n = N + 1 THEN Further(w, g[N]) ELSE g[n]]
  <2>2. \A n \in 0..N : h[n] = g[n]
    OBVIOUS
  <2>3. h[0] = first
    BY <2>1, <2>2
  <2>4. \A n \in 1..N : h[n] = Further(w, h[n - 1])
    BY <2>1, <2>2
  <2>5. h[N + 1] = Further(w, h[(N + 1) - 1])
    BY <2>2
  <2>6. \A n \in 0..(N + 1) : h[n] = IF n = 0 THEN first ELSE Further(w, h[n - 1])
    <3> HIDE DEF h
    <3> QED
      BY <2>3, <2>4, <2>5
  <2>7. h = [n \in 0..(N + 1) |-> h[n]]
    OBVIOUS
  <2> HIDE DEF h
  <2>8. Is(N + 1, h)
    BY <2>6, <2>7
  <2> HIDE DEF Is
  <2>9. QED
    BY <2>8
<1>4. AllMods \in T
  <2> HIDE DEF T
  <2> QED
    BY <1>2, <1>3, SetInduction, ModsAreFinite
<1>5. Is(AllMods, r)
  <2>1. \E g : Is(AllMods, g)
    BY <1>4
  <2> HIDE DEF Is
  <2>2. QED
    BY <1>1, <2>1
<1>6. AllMods \in Nat
  BY ModsAreFinite
<1>7. r[0] = first /\ \A n \in 1..AllMods : r[n] = Further(w, r[n - 1])
  BY <1>5, <1>6
<1>8. QED
  BY <1>7 DEF r, first

\* S holds what its members require.
Closed(w, S) == \A m \in S : ToSet(Needs(w, m)) \subseteq S

LEMMA FurtherIs ==
  ASSUME NEW w, NEW S
  PROVE  /\ S \subseteq Further(w, S)
         /\ \A m \in S : ToSet(Needs(w, m)) \subseteq Further(w, S)
         /\ Further(w, S) = S <=> Closed(w, S)
         /\ \A R : S \subseteq R /\ Closed(w, R) => Further(w, S) \subseteq R
BY DEF Further, Closed

\* Within is made of real versions, and is within whatever is closed.
LEMMA WithinIsLeast ==
  ASSUME NEW w, NEW S, Main(w) \in S, Closed(w, S), NEW k \in 0..AllMods
  PROVE  Within(w)[k] \subseteq S
<1> DEFINE T == {n \in Nat : n <= AllMods => Within(w)[n] \subseteq S}
<1>1. 0 \in T
  BY WithinUnfolds
<1>2. ASSUME NEW n \in Nat, n \in T PROVE n + 1 \in T
  <2>1. SUFFICES ASSUME n + 1 <= AllMods PROVE Within(w)[n + 1] \subseteq S
    OBVIOUS
  <2>2. n <= AllMods /\ n + 1 \in 1..AllMods /\ (n + 1) - 1 = n
    BY <2>1, ModsAreFinite
  <2>3. Within(w)[n] \subseteq S
    BY <1>2, <2>2
  <2>4. Within(w)[n + 1] = Further(w, Within(w)[n])
    BY <2>2, WithinUnfolds
  <2>5. QED
    BY <2>3, <2>4, FurtherIs
<1>3. k \in T
  <2> HIDE DEF T
  <2> QED
    BY <1>1, <1>2, SetInduction
<1>4. QED
  BY <1>3

LEMMA NeedsAreReal ==
  ASSUME NEW w \in World
  PROVE  /\ Main(w) \in Real
         /\ \A m \in Real : Needs(w, m) \in Seq(Real) /\ ToSet(Needs(w, m)) \subseteq Real
         /\ Closed(w, Real)
<1>1. Main(w) \in Real /\ \A m \in Real : Needs(w, m) \in Seq(Real)
  BY WorldAssumption DEF Needs, Real
<1>2. \A m \in Real : ToSet(Needs(w, m)) \subseteq Real
  BY <1>1 DEF ToSet
<1>3. QED
  BY <1>1, <1>2 DEF Closed

\* From a closed set on, nothing is added.
LEMMA ClosedStays ==
  ASSUME NEW w, NEW n \in 0..AllMods, Closed(w, Within(w)[n])
  PROVE  \A k \in n..AllMods : Within(w)[k] = Within(w)[n]
<1> DEFINE T == {d \in Nat : n + d <= AllMods => Within(w)[n + d] = Within(w)[n]}
<1>1. AllMods \in Nat
  BY ModsAreFinite
<1>2. 0 \in T
  BY <1>1
<1>3. ASSUME NEW d \in Nat, d \in T PROVE d + 1 \in T
  <2>1. SUFFICES ASSUME n + (d + 1) <= AllMods PROVE Within(w)[n + (d + 1)] = Within(w)[n]
    OBVIOUS
  <2>2. n + d <= AllMods /\ n + (d + 1) \in 1..AllMods /\ (n + (d + 1)) - 1 = n + d
    BY <1>1, <2>1
  <2>3. Within(w)[n + d] = Within(w)[n]
    BY <1>3, <2>2
  <2>4. Within(w)[n + (d + 1)] = Further(w, Within(w)[n + d])
    BY <2>2, WithinUnfolds
  <2>5. QED
    BY <2>3, <2>4, FurtherIs
<1>4. Nat \subseteq T
  <2> HIDE DEF T
  <2> QED
    BY <1>2, <1>3, SetInduction
<1>5. TAKE k \in n..AllMods
<1>6. k - n \in Nat /\ n + (k - n) = k /\ k <= AllMods
  BY <1>1
<1>7. k - n \in T
  BY <1>4, <1>6
<1>8. QED
  BY <1>6, <1>7

\* While nothing closed is reached, every turn adds a module; there are only
\* so many of them.
LEMMA SomeClosed ==
  ASSUME NEW w \in World
  PROVE  \E n \in 0..AllMods : Closed(w, Within(w)[n])
<1>1. SUFFICES ASSUME \A n \in 0..AllMods : ~Closed(w, Within(w)[n]) PROVE FALSE
  OBVIOUS
<1>2. \A n \in 0..AllMods : /\ Within(w)[n] \subseteq Mod
                            /\ IsFiniteSet(Within(w)[n])
                            /\ Cardinality(Within(w)[n]) \in Nat
                            /\ Cardinality(Within(w)[n]) <= AllMods
  <2>1. TAKE n \in 0..AllMods
  <2>2. Within(w)[n] \subseteq Mod
    BY NeedsAreReal, WithinIsLeast, ModsAreFinite
  <2>3. QED
    BY <2>2, ModsAreFinite, FS_Subset, FS_CardinalityType DEF AllMods
<1> DEFINE T == {n \in Nat : n <= AllMods => Cardinality(Within(w)[n]) >= n + 1}
<1>3. 0 \in T
  <2>1. Within(w)[0] = {Main(w)}
    BY WithinUnfolds
  <2>2. Cardinality(Within(w)[0]) = 1
    BY <2>1, FS_Singleton
  <2>3. QED
    BY <2>2
<1>4. ASSUME NEW n \in Nat, n \in T PROVE n + 1 \in T
  <2>1. SUFFICES ASSUME n + 1 <= AllMods PROVE Cardinality(Within(w)[n + 1]) >= (n + 1) + 1
    OBVIOUS
  <2>2. /\ n \in 0..AllMods /\ n + 1 \in 1..AllMods /\ n + 1 \in 0..AllMods
        /\ (n + 1) - 1 = n /\ n <= AllMods
    BY <2>1, ModsAreFinite
  <2>3. Cardinality(Within(w)[n]) >= n + 1
    BY <1>4, <2>2
  <2>4. Within(w)[n + 1] = Further(w, Within(w)[n])
    BY <2>2, WithinUnfolds
  <2>5. Within(w)[n] \subseteq Within(w)[n + 1] /\ Within(w)[n] # Within(w)[n + 1]
    BY <1>1, <2>2, <2>4, FurtherIs
  <2>6. /\ Cardinality(Within(w)[n]) <= Cardinality(Within(w)[n + 1])
        /\ Cardinality(Within(w)[n]) # Cardinality(Within(w)[n + 1])
    BY <1>2, <2>2, <2>5, FS_Subset
  <2>7. Cardinality(Within(w)[n]) \in Nat /\ Cardinality(Within(w)[n + 1]) \in Nat
    BY <1>2, <2>2
  <2> HIDE DEF T
  <2>8. QED
    BY <2>3, <2>6, <2>7
<1>5. AllMods \in T
  <2> HIDE DEF T
  <2> QED
    BY <1>3, <1>4, SetInduction, ModsAreFinite
<1>6. AllMods \in 0..AllMods
  BY ModsAreFinite
<1>7. QED
  BY <1>2, <1>5, <1>6

ReachedIn(w) == Within(w)[AllMods]

\* What the main module reaches: the least set with it that is closed.
LEMMA ReachedIsLeast ==
  ASSUME NEW w \in World
  PROVE  /\ Main(w) \in ReachedIn(w)
         /\ ReachedIn(w) \subseteq Real
         /\ Closed(w, ReachedIn(w))
         /\ \A S : Main(w) \in S /\ Closed(w, S) => ReachedIn(w) \subseteq S
         /\ \A k \in 0..AllMods : Within(w)[k] \subseteq ReachedIn(w)
<1>1. AllMods \in 0..AllMods /\ 0 \in 0..AllMods
  BY ModsAreFinite
<1>2. PICK n \in 0..AllMods : Closed(w, Within(w)[n])
  BY SomeClosed
<1>3. ReachedIn(w) = Within(w)[n]
  BY <1>1, <1>2, ClosedStays, ModsAreFinite DEF ReachedIn
<1>4. Closed(w, ReachedIn(w))
  BY <1>2, <1>3
<1>5. ReachedIn(w) \subseteq Real
  BY <1>1, NeedsAreReal, WithinIsLeast DEF ReachedIn
<1>6. \A S : Main(w) \in S /\ Closed(w, S) => ReachedIn(w) \subseteq S
  BY <1>1, WithinIsLeast DEF ReachedIn
<1>7. Main(w) \in ReachedIn(w)
  <2> DEFINE T == {k \in Nat : k <= AllMods => Main(w) \in Within(w)[k]}
  <2>1. 0 \in T
    BY WithinUnfolds
  <2>2. ASSUME NEW k \in Nat, k \in T PROVE k + 1 \in T
    <3>1. SUFFICES ASSUME k + 1 <= AllMods PROVE Main(w) \in Within(w)[k + 1]
      OBVIOUS
    <3>2. k <= AllMods /\ k + 1 \in 1..AllMods /\ (k + 1) - 1 = k
      BY <3>1, ModsAreFinite
    <3>3. Main(w) \in Within(w)[k]
      BY <2>2, <3>2
    <3>4. Within(w)[k + 1] = Further(w, Within(w)[k])
      BY <3>2, WithinUnfolds
    <3>5. QED
      BY <3>3, <3>4, FurtherIs
  <2>3. AllMods \in T
    <3> HIDE DEF T
    <3> QED
      BY <2>1, <2>2, SetInduction, ModsAreFinite
  <2>4. QED
    BY <1>1, <2>3 DEF ReachedIn
<1>8. \A k \in 0..AllMods : Within(w)[k] \subseteq ReachedIn(w)
  BY <1>4, <1>7, WithinIsLeast
<1>9. QED
  BY <1>4, <1>5, <1>6, <1>7, <1>8

-----------------------------------------------------------------------------
(* The search of FindPath. *)

\* The turns of the loop over what a module requires.
LEMMA ExpandedUnfolds ==
  ASSUME NEW search, NEW m, NEW deps, Len(deps) \in Nat
  PROVE  /\ Expanded(search, m, deps)[0] = [search EXCEPT !.queue = Tail(@)]
         /\ \A n \in 1..Len(deps) :
              Expanded(search, m, deps)[n] =
                Enqueue(Expanded(search, m, deps)[n - 1], m, deps[n])
<1> DEFINE first == [search EXCEPT !.queue = Tail(@)]
           Is(N, g) == g = [n \in 0..N |-> IF n = 0 THEN first ELSE Enqueue(g[n - 1], m, deps[n])]
           T == {N \in Nat : \E g : Is(N, g)}
           r == Expanded(search, m, deps)
<1>1. r = CHOOSE g : Is(Len(deps), g)
  BY DEF Expanded
<1> HIDE DEF r, first
<1>2. 0 \in T
  <2>1. Is(0, [n \in 0..0 |-> first])
    OBVIOUS
  <2>2. QED
    BY <2>1
<1>3. ASSUME NEW N \in Nat, N \in T PROVE N + 1 \in T
  <2>1. PICK g : Is(N, g)
    BY <1>3
  <2> DEFINE h == [n \in 0..(N + 1) |-> IF n = N + 1 THEN Enqueue(g[N], m, deps[N + 1])
                                        ELSE g[n]]
  <2>2. \A n \in 0..N : h[n] = g[n]
    OBVIOUS
  <2>3. h[0] = first
    BY <2>1, <2>2
  <2>4. \A n \in 1..N : h[n] = Enqueue(h[n - 1], m, deps[n])
    BY <2>1, <2>2
  <2>5. h[N + 1] = Enqueue(h[(N + 1) - 1], m, deps[N + 1])
    BY <2>2
  <2>6. \A n \in 0..(N + 1) : h[n] = IF n = 0 THEN first ELSE Enqueue(h[n - 1], m, deps[n])
    <3> HIDE DEF h
    <3> QED
      BY <2>3, <2>4, <2>5
  <2>7. h = [n \in 0..(N + 1) |-> h[n]]
    OBVIOUS
  <2> HIDE DEF h
  <2>8. Is(N + 1, h)
    BY <2>6, <2>7
  <2> HIDE DEF Is
  <2>9. QED
    BY <2>8
<1>4. Len(deps) \in T
  <2> HIDE DEF T
  <2> QED
    BY <1>2, <1>3, SetInduction
<1>5. Is(Len(deps), r)
  <2>1. \E g : Is(Len(deps), g)
    BY <1>4
  <2> HIDE DEF Is
  <2>2. QED
    BY <1>1, <2>1
<1>6. r[0] = first /\ \A n \in 1..Len(deps) : r[n] = Enqueue(r[n - 1], m, deps[n])
  BY <1>5
<1>7. QED
  BY <1>6 DEF r, first

\* No module is twice in a queue.
Injective(q) == \A i, j \in 1..Len(q) : q[i] = q[j] => i = j

\* After the first k of deps: what was met stays, the rest of the queue stays
\* in front, and what is new got a trail through m and is in the queue.
ExpandedTo(search, cur, m, deps, k) ==
  LET new == DOMAIN cur.trail \ DOMAIN search.trail IN
  /\ cur = [queue |-> cur.queue, trail |-> cur.trail]
  /\ DOMAIN cur.trail = DOMAIN search.trail \cup {deps[i] : i \in 1..k}
  /\ \A x \in DOMAIN search.trail : cur.trail[x] = search.trail[x]
  /\ \A x \in new : cur.trail[x] = Append(search.trail[m], x)
  /\ Len(cur.queue) >= Len(search.queue) - 1
  /\ \A i \in 1..(Len(search.queue) - 1) : cur.queue[i] = search.queue[i + 1]
  /\ Injective(cur.queue)
  /\ \A x : x \in ToSet(cur.queue) <=> x \in ToSet(Tail(search.queue)) \/ x \in new

\* A list is its head and its tail.
LEMMA TailIs ==
  ASSUME NEW S, NEW q \in Seq(S), q # <<>>
  PROVE  /\ Head(q) \in S /\ Tail(q) \in Seq(S) /\ Len(q) \in Nat \ {0}
         /\ Head(q) = q[1] /\ Len(Tail(q)) = Len(q) - 1
         /\ \A k \in 1..(Len(q) - 1) : Tail(q)[k] = q[k + 1]
         /\ \A x : x \in ToSet(q) <=> x = Head(q) \/ x \in ToSet(Tail(q))
<1>1. /\ Head(q) = q[1] /\ Len(q) \in Nat /\ Len(q) > 0 /\ q[1] \in S
      /\ Tail(q) \in Seq(S) /\ Len(Tail(q)) = Len(q) - 1
      /\ \A k \in 1..(Len(q) - 1) : Tail(q)[k] = q[k + 1]
  OBVIOUS
<1>2. ToSet(q) = {q[k] : k \in 1..Len(q)}
      /\ ToSet(Tail(q)) = {Tail(q)[k] : k \in 1..(Len(q) - 1)}
  <2> DEFINE t == Tail(q)
  <2>1. DOMAIN q = 1..Len(q) /\ DOMAIN t = 1..(Len(q) - 1)
    BY <1>1
  <2> HIDE DEF t
  <2>2. ToSet(t) = {t[k] : k \in 1..(Len(q) - 1)}
    BY <2>1 DEF ToSet
  <2>3. ToSet(q) = {q[k] : k \in 1..Len(q)}
    BY <2>1 DEF ToSet
  <2>4. QED
    BY <2>2, <2>3 DEF t
<1>3. \A x : x \in ToSet(q) <=> x = Head(q) \/ x \in ToSet(Tail(q))
  <2>1. TAKE x
  <2>2. ASSUME x \in ToSet(q) PROVE x = Head(q) \/ x \in ToSet(Tail(q))
    <3>1. PICK k \in 1..Len(q) : x = q[k]
      BY <1>2, <2>2
    <3>2. CASE k = 1
      BY <1>1, <3>1, <3>2
    <3>3. CASE k # 1
      <4>1. k - 1 \in 1..(Len(q) - 1) /\ (k - 1) + 1 = k
        BY <1>1, <3>3
      <4>2. Tail(q)[k - 1] = x
        BY <1>1, <3>1, <4>1
      <4>3. QED
        BY <1>2, <4>1, <4>2
    <3>4. QED
      BY <3>2, <3>3
  <2>3. ASSUME x = Head(q) PROVE x \in ToSet(q)
    <3>1. 1 \in 1..Len(q)
      BY <1>1
    <3>2. QED
      BY <1>1, <1>2, <2>3, <3>1
  <2>4. ASSUME x \in ToSet(Tail(q)) PROVE x \in ToSet(q)
    <3>1. PICK k \in 1..(Len(q) - 1) : x = Tail(q)[k]
      BY <1>2, <2>4
    <3>2. k + 1 \in 1..Len(q) /\ x = q[k + 1]
      BY <1>1, <3>1
    <3>3. QED
      BY <1>2, <3>2
  <2>5. QED
    BY <2>2, <2>3, <2>4
<1>4. QED
  BY <1>1, <1>3

\* A queue that something joins.
LEMMA AppendIs ==
  ASSUME NEW S, NEW q \in Seq(S), NEW x \in S
  PROVE  /\ Append(q, x) \in Seq(S) /\ Len(Append(q, x)) = Len(q) + 1 /\ Len(q) \in Nat
         /\ \A i \in 1..Len(q) : Append(q, x)[i] = q[i]
         /\ Append(q, x)[Len(q) + 1] = x
         /\ ToSet(q) = {q[i] : i \in 1..Len(q)}
         /\ \A y : y \in ToSet(Append(q, x)) <=> y \in ToSet(q) \/ y = x
<1> DEFINE a == Append(q, x)
<1>1. /\ a \in Seq(S) /\ Len(a) = Len(q) + 1 /\ Len(q) \in Nat
      /\ \A i \in 1..Len(q) : a[i] = q[i]
      /\ a[Len(q) + 1] = x
  OBVIOUS
<1> HIDE DEF a
<1>2. ToSet(a) = {a[i] : i \in 1..Len(a)} /\ ToSet(q) = {q[i] : i \in 1..Len(q)}
  BY <1>1 DEF ToSet
<1>3. \A y : y \in ToSet(a) <=> y \in ToSet(q) \/ y = x
  <2>1. TAKE y
  <2>2. ASSUME y \in ToSet(a) PROVE y \in ToSet(q) \/ y = x
    <3>1. PICK i \in 1..Len(a) : y = a[i]
      BY <1>2, <2>2
    <3>2. i \in 1..Len(q) \/ i = Len(q) + 1
      BY <1>1
    <3>3. QED
      BY <1>1, <1>2, <3>1, <3>2
  <2>3. ASSUME y \in ToSet(q) PROVE y \in ToSet(a)
    <3>1. PICK i \in 1..Len(q) : y = q[i]
      BY <1>2, <2>3
    <3>2. i \in 1..Len(a)
      BY <1>1
    <3>3. QED
      BY <1>1, <1>2, <3>1, <3>2
  <2>4. ASSUME y = x PROVE y \in ToSet(a)
    <3>1. Len(q) + 1 \in 1..Len(a)
      BY <1>1
    <3>2. QED
      BY <1>1, <1>2, <2>4, <3>1
  <2>5. QED
    BY <2>2, <2>3, <2>4
<1>4. QED
  BY <1>1, <1>2, <1>3 DEF a

LEMMA EnqueueKeeps ==
  ASSUME NEW S, NEW search, NEW cur, NEW m \in DOMAIN search.trail,
         NEW deps \in Seq(S), NEW k \in Nat, k + 1 <= Len(deps),
         Len(search.queue) \in Nat, search.queue # <<>>,
         ToSet(Tail(search.queue)) \subseteq DOMAIN search.trail,
         cur.queue \in Seq(S), ExpandedTo(search, cur, m, deps, k),
         NEW next, next = Enqueue(cur, m, deps[k + 1])
  PROVE  next.queue \in Seq(S) /\ ExpandedTo(search, next, m, deps, k + 1)
<1> DEFINE x == deps[k + 1]
<1>1. x \in S
  OBVIOUS
<1>2. \A y : y \in {deps[i] : i \in 1..(k + 1)} <=> y \in {deps[i] : i \in 1..k} \/ y = x
  <2>1. \A i : i \in 1..(k + 1) <=> i \in 1..k \/ i = k + 1
    OBVIOUS
  <2>2. QED
    BY <2>1
<1> HIDE DEF x
<1>3. CASE x \in DOMAIN cur.trail
  <2>1. next = cur
    BY <1>3 DEF Enqueue, x
  <2>2. DOMAIN cur.trail = DOMAIN search.trail \cup {deps[i] : i \in 1..(k + 1)}
    <3>1. \A y : y \in DOMAIN cur.trail <=>
                   y \in DOMAIN search.trail \/ y \in {deps[i] : i \in 1..(k + 1)}
      BY <1>2, <1>3 DEF ExpandedTo
    <3>2. QED
      BY <3>1
  <2>3. QED
    BY <2>1, <2>2 DEF ExpandedTo
<1>4. CASE x \notin DOMAIN cur.trail
  <2> DEFINE trail == [y \in DOMAIN cur.trail \cup {x} |->
                         IF y = x THEN Append(cur.trail[m], x) ELSE cur.trail[y]]
             q == Append(cur.queue, x)
             new == DOMAIN cur.trail \ DOMAIN search.trail
  <2>1. next = [queue |-> q, trail |-> trail]
    BY <1>4 DEF Enqueue, x
  <2>2. /\ DOMAIN trail = DOMAIN cur.trail \cup {x}
        /\ \A y \in DOMAIN cur.trail : trail[y] = cur.trail[y]
        /\ trail[x] = Append(cur.trail[m], x)
    BY <1>4
  <2>3. /\ q \in Seq(S) /\ Len(q) = Len(cur.queue) + 1 /\ Len(cur.queue) \in Nat
        /\ \A i \in 1..Len(cur.queue) : q[i] = cur.queue[i]
        /\ q[Len(cur.queue) + 1] = x
        /\ ToSet(cur.queue) = {cur.queue[i] : i \in 1..Len(cur.queue)}
        /\ \A y : y \in ToSet(q) <=> y \in ToSet(cur.queue) \/ y = x
    BY <1>1, AppendIs
  <2> HIDE DEF trail, q
  <2>4. next.queue = q /\ next.trail = trail /\ next = [queue |-> next.queue, trail |-> next.trail]
    BY <2>1
  <2>5. /\ DOMAIN cur.trail = DOMAIN search.trail \cup {deps[i] : i \in 1..k}
        /\ \A y \in DOMAIN search.trail : cur.trail[y] = search.trail[y]
        /\ \A y \in new : cur.trail[y] = Append(search.trail[m], y)
        /\ Len(cur.queue) >= Len(search.queue) - 1
        /\ \A i \in 1..(Len(search.queue) - 1) : cur.queue[i] = search.queue[i + 1]
        /\ Injective(cur.queue)
        /\ \A y : y \in ToSet(cur.queue) <=> y \in ToSet(Tail(search.queue)) \/ y \in new
    BY DEF ExpandedTo
  <2>6. DOMAIN trail = DOMAIN search.trail \cup {deps[i] : i \in 1..(k + 1)}
    <3>1. \A y : y \in DOMAIN trail <=>
                   y \in DOMAIN search.trail \/ y \in {deps[i] : i \in 1..(k + 1)}
      BY <1>2, <2>2, <2>5
    <3>2. QED
      BY <3>1
  <2>7. \A y : y \in DOMAIN trail \ DOMAIN search.trail <=> y \in new \/ y = x
    BY <1>4, <2>2, <2>5
  <2>8. \A y \in DOMAIN search.trail : trail[y] = search.trail[y]
    BY <2>2, <2>5
  <2>9. \A y \in DOMAIN trail \ DOMAIN search.trail : trail[y] = Append(search.trail[m], y)
    BY <2>2, <2>5, <2>7
  <2>10. /\ Len(q) >= Len(search.queue) - 1
         /\ \A i \in 1..(Len(search.queue) - 1) : q[i] = search.queue[i + 1]
    BY <2>3, <2>5
  <2>11. x \notin ToSet(cur.queue)
    BY <1>4, <2>5
  <2>12. Injective(q)
    <3>1. \A i \in 1..Len(cur.queue) : q[i] # x
      BY <2>3, <2>11
    <3>2. \A i \in 1..Len(q) : i \in 1..Len(cur.queue) \/ i = Len(cur.queue) + 1
      BY <2>3
    <3>3. QED
      BY <2>3, <2>5, <3>1, <3>2 DEF Injective
  <2>13. \A y : y \in ToSet(q) <=>
                  y \in ToSet(Tail(search.queue)) \/ y \in DOMAIN trail \ DOMAIN search.trail
    BY <2>3, <2>5, <2>7
  <2>14. QED
    BY <2>3, <2>4, <2>6, <2>8, <2>9, <2>10, <2>12, <2>13 DEF ExpandedTo
<1>5. QED
  BY <1>3, <1>4

LEMMA ExpandedIs ==
  ASSUME NEW S, NEW search, search = [queue |-> search.queue, trail |-> search.trail],
         search.queue \in Seq(S), search.queue # <<>>, Injective(search.queue),
         ToSet(search.queue) \subseteq DOMAIN search.trail,
         NEW m \in DOMAIN search.trail, NEW deps \in Seq(S)
  PROVE  LET end == Expanded(search, m, deps)[Len(deps)] IN
         end.queue \in Seq(S) /\ ExpandedTo(search, end, m, deps, Len(deps))
<1> DEFINE e == Expanded(search, m, deps)
           Good(n) == e[n].queue \in Seq(S) /\ ExpandedTo(search, e[n], m, deps, n)
           T == {n \in Nat : n <= Len(deps) => Good(n)}
           tail == Tail(search.queue)
<1>1. Len(deps) \in Nat
  OBVIOUS
<1>2. /\ e[0] = [search EXCEPT !.queue = Tail(@)]
      /\ \A n \in 1..Len(deps) : e[n] = Enqueue(e[n - 1], m, deps[n])
  BY <1>1, ExpandedUnfolds
<1>3. /\ tail \in Seq(S) /\ Len(search.queue) \in Nat \ {0} /\ Len(tail) = Len(search.queue) - 1
      /\ \A i \in 1..(Len(search.queue) - 1) : tail[i] = search.queue[i + 1]
      /\ \A x : x \in ToSet(search.queue) <=> x = Head(search.queue) \/ x \in ToSet(tail)
  BY TailIs
<1> HIDE DEF e
<1>4. 0 \in T
  <2>1. [search EXCEPT !.queue = Tail(@)] = [queue |-> tail, trail |-> search.trail]
    <3>1. \A q, t, u : [[queue |-> q, trail |-> t] EXCEPT !.queue = u] = [queue |-> u, trail |-> t]
      OBVIOUS
    <3>2. [search EXCEPT !.queue = Tail(@)] = [search EXCEPT !.queue = tail]
      OBVIOUS
    <3> HIDE DEF tail
    <3>3. QED
      BY <3>1, <3>2
  <2>2. e[0].queue = tail /\ e[0].trail = search.trail
        /\ e[0] = [queue |-> e[0].queue, trail |-> e[0].trail]
    BY <1>2, <2>1
  <2>3. Injective(tail)
    <3> HIDE DEF tail
    <3>1. SUFFICES ASSUME NEW i \in 1..Len(tail), NEW j \in 1..Len(tail), tail[i] = tail[j]
                   PROVE  i = j
      BY DEF Injective
    <3>2. /\ i + 1 \in 1..Len(search.queue) /\ j + 1 \in 1..Len(search.queue)
          /\ search.queue[i + 1] = search.queue[j + 1]
      BY <1>3, <3>1
    <3>3. i + 1 = j + 1
      BY <3>2 DEF Injective
    <3>4. QED
      BY <3>3
  <2>4. {deps[i] : i \in 1..0} = {}
    OBVIOUS
  <2> HIDE DEF tail
  <2>5. ExpandedTo(search, e[0], m, deps, 0)
    BY <1>3, <2>2, <2>3, <2>4 DEF ExpandedTo, tail
  <2>6. QED
    BY <1>3, <2>2, <2>5
<1>5. ASSUME NEW n \in Nat, n \in T PROVE n + 1 \in T
  <2> HIDE DEF Good
  <2>1. SUFFICES ASSUME n + 1 <= Len(deps) PROVE Good(n + 1)
    OBVIOUS
  <2>2. Good(n)
    BY <1>1, <1>5, <2>1
  <2>3. e[n + 1] = Enqueue(e[n], m, deps[n + 1])
    <3>1. n + 1 \in 1..Len(deps) /\ (n + 1) - 1 = n
      BY <1>1, <2>1
    <3>2. QED
      BY <1>2, <3>1
  <2>4. ToSet(Tail(search.queue)) \subseteq DOMAIN search.trail
    BY <1>3
  <2>5. e[n].queue \in Seq(S) /\ ExpandedTo(search, e[n], m, deps, n)
    BY <2>2 DEF Good
  <2>6. e[n + 1].queue \in Seq(S) /\ ExpandedTo(search, e[n + 1], m, deps, n + 1)
    BY <1>3, <2>1, <2>3, <2>4, <2>5, EnqueueKeeps
  <2>7. QED
    BY <2>6 DEF Good
<1>6. Len(deps) \in T
  <2> HIDE DEF T
  <2> QED
    BY <1>1, <1>4, <1>5, SetInduction
<1>7. Good(Len(deps))
  <2> HIDE DEF Good
  <2> QED
    BY <1>6
<1>8. QED
  BY <1>7 DEF e

\* A chain of requirements from the main module.
Chained(w, t) ==
  /\ t \in Seq(ReachedIn(w)) /\ Len(t) \in Nat \ {0}
  /\ t[1] = Main(w)
  /\ \A i \in 1..(Len(t) - 1) : t[i + 1] \in ToSet(Needs(w, t[i]))

LEMMA ChainedAppend ==
  ASSUME NEW w, NEW t, Chained(w, t), NEW x \in ReachedIn(w),
         x \in ToSet(Needs(w, t[Len(t)]))
  PROVE  /\ Chained(w, Append(t, x)) /\ Len(Append(t, x)) = Len(t) + 1
         /\ Append(t, x)[Len(t) + 1] = x
<1> DEFINE a == Append(t, x)
<1>1. /\ a \in Seq(ReachedIn(w)) /\ Len(a) = Len(t) + 1 /\ Len(t) \in Nat \ {0}
      /\ \A i \in 1..Len(t) : a[i] = t[i]
      /\ a[Len(t) + 1] = x
  BY AppendIs DEF Chained
<1> HIDE DEF a
<1>2. ASSUME NEW i \in 1..(Len(a) - 1) PROVE a[i + 1] \in ToSet(Needs(w, a[i]))
  <2>1. i \in 1..Len(t) /\ a[i] = t[i]
    BY <1>1
  <2>2. CASE i = Len(t)
    BY <1>1, <2>1, <2>2
  <2>3. CASE i # Len(t)
    <3>1. i \in 1..(Len(t) - 1) /\ i + 1 \in 1..Len(t)
      BY <1>1, <2>1, <2>3
    <3>2. QED
      BY <1>1, <2>1, <3>1 DEF Chained
  <2>4. QED
    BY <2>2, <2>3
<1>3. 1 \in 1..Len(t) /\ a[1] = Main(w)
  BY <1>1 DEF Chained
<1>4. QED
  BY <1>1, <1>2, <1>3 DEF Chained, a

\* What the search has taken off the queue.
Dequeued(s) == DOMAIN s.trail \ ToSet(s.queue)

\* The trails, and the queue.
TrailInv(w, s) ==
  /\ s = [queue |-> s.queue, trail |-> s.trail]
  /\ s.queue \in Seq(ReachedIn(w)) /\ Injective(s.queue)
  /\ ToSet(s.queue) \subseteq DOMAIN s.trail
  /\ DOMAIN s.trail \subseteq ReachedIn(w)
  /\ \A x \in DOMAIN s.trail : Chained(w, s.trail[x]) /\ s.trail[x][Len(s.trail[x])] = x
  /\ Main(w) \in DOMAIN s.trail /\ Len(s.trail[Main(w)]) = 1

\* What was taken off is done with, and is no farther than what is queued;
\* the queue is in order of distance, and holds no more than two distances.
DistanceInv(w, Wanted, s) ==
  LET far(x) == Len(s.trail[x]) IN
  /\ \A m \in Dequeued(s) :
       /\ m \notin Wanted
       /\ \A y \in ToSet(Needs(w, m)) : y \in DOMAIN s.trail /\ far(y) <= far(m) + 1
       /\ \A y \in ToSet(s.queue) : far(m) <= far(y)
  /\ \A i, j \in 1..Len(s.queue) : i < j => far(s.queue[i]) <= far(s.queue[j])
  /\ \A x, y \in ToSet(s.queue) : far(y) <= far(x) + 1
  /\ \A x \in DOMAIN s.trail : far(x) <= Cardinality(Dequeued(s)) + 1

LEMMA DequeuedIsFinite ==
  ASSUME NEW w \in World, NEW s, TrailInv(w, s)
  PROVE  /\ IsFiniteSet(Dequeued(s)) /\ Cardinality(Dequeued(s)) \in Nat
         /\ Cardinality(Dequeued(s)) <= AllMods
<1>1. Dequeued(s) \subseteq Mod
  BY ReachedIsLeast, ModsAreFinite DEF Dequeued, TrailInv
<1>2. QED
  BY <1>1, ModsAreFinite, FS_Subset, FS_CardinalityType DEF AllMods

LEMMA SearchStep ==
  ASSUME NEW w \in World, NEW g, g.required = [m \in ReachedIn(w) |-> Needs(w, m)],
         NEW Wanted, NEW s, TrailInv(w, s), DistanceInv(w, Wanted, s),
         s.queue # <<>>, Head(s.queue) \notin Wanted,
         NEW n, n = SearchOn(g, Wanted, s)
  PROVE  /\ TrailInv(w, n) /\ DistanceInv(w, Wanted, n)
         /\ Cardinality(Dequeued(n)) = Cardinality(Dequeued(s)) + 1
<1> DEFINE m == Head(s.queue)
           deps == Needs(w, m)
           new == DOMAIN n.trail \ DOMAIN s.trail
           far(x) == Len(s.trail[x])
           tail == Tail(s.queue)
           len == Len(s.queue)
<1>1. /\ len \in Nat \ {0} /\ m = s.queue[1] /\ m \in ReachedIn(w)
      /\ tail \in Seq(ReachedIn(w)) /\ Len(tail) = len - 1
      /\ \A i \in 1..(len - 1) : tail[i] = s.queue[i + 1]
      /\ \A x : x \in ToSet(s.queue) <=> x = m \/ x \in ToSet(tail)
  BY TailIs DEF TrailInv
<1>a. \A x \in ToSet(tail) : \E i \in 1..(len - 1) : x = tail[i] /\ x = s.queue[i + 1]
  <2>1. DOMAIN tail = 1..(len - 1)
    BY <1>1
  <2> HIDE DEF tail, len
  <2>2. QED
    BY <1>1, <2>1 DEF ToSet
<1>2. m \in DOMAIN s.trail /\ m \in ToSet(s.queue)
  BY <1>1 DEF TrailInv
<1>3. deps \in Seq(ReachedIn(w)) /\ RequiredBy(g, m) = deps
  <2>1. deps \in Seq(Real) /\ ToSet(deps) \subseteq ReachedIn(w)
    BY <1>1, NeedsAreReal, ReachedIsLeast DEF Closed
  <2>2. \A i \in 1..Len(deps) : deps[i] \in ReachedIn(w)
    BY <2>1 DEF ToSet
  <2>3. deps \in Seq(ReachedIn(w))
    BY <2>1, <2>2
  <2>4. QED
    BY <1>1, <2>3 DEF RequiredBy
<1>4. n = Expanded(s, m, deps)[Len(deps)]
  BY <1>3 DEF SearchOn
<1>5. n.queue \in Seq(ReachedIn(w)) /\ ExpandedTo(s, n, m, deps, Len(deps))
  BY <1>2, <1>3, <1>4, ExpandedIs DEF TrailInv
<1>6. /\ n = [queue |-> n.queue, trail |-> n.trail]
      /\ DOMAIN n.trail = DOMAIN s.trail \cup ToSet(deps)
      /\ \A x \in DOMAIN s.trail : n.trail[x] = s.trail[x]
      /\ \A x \in new : n.trail[x] = Append(s.trail[m], x)
      /\ Len(n.queue) >= len - 1 /\ Len(n.queue) \in Nat
      /\ \A i \in 1..(len - 1) : n.queue[i] = s.queue[i + 1]
      /\ Injective(n.queue)
      /\ \A x : x \in ToSet(n.queue) <=> x \in ToSet(tail) \/ x \in new
  <2>1. ToSet(deps) = {deps[i] : i \in 1..Len(deps)}
    BY <1>3 DEF ToSet
  <2>2. Len(n.queue) \in Nat
    BY <1>5
  <2>3. QED
    BY <1>5, <2>1, <2>2 DEF ExpandedTo
<1>7. m \notin ToSet(tail) /\ m \notin new
  <2>1. ASSUME m \in ToSet(tail) PROVE FALSE
    <3>1. PICK i \in 1..(len - 1) : m = tail[i]
      BY <1>a, <2>1
    <3>2. i + 1 \in 1..len /\ 1 \in 1..len /\ s.queue[i + 1] = s.queue[1]
      BY <1>1, <3>1
    <3>3. i + 1 = 1
      BY <3>2 DEF TrailInv, Injective
    <3>4. QED
      BY <3>3
  <2>2. QED
    BY <1>2, <2>1
<1> HIDE DEF deps, tail
<1>8. Dequeued(n) = Dequeued(s) \cup {m} /\ m \notin Dequeued(s)
  <2>1. \A x : x \in Dequeued(n) <=> x \in Dequeued(s) \/ x = m
    BY <1>1, <1>2, <1>6, <1>7 DEF Dequeued
  <2>2. QED
    BY <1>2, <2>1 DEF Dequeued
<1>9. Cardinality(Dequeued(n)) = Cardinality(Dequeued(s)) + 1
      /\ Cardinality(Dequeued(s)) \in Nat
  BY <1>8, DequeuedIsFinite, FS_AddElement
<1>10. \A x \in DOMAIN s.trail : /\ Chained(w, s.trail[x]) /\ s.trail[x][far(x)] = x
                                 /\ far(x) \in Nat
  BY DEF TrailInv, Chained
<1>11. ASSUME NEW x \in new
       PROVE  /\ Chained(w, n.trail[x]) /\ Len(n.trail[x]) = far(m) + 1
              /\ n.trail[x][Len(n.trail[x])] = x /\ x \in ToSet(deps)
  <2>1. x \in ToSet(deps) /\ x \in ReachedIn(w)
    <3>1. x \in ToSet(deps)
      BY <1>6
    <3>2. QED
      BY <1>3, <3>1 DEF ToSet
  <2>2. n.trail[x] = Append(s.trail[m], x)
    BY <1>6
  <2>3. x \in ToSet(Needs(w, s.trail[m][Len(s.trail[m])]))
    BY <1>2, <1>10, <2>1 DEF deps
  <2>4. QED
    BY <1>2, <1>10, <2>1, <2>2, <2>3, ChainedAppend
<1>12. TrailInv(w, n)
  <2>1. ToSet(n.queue) \subseteq DOMAIN n.trail
    BY <1>1, <1>6 DEF TrailInv
  <2>2. DOMAIN n.trail \subseteq ReachedIn(w)
    BY <1>3, <1>6 DEF TrailInv, ToSet
  <2>3. \A x \in DOMAIN n.trail : Chained(w, n.trail[x]) /\ n.trail[x][Len(n.trail[x])] = x
    BY <1>6, <1>10, <1>11
  <2>4. Main(w) \in DOMAIN n.trail /\ Len(n.trail[Main(w)]) = 1
    BY <1>6 DEF TrailInv
  <2>5. QED
    BY <1>5, <1>6, <2>1, <2>2, <2>3, <2>4 DEF TrailInv
<1> DEFINE farn(x) == Len(n.trail[x])
<1>13. /\ \A x \in DOMAIN s.trail : farn(x) = far(x) /\ far(x) \in Nat
       /\ \A x \in new : farn(x) = far(m) + 1
  BY <1>6, <1>10, <1>11
<1>14. /\ \A d \in Dequeued(s) :
            /\ d \notin Wanted
            /\ \A y \in ToSet(Needs(w, d)) : y \in DOMAIN s.trail /\ far(y) <= far(d) + 1
            /\ \A y \in ToSet(s.queue) : far(d) <= far(y)
       /\ \A i, j \in 1..len : i < j => far(s.queue[i]) <= far(s.queue[j])
       /\ \A x, y \in ToSet(s.queue) : far(y) <= far(x) + 1
       /\ \A x \in DOMAIN s.trail : far(x) <= Cardinality(Dequeued(s)) + 1
  BY DEF DistanceInv
<1>15. \A x \in ToSet(tail) : x \in DOMAIN s.trail /\ far(m) <= far(x) /\ far(x) <= far(m) + 1
  <2>1. TAKE x \in ToSet(tail)
  <2>2. PICK i \in 1..(len - 1) : x = s.queue[i + 1]
    BY <1>a
  <2>3. 1 < i + 1 /\ 1 \in 1..len /\ i + 1 \in 1..len
    BY <1>1
  <2>4. far(m) <= far(x)
    BY <1>1, <1>14, <2>2, <2>3
  <2>5. x \in ToSet(s.queue)
    BY <1>1
  <2>6. QED
    BY <1>2, <1>14, <2>4, <2>5 DEF TrailInv
<1> HIDE DEF far, farn, new, m, len
<1>16. ASSUME NEW d \in Dequeued(n)
       PROVE  /\ d \notin Wanted
              /\ \A y \in ToSet(Needs(w, d)) : y \in DOMAIN n.trail /\ farn(y) <= farn(d) + 1
              /\ \A y \in ToSet(n.queue) : farn(d) <= farn(y)
  <2>1. d \in DOMAIN s.trail
    BY <1>2, <1>8 DEF Dequeued
  <2>2. CASE d \in Dequeued(s)
    <3>1. far(d) <= far(m)
      BY <1>2, <1>14, <2>2
    <3>2. \A y \in ToSet(n.queue) : farn(d) <= farn(y)
      BY <1>2, <1>6, <1>13, <1>15, <2>1, <3>1
    <3>3. QED
      BY <1>6, <1>13, <1>14, <2>1, <2>2, <3>2
  <2>3. CASE d = m
    <3>1. m \notin Wanted
      BY DEF m
    <3>2. ASSUME NEW y \in ToSet(Needs(w, m)) PROVE y \in DOMAIN n.trail /\ farn(y) <= farn(m) + 1
      <4>1. y \in DOMAIN n.trail
        BY <1>6, <3>2 DEF deps, m
      <4>2. farn(m) = far(m) /\ far(m) \in Nat
        BY <1>2, <1>13
      <4>3. CASE y \in new
        BY <1>13, <4>1, <4>2, <4>3
      <4>4. CASE y \in DOMAIN s.trail
        <5>1. farn(y) = far(y) /\ far(y) \in Nat
          BY <1>13, <4>4
        <5>2. CASE y \in ToSet(s.queue)
          BY <1>2, <1>14, <4>1, <4>2, <5>1, <5>2
        <5>3. CASE y \notin ToSet(s.queue)
          <6>1. y \in Dequeued(s)
            BY <4>4, <5>3 DEF Dequeued
          <6>2. far(y) <= far(m)
            BY <1>2, <1>14, <6>1
          <6>3. QED
            BY <4>1, <4>2, <5>1, <6>2
        <5>4. QED
          BY <5>2, <5>3
      <4>5. QED
        BY <4>1, <4>3, <4>4 DEF new
    <3>3. \A y \in ToSet(n.queue) : farn(m) <= farn(y)
      BY <1>2, <1>6, <1>13, <1>15
    <3>4. QED
      BY <2>3, <3>1, <3>2, <3>3
  <2>4. QED
    BY <1>8, <2>2, <2>3
<1>17. \A x \in ToSet(n.queue) : /\ farn(x) \in Nat /\ far(m) \in Nat
                                 /\ farn(x) = far(m) \/ farn(x) = far(m) + 1
                                 /\ x \in new => farn(x) = far(m) + 1
  BY <1>2, <1>6, <1>13, <1>15
<1>18. ASSUME NEW i \in 1..Len(n.queue), NEW j \in 1..Len(n.queue), i < j
       PROVE  farn(n.queue[i]) <= farn(n.queue[j])
  <2>1. n.queue[i] \in ToSet(n.queue) /\ n.queue[j] \in ToSet(n.queue)
    BY <1>5 DEF ToSet
  <2>2. CASE j \in 1..(len - 1)
    <3>1. i \in 1..(len - 1) /\ i + 1 \in 1..len /\ j + 1 \in 1..len /\ i + 1 < j + 1
      BY <1>1, <1>18, <2>2
    <3>2. n.queue[i] = s.queue[i + 1] /\ n.queue[j] = s.queue[j + 1]
      BY <1>6, <2>2, <3>1
    <3>3. far(s.queue[i + 1]) <= far(s.queue[j + 1])
      BY <1>14, <3>1
    <3>4. s.queue[i + 1] \in DOMAIN s.trail /\ s.queue[j + 1] \in DOMAIN s.trail
      BY <3>1 DEF TrailInv, ToSet, len
    <3>5. QED
      BY <1>13, <3>2, <3>3, <3>4
  <2>3. CASE j \notin 1..(len - 1)
    <3>1. n.queue[j] \notin ToSet(tail)
      <4>1. SUFFICES ASSUME n.queue[j] \in ToSet(tail) PROVE FALSE
        OBVIOUS
      <4>2. PICK k \in 1..(len - 1) : n.queue[j] = s.queue[k + 1]
        BY <1>a, <4>1
      <4>3. n.queue[j] = n.queue[k]
        BY <1>6, <4>2
      <4>6. k \in 1..Len(n.queue)
        BY <1>1, <1>6
      <4>4. j = k
        BY <1>6, <4>3, <4>6 DEF Injective
      <4>5. QED
        BY <2>3, <4>4
    <3>2. n.queue[j] \in new
      BY <1>6, <2>1, <3>1
    <3>3. QED
      BY <1>17, <2>1, <3>2
  <2>4. QED
    BY <2>2, <2>3
<1>19. \A x, y \in ToSet(n.queue) : farn(y) <= farn(x) + 1
  BY <1>17
<1>20. \A x \in DOMAIN n.trail : farn(x) <= Cardinality(Dequeued(n)) + 1
  <2>1. far(m) <= Cardinality(Dequeued(s)) + 1 /\ far(m) \in Nat
    BY <1>2, <1>13, <1>14
  <2>2. \A x \in DOMAIN n.trail : x \in DOMAIN s.trail \/ x \in new
    BY DEF new
  <2>3. QED
    BY <1>9, <1>13, <1>14, <2>1, <2>2
<1>21. DistanceInv(w, Wanted, n)
  BY <1>16, <1>18, <1>19, <1>20 DEF DistanceInv, farn
<1>22. QED
  BY <1>9, <1>12, <1>21

\* One turn for each search of a set, of which there is one.
Turned(g, Wanted, S) == {SearchOn(g, Wanted, s) : s \in S}

\* The queue holds the main module, and so do the trails.
FirstSearch(w) == [queue |-> <<Main(w)>>, trail |-> [r \in {Main(w)} |-> <<r>>]]

LEMMA SearchedUnfolds ==
  ASSUME NEW g, NEW w, NEW Wanted, g.roots = <<Main(w)>>
  PROVE  /\ SearchTurns(g) = AllMods + 1
         /\ Searched(g, Wanted)[0] = {FirstSearch(w)}
         /\ \A n \in 1..(AllMods + 1) :
              Searched(g, Wanted)[n] = Turned(g, Wanted, Searched(g, Wanted)[n - 1])
<1> DEFINE first == {[queue |-> g.roots, trail |-> [r \in ToSet(g.roots) |-> <<r>>]]}
           Is(N, f) == f = [n \in 0..N |-> IF n = 0 THEN first ELSE Turned(g, Wanted, f[n - 1])]
           T == {N \in Nat : \E f : Is(N, f)}
           r == Searched(g, Wanted)
           M == SearchTurns(g)
<1>1. r = CHOOSE f : Is(M, f)
  BY DEF Searched, Turned
<1>2. M = AllMods + 1 /\ M \in Nat
  BY ModsAreFinite DEF SearchTurns, AllMods
<1>3. first = {FirstSearch(w)}
  <2>1. ToSet(g.roots) = {Main(w)}
    BY DEF ToSet
  <2>2. QED
    BY <2>1 DEF FirstSearch
<1> HIDE DEF r, first, M
<1>4. 0 \in T
  <2>1. Is(0, [n \in 0..0 |-> first])
    OBVIOUS
  <2>2. QED
    BY <2>1
<1>5. ASSUME NEW N \in Nat, N \in T PROVE N + 1 \in T
  <2>1. PICK f : Is(N, f)
    BY <1>5
  <2> DEFINE h == [n \in 0..(N + 1) |-> IF n = N + 1 THEN Turned(g, Wanted, f[N]) ELSE f[n]]
  <2>2. \A n \in 0..N : h[n] = f[n]
    OBVIOUS
  <2>3. h[0] = first
    BY <2>1, <2>2
  <2>4. \A n \in 1..N : h[n] = Turned(g, Wanted, h[n - 1])
    BY <2>1, <2>2
  <2>5. h[N + 1] = Turned(g, Wanted, h[(N + 1) - 1])
    BY <2>2
  <2>6. \A n \in 0..(N + 1) : h[n] = IF n = 0 THEN first ELSE Turned(g, Wanted, h[n - 1])
    <3> HIDE DEF h
    <3> QED
      BY <2>3, <2>4, <2>5
  <2>7. h = [n \in 0..(N + 1) |-> h[n]]
    OBVIOUS
  <2> HIDE DEF h
  <2>8. Is(N + 1, h)
    BY <2>6, <2>7
  <2> HIDE DEF Is
  <2>9. QED
    BY <2>8
<1>6. M \in T
  <2> HIDE DEF T
  <2> QED
    BY <1>2, <1>4, <1>5, SetInduction
<1>7. Is(M, r)
  <2>1. \E f : Is(M, f)
    BY <1>6
  <2> HIDE DEF Is
  <2>2. QED
    BY <1>1, <2>1
<1>8. r[0] = first /\ \A n \in 1..M : r[n] = Turned(g, Wanted, r[n - 1])
  BY <1>2, <1>7
<1>9. QED
  BY <1>2, <1>3, <1>8 DEF r, M

Stopped(Wanted, s) == s.queue = <<>> \/ Head(s.queue) \in Wanted

LEMMA FirstSearchIs ==
  ASSUME NEW w \in World, NEW Wanted
  PROVE  TrailInv(w, FirstSearch(w)) /\ DistanceInv(w, Wanted, FirstSearch(w))
<1> DEFINE s == FirstSearch(w)
           m == Main(w)
<1>1. m \in ReachedIn(w)
  BY ReachedIsLeast
<1>2. s.queue = <<m>> /\ s.trail = [r \in {m} |-> <<r>>]
      /\ s = [queue |-> s.queue, trail |-> s.trail]
  BY DEF FirstSearch
<1> HIDE DEF s, m
<1>3. ToSet(s.queue) = {m} /\ Len(s.queue) = 1 /\ s.queue[1] = m
  BY <1>2 DEF ToSet
<1>4. DOMAIN s.trail = {m} /\ s.trail[m] = <<m>> /\ Len(s.trail[m]) = 1
  BY <1>2
<1>5. Chained(w, <<m>>)
  BY <1>1 DEF Chained, m
<1>6. s.queue \in Seq(ReachedIn(w)) /\ Injective(s.queue)
  BY <1>1, <1>2, <1>3 DEF Injective
<1>7. TrailInv(w, s)
  BY <1>1, <1>2, <1>3, <1>4, <1>5, <1>6 DEF TrailInv, m
<1>8. Dequeued(s) = {}
  BY <1>3, <1>4 DEF Dequeued
<1>9. DistanceInv(w, Wanted, s)
  <2>1. Cardinality(Dequeued(s)) = 0
    BY <1>8, FS_EmptySet
  <2>2. \A x \in Dequeued(s) : FALSE
    BY <1>8
  <2>3. \A i, j \in 1..Len(s.queue) : ~(i < j)
    BY <1>3
  <2>4. \A x \in ToSet(s.queue) : x = m
    BY <1>3
  <2>5. \A x \in DOMAIN s.trail : Len(s.trail[x]) = 1
    BY <1>4
  <2>6. \A x, y \in ToSet(s.queue) : Len(s.trail[y]) <= Len(s.trail[x]) + 1
    BY <1>4, <2>4
  <2>7. \A x \in DOMAIN s.trail : Len(s.trail[x]) <= Cardinality(Dequeued(s)) + 1
    <3>1. TAKE x \in DOMAIN s.trail
    <3>2. Len(s.trail[x]) = 1
      BY <2>5
    <3>3. 1 <= Cardinality(Dequeued(s)) + 1
      BY <2>1
    <3>4. QED
      BY <3>2, <3>3
  <2>8. QED
    BY <2>2, <2>3, <2>6, <2>7 DEF DistanceInv
<1>10. QED
  BY <1>7, <1>9 DEF s

LEMMA SearchGoesOn ==
  ASSUME NEW w \in World, NEW g, g.roots = <<Main(w)>>,
         g.required = [m \in ReachedIn(w) |-> Needs(w, m)],
         NEW Wanted, NEW k \in 0..(AllMods + 1)
  PROVE  \E s : /\ Searched(g, Wanted)[k] = {s}
                /\ TrailInv(w, s) /\ DistanceInv(w, Wanted, s)
                /\ Stopped(Wanted, s) \/ Cardinality(Dequeued(s)) >= k
<1> DEFINE r == Searched(g, Wanted)
           Good(n) == \E s : /\ r[n] = {s}
                             /\ TrailInv(w, s) /\ DistanceInv(w, Wanted, s)
                             /\ Stopped(Wanted, s) \/ Cardinality(Dequeued(s)) >= n
           T == {n \in Nat : n <= AllMods + 1 => Good(n)}
<1>1. AllMods \in Nat
  BY ModsAreFinite
<1>2. /\ r[0] = {FirstSearch(w)}
      /\ \A n \in 1..(AllMods + 1) : r[n] = Turned(g, Wanted, r[n - 1])
  BY SearchedUnfolds
<1> HIDE DEF r
<1>3. 0 \in T
  <2>1. Cardinality(Dequeued(FirstSearch(w))) >= 0
    BY FirstSearchIs, DequeuedIsFinite
  <2>2. Good(0)
    BY <1>2, <2>1, FirstSearchIs
  <2>3. QED
    BY <2>2
<1>4. ASSUME NEW n \in Nat, n \in T PROVE n + 1 \in T
  <2> HIDE DEF Good
  <2>1. SUFFICES ASSUME n + 1 <= AllMods + 1 PROVE Good(n + 1)
    OBVIOUS
  <2>2. Good(n)
    BY <1>1, <1>4, <2>1
  <2>3. PICK s : /\ r[n] = {s}
                 /\ TrailInv(w, s) /\ DistanceInv(w, Wanted, s)
                 /\ Stopped(Wanted, s) \/ Cardinality(Dequeued(s)) >= n
    BY <2>2 DEF Good
  <2> DEFINE t == SearchOn(g, Wanted, s)
  <2>4. r[n + 1] = {t}
    <3>1. n + 1 \in 1..(AllMods + 1) /\ (n + 1) - 1 = n
      BY <1>1, <2>1
    <3>2. r[n + 1] = Turned(g, Wanted, r[n])
      BY <1>2, <3>1
    <3>3. QED
      BY <2>3, <3>2 DEF Turned
  <2>5. CASE Stopped(Wanted, s)
    <3>1. t = s
      BY <2>5 DEF Stopped, SearchOn
    <3>2. QED
      BY <2>3, <2>4, <2>5, <3>1 DEF Good
  <2>6. CASE ~Stopped(Wanted, s)
    <3> HIDE DEF t
    <3>1. s.queue # <<>> /\ Head(s.queue) \notin Wanted
      BY <2>6 DEF Stopped
    <3>2. /\ TrailInv(w, t) /\ DistanceInv(w, Wanted, t)
          /\ Cardinality(Dequeued(t)) = Cardinality(Dequeued(s)) + 1
      BY <2>3, <3>1, SearchStep DEF t
    <3>3. Cardinality(Dequeued(t)) >= n + 1
      BY <2>3, <2>6, <3>2, DequeuedIsFinite
    <3>4. QED
      BY <2>4, <3>2, <3>3 DEF Good
  <2>7. QED
    BY <2>5, <2>6
<1>5. k \in T
  <2> HIDE DEF T
  <2> QED
    BY <1>1, <1>3, <1>4, SetInduction
<1>6. Good(k)
  <2> HIDE DEF Good
  <2> QED
    BY <1>1, <1>5
<1>7. QED
  BY <1>6 DEF r

\* The path that FindPath finds: a chain of requirements from the main module
\* to something wanted, with nothing wanted that is nearer.
LEMMA FindPathIs ==
  ASSUME NEW w \in World, NEW g, g.roots = <<Main(w)>>,
         g.required = [m \in ReachedIn(w) |-> Needs(w, m)],
         NEW Wanted, Wanted \subseteq ReachedIn(w), Wanted # {}, Main(w) \notin Wanted,
         NEW chain, chain = FindPath(g, Wanted)
  PROVE  /\ Chained(w, chain)
         /\ chain[Len(chain)] \in Wanted
         /\ Len(chain) - 2 \in 0..AllMods
         /\ \A x \in Within(w)[Len(chain) - 2] : x \notin Wanted
<1>1. AllMods \in Nat /\ AllMods + 1 \in 0..(AllMods + 1)
  BY ModsAreFinite
<1>2. PICK s : /\ Searched(g, Wanted)[AllMods + 1] = {s}
               /\ TrailInv(w, s) /\ DistanceInv(w, Wanted, s)
               /\ Stopped(Wanted, s) \/ Cardinality(Dequeued(s)) >= AllMods + 1
  BY <1>1, SearchGoesOn
<1> DEFINE far(x) == Len(s.trail[x])
           h == Head(s.queue)
           L == Len(chain)
<1>3. Stopped(Wanted, s)
  BY <1>1, <1>2, DequeuedIsFinite
<1>4. chain = IF s.queue = <<>> THEN <<>> ELSE s.trail[h]
  <2>1. SearchTurns(g) = AllMods + 1
    BY SearchedUnfolds
  <2> DEFINE end == CHOOSE search \in Searched(g, Wanted)[SearchTurns(g)] : TRUE
  <2>2. end \in Searched(g, Wanted)[SearchTurns(g)]
    BY <1>2, <2>1
  <2>3. end = s
    BY <1>2, <2>1, <2>2
  <2>4. FindPath(g, Wanted) = IF end.queue = <<>> THEN <<>> ELSE end.trail[Head(end.queue)]
    BY DEF FindPath
  <2> HIDE DEF end
  <2>5. QED
    BY <2>3, <2>4
<1>5. s.queue # <<>>
  <2>1. SUFFICES ASSUME s.queue = <<>> PROVE FALSE
    OBVIOUS
  <2>2. ToSet(s.queue) = {}
    BY <2>1 DEF ToSet
  <2>3. Dequeued(s) = DOMAIN s.trail
    BY <2>2 DEF Dequeued
  <2>4. Closed(w, DOMAIN s.trail)
    BY <1>2, <2>3 DEF DistanceInv, Closed
  <2>5. ReachedIn(w) \subseteq Dequeued(s)
    BY <1>2, <2>3, <2>4, ReachedIsLeast DEF TrailInv
  <2>6. QED
    BY <1>2, <2>5 DEF DistanceInv
<1>6. /\ h \in Wanted /\ h \in ToSet(s.queue) /\ h \in DOMAIN s.trail
      /\ Len(s.queue) \in Nat \ {0} /\ h = s.queue[1]
  <2>1. s.queue \in Seq(ReachedIn(w)) /\ ToSet(s.queue) \subseteq DOMAIN s.trail
    BY <1>2 DEF TrailInv
  <2>2. QED
    BY <1>3, <1>5, <2>1, TailIs DEF Stopped
<1>7. chain = s.trail[h] /\ L = far(h)
  BY <1>4, <1>5
<1>8. Chained(w, chain) /\ chain[L] = h
  BY <1>2, <1>6, <1>7 DEF TrailInv
<1>9. L \in Nat /\ L >= 2
  <2>1. L \in Nat \ {0} /\ chain[1] = Main(w)
    BY <1>8 DEF Chained
  <2> HIDE DEF L
  <2>2. L # 1
    BY <1>6, <1>8, <2>1
  <2>3. QED
    BY <2>1, <2>2
<1>10. L <= AllMods + 1
  <2>1. L <= Cardinality(Dequeued(s)) + 1
    BY <1>2, <1>6, <1>7 DEF DistanceInv
  <2>2. QED
    BY <1>1, <1>2, <1>9, <2>1, DequeuedIsFinite
<1>11. \A x \in DOMAIN s.trail : far(x) \in Nat
  BY <1>2 DEF TrailInv, Chained
<1>12. \A y \in ToSet(s.queue) : far(y) >= L
  <2>1. SUFFICES ASSUME NEW y \in ToSet(s.queue) PROVE far(y) >= L
    OBVIOUS
  <2>2. PICK j \in 1..Len(s.queue) : s.queue[j] = y
    BY <1>2 DEF ToSet, TrailInv
  <2>3. CASE j = 1
    BY <1>6, <1>7, <1>9, <2>2, <2>3
  <2>4. CASE j # 1
    <3>1. 1 \in 1..Len(s.queue) /\ 1 < j
      BY <1>6, <2>2, <2>4
    <3>2. far(s.queue[1]) <= far(s.queue[j])
      BY <1>2, <2>2, <3>1 DEF DistanceInv
    <3>3. QED
      BY <1>6, <1>7, <2>2, <3>2
  <2>5. QED
    BY <2>3, <2>4
<1> DEFINE Near(k) == \A x \in Within(w)[k] : x \in Dequeued(s) /\ far(x) <= k + 1
           T == {k \in Nat : k <= L - 2 => Near(k)}
<1>13. 0 \in T
  <2>1. far(Main(w)) = 1 /\ Main(w) \in DOMAIN s.trail
    BY <1>2 DEF TrailInv
  <2>2. Main(w) \notin ToSet(s.queue)
    <3> HIDE DEF L, far
    <3> QED
      BY <1>9, <1>12, <2>1
  <2>3. Main(w) \in Dequeued(s) /\ far(Main(w)) <= 0 + 1
    BY <2>1, <2>2 DEF Dequeued
  <2>4. \A x \in Within(w)[0] : x = Main(w)
    BY WithinUnfolds
  <2>5. Near(0)
    <3> HIDE DEF far
    <3> QED
      BY <2>3, <2>4
  <2>6. QED
    BY <2>5
<1>14. ASSUME NEW k \in Nat, k \in T PROVE k + 1 \in T
  <2> HIDE DEF L
  <2>1. SUFFICES ASSUME k + 1 <= L - 2 PROVE Near(k + 1)
    OBVIOUS
  <2>2. Near(k)
    BY <1>9, <1>14, <2>1
  <2>3. k + 1 \in 1..AllMods /\ (k + 1) - 1 = k
    BY <1>1, <1>9, <1>10, <2>1
  <2>4. Within(w)[k + 1] = Further(w, Within(w)[k])
    BY <2>3, WithinUnfolds
  <2>5. ASSUME NEW x \in Within(w)[k + 1] PROVE x \in Dequeued(s) /\ far(x) <= k + 2
    <3>1. CASE x \in Within(w)[k]
      <4>1. x \in Dequeued(s) /\ far(x) <= k + 1 /\ far(x) \in Nat
        BY <1>11, <2>2, <3>1 DEF Dequeued
      <4>2. QED
        BY <4>1
    <3>2. CASE x \notin Within(w)[k]
      <4>1. PICK m \in Within(w)[k] : x \in ToSet(Needs(w, m))
        BY <2>4, <3>2 DEF Further
      <4>2. m \in Dequeued(s) /\ far(m) <= k + 1 /\ far(m) \in Nat
        BY <1>11, <2>2, <4>1 DEF Dequeued
      <4>3. x \in DOMAIN s.trail /\ far(x) <= far(m) + 1
        BY <1>2, <4>1, <4>2 DEF DistanceInv
      <4>4. far(x) <= k + 2 /\ far(x) \in Nat
        BY <1>11, <4>2, <4>3
      <4>5. x \notin ToSet(s.queue)
        BY <1>9, <1>12, <2>1, <4>4
      <4>6. QED
        BY <4>3, <4>4, <4>5 DEF Dequeued
    <3>3. QED
      BY <3>1, <3>2
  <2>6. (k + 1) + 1 = k + 2
    OBVIOUS
  <2>7. QED
    BY <2>5, <2>6
<1>15. L - 2 \in T
  <2>1. L - 2 \in Nat
    BY <1>9
  <2> HIDE DEF T, L
  <2>2. QED
    BY <1>13, <1>14, <2>1, SetInduction
<1>16. Near(L - 2)
  <2> HIDE DEF Near, L
  <2> QED
    BY <1>9, <1>15
<1>17. \A x \in Within(w)[L - 2] : x \notin Wanted
  BY <1>2, <1>16 DEF DistanceInv
<1>18. L - 2 \in 0..AllMods
  BY <1>1, <1>9, <1>10
<1>19. QED
  BY <1>6, <1>8, <1>17, <1>18

-----------------------------------------------------------------------------
(* The invariant of a call. *)

\* The modules that the graph of buildList has.
Visited == Done \cup {item[r] : r \in {s \in Runner : step[s] = "add"}}

\* The modules it has met, those still to be added included.
Known == added \cup UNION {ToSet(left[r]) : r \in Runner}

\* The phases after Start.
Going == {"walk", "convert", "failed", "loaded"}

Answer == [err : BOOLEAN, deps : Seq(Real)]

LoadTypeOK ==
  /\ world \in World
  /\ main = [mod |-> Main(world), err |-> Fails(world, Main(world)),
             deps |-> Needs(world, Main(world))]
  /\ phase \in {"start", "walk", "convert"} \cup Ended
  /\ step \in [Runner -> {"out", "required", "require", "record", "add"}]
  /\ need \in [Runner -> Answer]
  /\ left \in [Runner -> Seq(Real)]
  /\ graph.selected \in Selections
  /\ answer = [list |-> answer.list, deps |-> answer.deps]

\* Where each runner is in the callback, with what it has been answered.
StepInv ==
  \A r \in Runner :
    /\ step[r] = "out" <=> at[r] # "run"
    /\ step[r] # "add" => left[r] = <<>>
    /\ step[r] \in {"require", "record", "add"} => need[r] = LoadDeps(world, item[r])
    /\ step[r] = "require" =>
         ~Fails(world, item[r]) /\ item[r] # main.mod /\ item[r] \notin cached
    /\ step[r] = "record" => ToSet(Needs(world, item[r])) \subseteq graph.reach

\* The graph of buildList: what was visited with its requirements, what was
\* met for a reason, and the highest version of each path.
ListInv ==
  /\ bl = [graph |-> [roots |-> <<main.mod>>,
                      required |-> [m \in Visited |-> Needs(world, m)],
                      reach |-> Known,
                      selected |-> bl.graph.selected],
           errs |-> {m \in Visited : Fails(world, m)}]
  /\ main.mod \in added
  /\ Known \subseteq Reached
  /\ \A m \in Visited : ToSet(Needs(world, m)) \subseteq Known
  /\ \A x \in Known \ {main.mod} : \E m \in Visited : x \in ToSet(Needs(world, m))
  /\ Selects(Reqs, bl.graph.selected, Known)

\* The graph of Load: what was loaded, and nothing that buildList has met
\* without this graph having it.
CacheInv ==
  /\ graph.required = [m \in cached |-> Needs(world, m)]
  /\ cached \subseteq Visited \cup {item[r] : r \in {s \in Runner : step[s] = "record"}}
  /\ main.mod \notin cached
  /\ Known \subseteq graph.reach \cup {main.mod}
  /\ phase \in Going => ToSet(main.deps) \subseteq graph.reach
  /\ \A p \in Path : graph.selected[p] # NoVersion =>
       \E m \in cached \cup {main.mod} : <<p, graph.selected[p]>> \in ToSet(Needs(world, m))

\* How the call stands.
CallInv ==
  /\ phase = "start" => cached = {} /\ Known = {main.mod} /\ \A r \in Runner : step[r] = "out"
  /\ phase \in Going => ~main.err
  /\ Answered => Over /\ bl.errs = {} /\ answer.list = GraphBuildList(bl.graph)
  /\ phase = "failed" => Over /\ bl.errs # {} /\ answer.list = FindPath(bl.graph, bl.errs)
  /\ PanicNeedsTwoOfMissing

LoadInv == Inv /\ LoadTypeOK /\ StepInv /\ ListInv /\ CacheInv /\ CallInv

-----------------------------------------------------------------------------
(* What follows from it. *)

LEMMA LoadDepsIs ==
  ASSUME NEW w \in World, NEW m \in Real
  PROVE  /\ LoadDeps(w, m) = [err |-> Fails(w, m), deps |-> Needs(w, m)]
         /\ LoadDeps(w, m) \in Answer
         /\ Fails(w, m) <=> ~(HasFormula(w, m) /\ Supports(w, m))
<1>1. LoadDeps(w, m).deps \in Seq(Real)
  BY WorldAssumption DEF Real
<1>2. CASE HasFormula(w, m) /\ Supports(w, m)
  <2>1. LoadDeps(w, m) = [err |-> FALSE, deps |-> ResolveDeps(w, m)]
    BY <1>2 DEF LoadDeps
  <2>2. QED
    BY <1>1, <1>2, <2>1 DEF Fails, Needs, Answer
<1>3. CASE ~(HasFormula(w, m) /\ Supports(w, m))
  <2>1. LoadDeps(w, m) = [err |-> TRUE, deps |-> <<>>]
    BY <1>3 DEF LoadDeps
  <2>2. QED
    BY <1>1, <1>3, <2>1 DEF Fails, Needs, Answer
<1>4. QED
  BY <1>2, <1>3

LEMMA ReqsAreGood ==
  ASSUME LoadTypeOK
  PROVE  /\ GoodReqs(Reqs)
         /\ Reqs.main = main.mod /\ Reqs.roots = main.deps
         /\ main.mod = Main(world) /\ main.err = Fails(world, main.mod)
         /\ main.deps = Needs(world, main.mod)
         /\ main.mod \in Real /\ main.deps \in Seq(Real)
         /\ ~main.err => PathOf(main.mod) \notin world.broken
<1>1. world \in World /\ main.mod = Main(world) /\ main.err = Fails(world, main.mod)
      /\ main.deps = Needs(world, main.mod)
  BY DEF LoadTypeOK
<1>2. main.mod \in Real /\ main.deps \in Seq(Real)
  BY <1>1, NeedsAreReal
<1>3. Reqs.main = main.mod /\ Reqs.roots = main.deps /\ Reqs.rank = world.rank
  BY DEF Reqs
<1>4. GoodReqs(Reqs)
  BY <1>1, <1>2, <1>3, WorldAssumption DEF GoodReqs
<1>5. ~main.err => PathOf(main.mod) \notin world.broken
  BY <1>1, <1>2, LoadDepsIs DEF HasFormula
<1>6. QED
  BY <1>1, <1>2, <1>3, <1>4, <1>5

LEMMA ReachedIs ==
  ASSUME world \in World
  PROVE  /\ Reached = ReachedIn(world)
         /\ Main(world) \in Reached
         /\ Reached \subseteq Real
         /\ \A m \in Reached : ToSet(Needs(world, m)) \subseteq Reached
BY ReachedIsLeast DEF Reached, ReachedIn, AllMods, Closed

\* A runner in the callback has a module of its own, met and not visited.
LEMMA ItemInHand ==
  ASSUME LoadInv, NEW r \in Runner, step[r] # "out"
  PROVE  /\ at[r] = "run"
         /\ item[r] \in added /\ item[r] \in Known /\ item[r] \in Reached /\ item[r] \in Real
         /\ item[r] \notin Done
         /\ \A s \in Runner : s # r /\ step[s] # "out" => item[s] # item[r]
<1>1. at[r] = "run" /\ \A s \in Runner : step[s] # "out" => at[s] = "run"
  BY DEF LoadInv, StepInv
<1>2. item[r] \in added /\ \A s \in Runner : s # r /\ step[s] # "out" => item[s] # item[r]
  BY <1>1 DEF LoadInv, Inv, ItemsApart
<1>3. item[r] \in Working
  BY <1>1 DEF Working
<1>4. item[r] \in Known /\ item[r] \in Reached /\ item[r] \in Real
  BY <1>2, ReachedIs DEF Known, LoadInv, ListInv, LoadTypeOK
<1>5. QED
  BY <1>1, <1>2, <1>3, <1>4 DEF Done

\* When Do has returned, everything reached has been visited.
LEMMA OverMeansAll ==
  ASSUME LoadInv, Over
  PROVE  /\ Visited = Reached /\ Known = Reached
         /\ \A r \in Runner : step[r] = "out"
<1>1. todo = {} /\ \A r \in Runner : at[r] \in {"woken", "returned"}
  BY DEF LoadInv, Inv, NoEarlyReturn, Over
<1>2. \A r \in Runner : step[r] = "out"
  BY <1>1 DEF LoadInv, StepInv
<1>3. \A r \in Runner : left[r] = <<>>
  BY <1>2 DEF LoadInv, StepInv
<1>4. Known = added
  <2>1. \A r \in Runner : ToSet(left[r]) = {}
    BY <1>3 DEF ToSet
  <2>2. QED
    BY <2>1 DEF Known
<1>5. Working = {}
  BY <1>1 DEF Working
<1>6. Visited = added
  BY <1>1, <1>2, <1>5 DEF Visited, Done
<1>7. Main(world) \in added /\ Closed(world, added) /\ added \subseteq Reached
  BY <1>4, <1>6 DEF LoadInv, ListInv, LoadTypeOK, Closed
<1>8. Reached \subseteq added
  BY <1>7, ReachedIsLeast DEF Reached, ReachedIn, AllMods, LoadInv, LoadTypeOK
<1>9. QED
  BY <1>2, <1>4, <1>6, <1>7, <1>8

\* The build list of a graph with all that is reached.
LEMMA ListOfAll ==
  ASSUME LoadInv, Over, NEW list, list = GraphBuildList(bl.graph)
  PROVE  /\ list \in Seq(Real) /\ list # <<>>
         /\ list[1] = main.mod
         /\ \A i, j \in 2..Len(list) : i < j => PathOf(list[i]) < PathOf(list[j])
         /\ ToSet(list) \subseteq Reached
         /\ {PathOf(m) : m \in ToSet(list)} = {PathOf(m) : m \in Reached}
         /\ \A m \in ToSet(list) \ {main.mod}, n \in Reached :
              PathOf(n) = PathOf(m) =>
                Compares(world, PathOf(m), VersionOf(n), VersionOf(m)) <= 0
<1> DEFINE g == bl.graph
<1>1. g.roots = <<main.mod>> /\ g.reach = Known
  BY DEF LoadInv, ListInv
<1>2. Known = Reached
  BY OverMeansAll
<1>3. GoodReqs(Reqs) /\ Reqs.main = main.mod /\ Reqs.rank = world.rank
  BY ReqsAreGood DEF LoadInv, Reqs
<1>4. main.mod \in Reached /\ Reached \subseteq Real
  BY ReachedIs DEF LoadInv, LoadTypeOK
<1>5. Selects(Reqs, g.selected, Reached)
  BY <1>2 DEF LoadInv, ListInv
<1> HIDE DEF g
<1>6. /\ list \in Seq(Real) /\ list # <<>>
      /\ list[1] = main.mod
      /\ \A i, j \in 2..Len(list) : i < j => PathOf(list[i]) < PathOf(list[j])
      /\ \A m \in Real : m \in ToSet(list) <=> g.selected[PathOf(m)] = VersionOf(m)
  BY <1>1, <1>2, <1>3, <1>4, <1>5, GraphBuildListIs DEF g
<1>7. \A m \in Real : /\ PathOf(m) \in Path /\ VersionOf(m) \in Version /\ VersionOf(m) \in Choice
                      /\ VersionOf(m) # NoVersion /\ m = <<PathOf(m), VersionOf(m)>>
  BY VersionAssumption DEF Real, Choice, PathOf, VersionOf
<1>8. \A m \in ToSet(list) : m \in Real /\ g.selected[PathOf(m)] = VersionOf(m) /\ m \in Reached
  <2>1. TAKE m \in ToSet(list)
  <2>2. m \in Real
    BY <1>6 DEF ToSet
  <2>3. g.selected[PathOf(m)] = VersionOf(m)
    BY <1>6, <2>2
  <2>4. QED
    BY <1>5, <1>7, <2>2, <2>3 DEF Selects
<1>9. \A n \in Reached : /\ <<PathOf(n), g.selected[PathOf(n)]>> \in ToSet(list)
                         /\ NotBelow(Reqs, PathOf(n), g.selected[PathOf(n)], VersionOf(n))
  <2>1. TAKE n \in Reached
  <2> DEFINE p == PathOf(n)
             v == g.selected[p]
  <2>2. p \in Path /\ VersionOf(n) \in Choice /\ VersionOf(n) # NoVersion
    BY <1>4, <1>7
  <2>3. NotBelow(Reqs, p, v, VersionOf(n)) /\ v \in Choice
    BY <1>5, <2>2 DEF Selects, Selections
  <2>4. v # NoVersion
    BY <1>3, <2>2, <2>3, NotBelowOrders
  <2>5. <<p, v>> \in Real /\ PathOf(<<p, v>>) = p /\ VersionOf(<<p, v>>) = v
    BY <2>2, <2>3, <2>4 DEF Choice, Real, PathOf, VersionOf
  <2>6. QED
    BY <1>6, <2>3, <2>5
<1>10. {PathOf(m) : m \in ToSet(list)} = {PathOf(m) : m \in Reached}
  <2>1. \A n \in Reached : \E m \in ToSet(list) : PathOf(m) = PathOf(n)
    <3>1. TAKE n \in Reached
    <3>2. PathOf(<<PathOf(n), g.selected[PathOf(n)]>>) = PathOf(n)
      BY DEF PathOf
    <3>3. QED
      BY <1>9, <3>2
  <2>2. \A m \in ToSet(list) : m \in Reached
    BY <1>8
  <2>3. \A x : x \in {PathOf(m) : m \in ToSet(list)} <=> x \in {PathOf(m) : m \in Reached}
    BY <2>1, <2>2
  <2>4. QED
    BY <2>3
<1>11. ASSUME NEW m \in ToSet(list) \ {main.mod}, NEW n \in Reached, PathOf(n) = PathOf(m)
       PROVE  Compares(world, PathOf(m), VersionOf(n), VersionOf(m)) <= 0
  <2> DEFINE p == PathOf(m)
  <2>1. m \in Real /\ g.selected[p] = VersionOf(m) /\ n \in Real
    BY <1>4, <1>8
  <2>2. NotBelow(Reqs, p, VersionOf(m), VersionOf(n))
    BY <1>9, <1>11, <2>1
  <2>3. <<p, VersionOf(m)>> # Reqs.main
    BY <1>3, <1>7, <2>1
  <2>4. p \in Path /\ VersionOf(m) \in Choice /\ VersionOf(n) \in Choice
        /\ VersionOf(n) # NoVersion
    BY <1>7, <2>1
  <2>5. Reqs.rank[p][VersionOf(n)] - Reqs.rank[p][VersionOf(m)] <= 0
    BY <1>3, <2>2, <2>3, <2>4, NotBelowOrders
  <2>6. QED
    BY <1>3, <2>5 DEF Compares
<1>12. QED
  BY <1>6, <1>8, <1>10, <1>11

\* So the answer is the minimal list.
LEMMA ListIsMinimalThen ==
  ASSUME LoadInv
  PROVE  ListIsMinimal
<1>1. SUFFICES ASSUME Answered PROVE ListIsMinimal
  BY DEF ListIsMinimal
<1>2. Over /\ answer.list = GraphBuildList(bl.graph)
  BY <1>1 DEF LoadInv, CallInv
<1>3. Reqs.main = main.mod
  BY DEF Reqs
<1> DEFINE list == answer.list
<1>4. /\ list \in Seq(Real) /\ list # <<>>
      /\ list[1] = main.mod
      /\ \A i, j \in 2..Len(list) : i < j => PathOf(list[i]) < PathOf(list[j])
      /\ ToSet(list) \subseteq Reached
      /\ {PathOf(m) : m \in ToSet(list)} = {PathOf(m) : m \in Reached}
      /\ \A m \in ToSet(list) \ {main.mod}, n \in Reached :
           PathOf(n) = PathOf(m) =>
             Compares(world, PathOf(m), VersionOf(n), VersionOf(m)) <= 0
  BY <1>2, ListOfAll
<1>5. Head(list) = main.mod
  BY <1>4
<1>6. QED
  BY <1>3, <1>4, <1>5 DEF ListIsMinimal

-----------------------------------------------------------------------------
(* Panics. *)

\* Two requirements of what is reached name a path without a comparator.
TwoOfMissing ==
  \E p \in world.broken :
    \E m, n \in Reached : \E i \in DOMAIN Needs(world, m), j \in DOMAIN Needs(world, n) :
      /\ <<m, i>> # <<n, j>>
      /\ PathOf(Needs(world, m)[i]) = p
      /\ PathOf(Needs(world, n)[j]) = p

\* A comparison panics on a path that had something selected, or that comes
\* twice in the list.
LEMMA RaisePanicsOn ==
  ASSUME LoadTypeOK, NEW selected \in Selections, NEW deps \in Seq(Real),
         RaisePanics(selected, deps)
  PROVE  \E i \in DOMAIN deps :
           /\ PathOf(deps[i]) \in world.broken /\ PathOf(deps[i]) \in Path
           /\ \/ selected[PathOf(deps[i])] # NoVersion
              \/ \E j \in DOMAIN deps : j # i /\ PathOf(deps[j]) = PathOf(deps[i])
<1>1. PICK i \in DOMAIN deps : ComparePanics(Raised(Reqs, selected, deps)[i - 1], deps[i])
  BY DEF RaisePanics
<1> DEFINE p == PathOf(deps[i])
           r == Raised(Reqs, selected, deps)[i - 1]
<1>2. p \in world.broken /\ r[p] # NoVersion
  BY <1>1 DEF ComparePanics
<1>3. i \in 1..Len(deps) /\ i - 1 \in 0..Len(deps) /\ deps[i] \in Real
  OBVIOUS
<1>4. p \in Path
  BY <1>3 DEF PathOf, Real
<1>5. \A q \in Path : r[q] = selected[q] \/ \E j \in 1..(i - 1) : deps[j] = <<q, r[q]>>
  <2> DEFINE k == i - 1
  <2>1. k \in 0..Len(deps) /\ GoodReqs(Reqs)
    BY <1>3, ReqsAreGood
  <2> HIDE DEF k
  <2>2. \A q \in Path : \/ Raised(Reqs, selected, deps)[k][q] = selected[q]
                       \/ \E j \in 1..k : deps[j] = <<q, Raised(Reqs, selected, deps)[k][q]>>
    BY <2>1, RaisedIs
  <2>3. QED
    BY <2>2 DEF k
<1> HIDE DEF r
<1>6. CASE r[p] = selected[p]
  BY <1>2, <1>4, <1>6
<1>7. CASE \E j \in 1..(i - 1) : deps[j] = <<p, r[p]>>
  <2>1. PICK j \in 1..(i - 1) : deps[j] = <<p, r[p]>>
    BY <1>7
  <2>2. j \in DOMAIN deps /\ j # i /\ PathOf(deps[j]) = p
    BY <1>3, <2>1 DEF PathOf
  <2>3. QED
    BY <1>2, <1>4, <2>2
<1>8. QED
  BY <1>4, <1>5, <1>6, <1>7

\* What makes it two: the requirements of m, a module reached, and what was
\* selected, which was required by another.
LEMMA PanicIsTwo ==
  ASSUME LoadTypeOK, NEW m \in Reached, NEW selected \in Selections,
         \A p \in Path \cap world.broken : selected[p] # NoVersion =>
           \E n \in Reached \ {m} : <<p, selected[p]>> \in ToSet(Needs(world, n)),
         RaisePanics(selected, Needs(world, m))
  PROVE  TwoOfMissing
<1> DEFINE deps == Needs(world, m)
<1>1. deps \in Seq(Real)
  BY ReachedIs, NeedsAreReal DEF LoadTypeOK
<1>2. PICK i \in DOMAIN deps :
        /\ PathOf(deps[i]) \in world.broken /\ PathOf(deps[i]) \in Path
        /\ \/ selected[PathOf(deps[i])] # NoVersion
           \/ \E j \in DOMAIN deps : j # i /\ PathOf(deps[j]) = PathOf(deps[i])
  BY <1>1, RaisePanicsOn
<1> DEFINE p == PathOf(deps[i])
<1>3. CASE selected[p] # NoVersion
  <2>1. PICK n \in Reached \ {m} : <<p, selected[p]>> \in ToSet(Needs(world, n))
    BY <1>2, <1>3
  <2>2. PICK j \in DOMAIN Needs(world, n) : Needs(world, n)[j] = <<p, selected[p]>>
    BY <2>1 DEF ToSet
  <2>3. PathOf(Needs(world, n)[j]) = p /\ <<m, i>> # <<n, j>>
    BY <2>1, <2>2 DEF PathOf
  <2>4. QED
    BY <1>2, <2>1, <2>3 DEF TwoOfMissing
<1>4. CASE \E j \in DOMAIN deps : j # i /\ PathOf(deps[j]) = p
  <2>1. PICK j \in DOMAIN deps : j # i /\ PathOf(deps[j]) = p
    BY <1>4
  <2>2. <<m, i>> # <<m, j>>
    BY <2>1
  <2>3. QED
    BY <1>2, <2>1, <2>2 DEF TwoOfMissing
<1>5. QED
  BY <1>2, <1>3, <1>4

-----------------------------------------------------------------------------
(* The steps of the caller. *)

\* What Visited and Known are made of does not change.
LEMMA CallerFrame ==
  ASSUME LoadInv, UNCHANGED <<workVars, outside, stepVars>>
  PROVE  /\ Inv' /\ Visited' = Visited /\ Known' = Known /\ Reached' = Reached
         /\ Over' = Over /\ Reqs' = Reqs
<1>1. UNCHANGED workVars /\ UNCHANGED <<world, main, step, left>>
  BY DEF outside, stepVars
<1>2. Inv'
  BY <1>1, StutterKeeps DEF LoadInv
<1>3. UNCHANGED <<added, todo, at, item>>
  BY <1>1 DEF workVars
<1>4. Visited' = Visited
  BY <1>1, <1>3 DEF Visited, Done, Working
<1>5. Known' = Known
  BY <1>1, <1>3 DEF Known
<1>6. Reached' = Reached /\ Over' = Over /\ Reqs' = Reqs
  BY <1>1, <1>3 DEF Reached, Over, Reqs
<1>7. QED
  BY <1>2, <1>4, <1>5, <1>6

LEMMA StartFailsKeeps ==
  ASSUME LoadInv, StartFails
  PROVE  LoadInv'
<1>1. phase' = "refused" /\ UNCHANGED <<workVars, outside, stepVars, graph, cached, bl, answer>>
  BY DEF StartFails
<1>2. UNCHANGED <<world, main, step, need, left, graph, cached, bl, answer, at, item, added>>
  BY <1>1 DEF workVars, outside, stepVars
<1>3. /\ Inv' /\ Visited' = Visited /\ Known' = Known /\ Reached' = Reached
      /\ Over' = Over /\ Reqs' = Reqs
  BY <1>1, CallerFrame
<1>4. LoadTypeOK'
  BY <1>1, <1>2 DEF LoadInv, LoadTypeOK, Ended
<1>5. StepInv'
  BY <1>2 DEF LoadInv, StepInv
<1>6. ListInv'
  BY <1>2, <1>3 DEF LoadInv, ListInv
<1>7. CacheInv'
  BY <1>1, <1>2, <1>3 DEF LoadInv, CacheInv, Going
<1>8. CallInv'
  BY <1>1 DEF CallInv, Going, Answered, PanicNeedsTwoOfMissing
<1>9. QED
  BY <1>3, <1>4, <1>5, <1>6, <1>7, <1>8 DEF LoadInv

LEMMA StartKeeps ==
  ASSUME LoadInv, Start
  PROVE  LoadInv'
<1>1. /\ phase = "start" /\ ~main.err
      /\ UNCHANGED <<workVars, outside, stepVars, cached, bl, answer>>
      /\ \/ /\ RaisePanics(NoneSelected, Reqs.roots)
            /\ phase' = "comparePanic" /\ UNCHANGED graph
         \/ phase' = "walk" /\ graph' = NewGraph(Reqs, Reqs.roots)
  BY DEF Start
<1>2. UNCHANGED <<world, main, step, need, left, cached, bl, answer, at, item, added>>
  BY <1>1 DEF workVars, outside, stepVars
<1>3. /\ Inv' /\ Visited' = Visited /\ Known' = Known /\ Reached' = Reached
      /\ Over' = Over /\ Reqs' = Reqs
  BY <1>1, CallerFrame
<1>4. cached = {} /\ Known = {main.mod} /\ \A r \in Runner : step[r] = "out"
  BY <1>1 DEF LoadInv, CallInv
<1>5. GoodReqs(Reqs) /\ Reqs.roots = main.deps /\ main.deps \in Seq(Real)
      /\ main.mod = Main(world) /\ main.deps = Needs(world, main.mod)
  BY ReqsAreGood DEF LoadInv
<1>6. StepInv'
  BY <1>2, <1>4 DEF LoadInv, StepInv
<1>7. ListInv'
  BY <1>2, <1>3 DEF LoadInv, ListInv
<1>8. CASE phase' = "comparePanic" /\ UNCHANGED graph /\ RaisePanics(NoneSelected, Reqs.roots)
  <2>1. LoadTypeOK'
    BY <1>2, <1>8 DEF LoadInv, LoadTypeOK, Ended
  <2>2. CacheInv'
    BY <1>2, <1>3, <1>8 DEF LoadInv, CacheInv, Going
  <2>3. TwoOfMissing
    <3>1. NoneSelected \in Selections /\ \A p \in Path : NoneSelected[p] = NoVersion
      BY DEF NoneSelected, Selections, Choice
    <3>2. main.mod \in Reached
      BY <1>5, ReachedIs DEF LoadInv, LoadTypeOK
    <3>3. QED
      BY <1>5, <1>8, <3>1, <3>2, PanicIsTwo DEF LoadInv
  <2>4. TwoOfMissing'
    BY <1>2, <1>3, <2>3 DEF TwoOfMissing
  <2>5. CallInv'
    BY <1>8, <2>4 DEF CallInv, Going, Answered, PanicNeedsTwoOfMissing, TwoOfMissing
  <2>6. QED
    BY <1>3, <1>6, <1>7, <2>1, <2>2, <2>5 DEF LoadInv
<1>9. CASE phase' = "walk" /\ graph' = NewGraph(Reqs, Reqs.roots)
  <2>1. Selects(Reqs, graph'.selected, ToSet(main.deps))
        /\ graph'.reach = ToSet(main.deps) /\ graph'.required = [m \in {} |-> <<>>]
    <3>1. Selects(Reqs, RaiseAll(Reqs, NoneSelected, main.deps), {} \cup ToSet(main.deps))
      BY <1>5, NothingSelected, RaiseAllSelects
    <3>2. QED
      BY <1>5, <1>9, <3>1 DEF NewGraph
  <2>2. LoadTypeOK'
    BY <1>2, <1>9, <2>1 DEF LoadInv, LoadTypeOK, Selects
  <2>3. CacheInv'
    <3>1. graph'.required = [m \in cached' |-> Needs(world', m)]
      BY <1>2, <1>4, <2>1
    <3>2. Known' \subseteq graph'.reach \cup {main'.mod}
      BY <1>2, <1>3, <1>4
    <3>3. ToSet(main'.deps) \subseteq graph'.reach
      BY <1>2, <2>1
    <3>4. \A p \in Path : graph'.selected[p] # NoVersion =>
            <<p, graph'.selected[p]>> \in ToSet(Needs(world', main'.mod))
      BY <1>2, <1>5, <2>1 DEF Selects
    <3>5. cached' = {}
      BY <1>2, <1>4
    <3> QED
      BY <3>1, <3>2, <3>3, <3>4, <3>5 DEF CacheInv
  <2>4. CallInv'
    BY <1>1, <1>2, <1>9 DEF CallInv, Going, Answered, PanicNeedsTwoOfMissing
  <2>5. QED
    BY <1>3, <1>6, <1>7, <2>2, <2>3, <2>4 DEF LoadInv
<1>10. QED
  BY <1>1, <1>8, <1>9

LEMMA CollectKeeps ==
  ASSUME LoadInv, Collect
  PROVE  LoadInv'
<1> DEFINE c == Conclude(bl)
<1>1. /\ phase = "walk" /\ at[Caller] = "returned"
      /\ UNCHANGED <<workVars, outside, stepVars, graph, cached, bl>>
      /\ answer' = [answer EXCEPT !.list = c.list]
      /\ phase' = CASE c.err -> "failed"
                    [] ~c.err /\ Head(c.list) # Reqs.main -> "mistake"
                    [] OTHER -> "convert"
  BY DEF Collect
<1>2. UNCHANGED <<world, main, step, need, left, graph, cached, bl, at, item, added>>
  BY <1>1 DEF workVars, outside, stepVars
<1>3. /\ Inv' /\ Visited' = Visited /\ Known' = Known /\ Reached' = Reached
      /\ Over' = Over /\ Reqs' = Reqs
  BY <1>1, CallerFrame
<1>4. Over
  BY <1>1, CallerAssumption DEF Over
<1>5. /\ bl.errs # {} => c.err = TRUE /\ c.list = FindPath(bl.graph, bl.errs)
      /\ bl.errs = {} => c.err = FALSE /\ c.list = GraphBuildList(bl.graph)
  BY DEF Conclude
<1>6. bl.errs = {} => Head(c.list) = Reqs.main
  BY <1>4, <1>5, ListOfAll, ReqsAreGood DEF LoadInv
<1> HIDE DEF c
<1>7. /\ bl.errs # {} => phase' = "failed"
      /\ bl.errs = {} => phase' = "convert"
  BY <1>1, <1>5, <1>6
<1>8. answer' = [list |-> answer'.list, deps |-> answer'.deps] /\ answer'.list = c.list
  BY <1>1 DEF LoadInv, LoadTypeOK
<1>9. LoadTypeOK'
  BY <1>2, <1>7, <1>8 DEF LoadInv, LoadTypeOK, Ended
<1>10. StepInv'
  BY <1>2 DEF LoadInv, StepInv
<1>11. ListInv'
  BY <1>2, <1>3 DEF LoadInv, ListInv
<1>12. CacheInv'
  BY <1>1, <1>2, <1>3 DEF LoadInv, CacheInv, Going
<1>13. CallInv'
  <2>1. ~main'.err
    BY <1>1, <1>2 DEF LoadInv, CallInv, Going
  <2>2. (phase' = "convert" /\ bl.errs = {}) \/ (phase' = "failed" /\ bl.errs # {})
    BY <1>7
  <2>3. Over' /\ bl' = bl /\ answer'.list = c.list
    BY <1>2, <1>3, <1>4, <1>8
  <2>4. CASE phase' = "convert" /\ bl.errs = {}
    BY <1>5, <2>1, <2>3, <2>4 DEF CallInv, Answered, PanicNeedsTwoOfMissing
  <2>5. CASE phase' = "failed" /\ bl.errs # {}
    BY <1>5, <2>1, <2>3, <2>5 DEF CallInv, Answered, PanicNeedsTwoOfMissing
  <2>6. QED
    BY <2>2, <2>4, <2>5
<1>14. QED
  BY <1>3, <1>9, <1>10, <1>11, <1>12, <1>13 DEF LoadInv

\* Every module of the answer can be loaded: convertToModules finds no error
\* that the walk has not found.
LEMMA ConvertFindsAll ==
  ASSUME LoadInv, phase = "convert"
  PROVE  ConvertToModules(ToSet(answer.list) \cup
                          UNION {ToSet(DirectDeps(m)) : m \in ToSet(answer.list)})
<1> DEFINE list == answer.list
<1>1. Over /\ bl.errs = {} /\ list = GraphBuildList(bl.graph)
  BY DEF LoadInv, CallInv, Answered
<1>2. list \in Seq(Real) /\ list # <<>> /\ ToSet(list) \subseteq Reached
  BY <1>1, ListOfAll
<1>3. Visited = Reached
  BY <1>1, OverMeansAll
<1>4. \A m \in Reached : HasFormula(world, m)
  <2>1. \A m \in Reached : ~Fails(world, m)
    BY <1>1, <1>3 DEF LoadInv, ListInv
  <2>2. QED
    BY <2>1, ReachedIs, LoadDepsIs DEF LoadInv, LoadTypeOK
<1>5. \A m \in ToSet(list) : ToSet(DirectDeps(m)) \subseteq Reached
  <2>1. TAKE m \in ToSet(list)
  <2>2. CASE m = Reqs.main
    <3>1. DirectDeps(m) = Tail(list)
      BY <2>2 DEF DirectDeps
    <3>2. ToSet(Tail(list)) \subseteq ToSet(list)
      BY <1>2 DEF ToSet
    <3>3. QED
      BY <1>2, <3>1, <3>2
  <2>3. CASE m # Reqs.main
    <3>1. DirectDeps(m) = RequiredBy(graph, m)
      BY <2>3 DEF DirectDeps
    <3>2. graph.required = [x \in cached |-> Needs(world, x)]
      BY DEF LoadInv, CacheInv
    <3>3. CASE m \in cached
      <4>1. DirectDeps(m) = Needs(world, m)
        BY <3>1, <3>2, <3>3 DEF RequiredBy
      <4>2. QED
        BY <1>2, <4>1, ReachedIs DEF LoadInv, LoadTypeOK
    <3>4. CASE m \notin cached
      <4>1. DirectDeps(m) = <<>>
        BY <3>1, <3>2, <3>4 DEF RequiredBy
      <4>2. QED
        BY <4>1 DEF ToSet
    <3>5. QED
      BY <3>3, <3>4
  <2>4. QED
    BY <2>2, <2>3
<1>6. \A x \in ToSet(list) \cup UNION {ToSet(DirectDeps(m)) : m \in ToSet(list)} :
        x \in Reached
  BY <1>2, <1>5
<1> HIDE DEF list
<1>7. QED
  BY <1>4, <1>6 DEF ConvertToModules, list

LEMMA ConvertKeeps ==
  ASSUME LoadInv, Convert
  PROVE  LoadInv'
<1>1. /\ phase = "convert"
      /\ UNCHANGED <<workVars, outside, stepVars, graph, cached, bl>>
      /\ phase' = "loaded" /\ \E d : answer' = [answer EXCEPT !.deps = d]
  BY ConvertFindsAll DEF Convert
<1>2. UNCHANGED <<world, main, step, need, left, graph, cached, bl, at, item, added>>
  BY <1>1 DEF workVars, outside, stepVars
<1>3. /\ Inv' /\ Visited' = Visited /\ Known' = Known /\ Reached' = Reached
      /\ Over' = Over /\ Reqs' = Reqs
  BY <1>1, CallerFrame
<1>4. answer' = [list |-> answer'.list, deps |-> answer'.deps] /\ answer'.list = answer.list
  BY <1>1 DEF LoadInv, LoadTypeOK
<1>5. LoadTypeOK'
  BY <1>1, <1>2, <1>4 DEF LoadInv, LoadTypeOK, Ended
<1>6. StepInv'
  BY <1>2 DEF LoadInv, StepInv
<1>7. ListInv'
  BY <1>2, <1>3 DEF LoadInv, ListInv
<1>8. CacheInv'
  BY <1>1, <1>2, <1>3 DEF LoadInv, CacheInv, Going
<1>9. CallInv'
  <2>1. ~main'.err
    BY <1>1, <1>2 DEF LoadInv, CallInv, Going
  <2>2. Over /\ bl.errs = {} /\ answer.list = GraphBuildList(bl.graph)
    BY <1>1 DEF LoadInv, CallInv, Answered
  <2>3. Over' /\ bl' = bl /\ answer'.list = answer.list
    BY <1>2, <1>3, <1>4, <2>2
  <2>4. QED
    BY <1>1, <2>1, <2>2, <2>3 DEF CallInv, Answered, PanicNeedsTwoOfMissing
<1>10. QED
  BY <1>3, <1>5, <1>6, <1>7, <1>8, <1>9 DEF LoadInv

-----------------------------------------------------------------------------
(* The steps of the runners. *)

\* Between two calls of the callback, runner r may take up a module.
LEMMA LoopIs ==
  ASSUME LoadInv, NEW r \in Runner, Loop(r)
  PROVE  /\ Inv' /\ Done' = Done /\ added' = added /\ (Over => Over')
         /\ at[r] # "run"
         /\ \A s \in Runner \ {r} :
              item'[s] = item[s] /\ (at'[s] = "run" <=> at[s] = "run")
<1> USE DEF LoadInv
<1>1. CASE Take(r)
  <2>1. Inv'
    BY <1>1, TakeKeeps
  <2>2. Done' = Done /\ Over' = Over
    BY <1>1, TakeBegins DEF Promise!Begin, Done, Over
  <2>3. QED
    BY <1>1, <2>1, <2>2 DEF Take, Looking, Inv, WorkTypeOK
<1>2. CASE Sleep(r)
  <2>1. Inv' /\ Done' = Done /\ Over' = Over
    BY <1>2, SleepKeeps, SleepStutters
  <2>2. QED
    BY <1>2, <2>1 DEF Sleep, Looking, Inv, WorkTypeOK
<1>3. CASE Finish(r)
  <2>1. Inv' /\ Done' = Done
    BY <1>3, FinishKeeps, FinishConcludes DEF Promise!Conclude, Done
  <2>2. at'[r] = "returned" /\ added' = added /\ item' = item /\ at[r] # "run"
    BY <1>3 DEF Finish, Looking
  <2>3. \A s \in Runner \ {r} : at'[s] = IF at[s] = "asleep" THEN "woken" ELSE at[s]
    BY <1>3 DEF Finish
  <2>4. Over'
    BY <2>2 DEF Over
  <2>5. QED
    BY <2>1, <2>2, <2>3, <2>4
<1>4. QED
  BY <1>1, <1>2, <1>3 DEF Loop

LEMMA BetweenKeeps ==
  ASSUME LoadInv, NEW r \in Runner, Between(r)
  PROVE  LoadInv'
<1>1. /\ phase \in {"walk", "convert", "failed", "loaded"} /\ Loop(r)
      /\ step' = IF at'[r] = "run" THEN [step EXCEPT ![r] = "required"] ELSE step
      /\ UNCHANGED <<world, main, phase, need, left, graph, cached, bl, answer>>
  BY DEF Between, outside
<1>2. /\ Inv' /\ Done' = Done /\ added' = added /\ (Over => Over')
      /\ at[r] # "run"
      /\ \A s \in Runner \ {r} :
           item'[s] = item[s] /\ (at'[s] = "run" <=> at[s] = "run")
  BY <1>1, LoopIs
<1>3. /\ step[r] = "out" /\ left[r] = <<>>
      /\ \A s \in Runner \ {r} : step'[s] = step[s]
      /\ step'[r] = IF at'[r] = "run" THEN "required" ELSE "out"
  BY <1>1, <1>2 DEF LoadInv, LoadTypeOK, StepInv
<1>4. Visited' = Visited
  <2>1. \A s \in Runner : step'[s] = "add" <=> step[s] = "add"
    BY <1>3
  <2>2. \A s \in Runner : step[s] = "add" => item'[s] = item[s]
    BY <1>2, <1>3
  <2>3. {item'[s] : s \in {q \in Runner : step'[q] = "add"}}
          = {item[s] : s \in {q \in Runner : step[q] = "add"}}
    BY <2>1, <2>2
  <2>4. QED
    BY <1>2, <2>3 DEF Visited
<1>5. Known' = Known /\ Reached' = Reached /\ Reqs' = Reqs
  BY <1>1, <1>2 DEF Known, Reached, Reqs
<1>6. LoadTypeOK'
  <2>1. step' \in [Runner -> {"out", "required", "require", "record", "add"}]
    BY <1>1 DEF LoadInv, LoadTypeOK
  <2>2. QED
    BY <1>1, <2>1 DEF LoadInv, LoadTypeOK
<1>7. StepInv'
  <2>1. SUFFICES ASSUME NEW s \in Runner
                 PROVE  /\ step'[s] = "out" <=> at'[s] # "run"
                        /\ step'[s] # "add" => left'[s] = <<>>
                        /\ step'[s] \in {"require", "record", "add"} =>
                             need'[s] = LoadDeps(world', item'[s])
                        /\ step'[s] = "require" =>
                             /\ ~Fails(world', item'[s]) /\ item'[s] # main'.mod
                             /\ item'[s] \notin cached'
                        /\ step'[s] = "record" =>
                             ToSet(Needs(world', item'[s])) \subseteq graph'.reach
    BY DEF StepInv
  <2>2. CASE s = r
    BY <1>1, <1>3, <2>2
  <2>3. CASE s # r
    BY <1>1, <1>2, <1>3, <2>3 DEF LoadInv, StepInv
  <2>4. QED
    BY <2>2, <2>3
<1>8. ListInv'
  BY <1>1, <1>2, <1>4, <1>5 DEF LoadInv, ListInv
<1>9. CacheInv'
  <2>1. {item'[s] : s \in {q \in Runner : step'[q] = "record"}}
          = {item[s] : s \in {q \in Runner : step[q] = "record"}}
    <3>1. \A s \in Runner : step'[s] = "record" <=> step[s] = "record"
      BY <1>3
    <3>2. \A s \in Runner : step[s] = "record" => item'[s] = item[s]
      BY <1>2, <1>3
    <3>3. QED
      BY <3>1, <3>2
  <2>2. QED
    BY <1>1, <1>4, <1>5, <2>1 DEF LoadInv, CacheInv
<1>10. CallInv'
  <2>1. phase # "start" /\ phase # "comparePanic" /\ phase # "mistake"
    BY <1>1
  <2>2. QED
    BY <1>1, <1>2, <2>1 DEF LoadInv, CallInv, Answered, PanicNeedsTwoOfMissing
<1>11. QED
  BY <1>2, <1>6, <1>7, <1>8, <1>9, <1>10 DEF LoadInv

\* In the walk, nothing is said of answers.
LEMMA WalkGoesOn ==
  ASSUME LoadInv, phase = "walk", phase' = "walk", UNCHANGED main
  PROVE  CallInv'
<1>1. ~main.err
  BY DEF LoadInv, CallInv, Going
<1>2. QED
  BY <1>1 DEF CallInv, Answered, PanicNeedsTwoOfMissing

LEMMA CallRequiredKeeps ==
  ASSUME LoadInv, NEW r \in Runner, CallRequired(r)
  PROVE  LoadInv'
<1> DEFINE m == item[r]
           known == m = Reqs.main \/ VersionOf(m) = NoVersion \/ m \in cached
           answered == CASE m = Reqs.main -> [err |-> FALSE, deps |-> Reqs.roots]
                         [] m # Reqs.main /\ known ->
                              [err |-> FALSE, deps |-> RequiredBy(graph, m)]
                         [] OTHER -> LoadDeps(world, m)
           next == IF known \/ answered.err THEN "record" ELSE "require"
<1>1. /\ phase = "walk" /\ step[r] = "required"
      /\ need' = [need EXCEPT ![r] = answered]
      /\ step' = [step EXCEPT ![r] = next]
      /\ UNCHANGED <<workVars, outside, phase, left, graph, cached, bl, answer>>
  BY DEF CallRequired, Goto
<1>2. UNCHANGED <<world, main, phase, left, graph, cached, bl, answer, at, item, added, todo>>
  BY <1>1 DEF workVars, outside
<1>3. /\ at[r] = "run" /\ m \in added /\ m \in Known /\ m \in Reached /\ m \in Real
      /\ m \notin Done /\ \A s \in Runner : s # r /\ step[s] # "out" => item[s] # m
  BY <1>1, ItemInHand
<1>4. m \notin cached
  <2>1. m \notin Visited \cup {item[s] : s \in {q \in Runner : step[q] = "record"}}
    BY <1>1, <1>3 DEF Visited
  <2>2. QED
    BY <2>1 DEF LoadInv, CacheInv
<1>5. VersionOf(m) # NoVersion
  BY <1>3, VersionAssumption DEF Real, VersionOf
<1>6. known <=> m = main.mod
  BY <1>4, <1>5 DEF Reqs
<1>7. /\ main.mod = Main(world) /\ main.err = Fails(world, main.mod)
      /\ main.deps = Needs(world, main.mod) /\ main.mod \in Real
      /\ Reqs.main = main.mod /\ Reqs.roots = main.deps
  BY ReqsAreGood DEF LoadInv
<1>8. ~main.err /\ ToSet(main.deps) \subseteq graph.reach
  BY <1>1 DEF LoadInv, CallInv, CacheInv, Going
<1>9. /\ LoadDeps(world, m) = [err |-> Fails(world, m), deps |-> Needs(world, m)]
      /\ LoadDeps(world, m) \in Answer
      /\ Fails(world, m) => Needs(world, m) = <<>>
  <2>1. Fails(world, m) => LoadDeps(world, m) = [err |-> TRUE, deps |-> <<>>]
    BY <1>3, LoadDepsIs DEF LoadDeps, LoadInv, LoadTypeOK
  <2>2. QED
    BY <1>3, <2>1, LoadDepsIs DEF LoadInv, LoadTypeOK, Needs
<1>10. answered = LoadDeps(world, m)
  <2>1. CASE m = main.mod
    <3>1. Fails(world, m) = FALSE /\ Needs(world, m) = main.deps
      BY <1>3, <1>7, <1>8, <2>1, LoadDepsIs DEF LoadInv, LoadTypeOK, Fails, LoadDeps
    <3>2. answered = [err |-> FALSE, deps |-> main.deps]
      BY <1>7, <2>1
    <3>3. QED
      BY <1>9, <3>1, <3>2
  <2>2. CASE m # main.mod
    BY <1>6, <1>7, <2>2
  <2>3. QED
    BY <2>1, <2>2
<1> HIDE DEF answered
<1>11. \/ next = "record" /\ m = main.mod
       \/ next = "record" /\ Fails(world, m)
       \/ next = "require" /\ m # main.mod /\ ~Fails(world, m)
  BY <1>6, <1>9, <1>10
<1> HIDE DEF next, known
<1>12. step'[r] = next /\ need'[r] = LoadDeps(world, m)
       /\ \A s \in Runner \ {r} : step'[s] = step[s] /\ need'[s] = need[s]
  BY <1>1, <1>10 DEF LoadInv, LoadTypeOK
<1>13. Inv'
  BY <1>1, StutterKeeps DEF LoadInv
<1>14. LoadTypeOK'
  <2>1. need' \in [Runner -> Answer]
    BY <1>1, <1>9, <1>10 DEF LoadInv, LoadTypeOK
  <2>2. step' \in [Runner -> {"out", "required", "require", "record", "add"}]
    BY <1>1, <1>11 DEF LoadInv, LoadTypeOK
  <2>3. QED
    BY <1>2, <2>1, <2>2 DEF LoadInv, LoadTypeOK
<1>15. StepInv'
  <2>1. SUFFICES ASSUME NEW s \in Runner
                 PROVE  /\ step'[s] = "out" <=> at'[s] # "run"
                        /\ step'[s] # "add" => left'[s] = <<>>
                        /\ step'[s] \in {"require", "record", "add"} =>
                             need'[s] = LoadDeps(world', item'[s])
                        /\ step'[s] = "require" =>
                             /\ ~Fails(world', item'[s]) /\ item'[s] # main'.mod
                             /\ item'[s] \notin cached'
                        /\ step'[s] = "record" =>
                             ToSet(Needs(world', item'[s])) \subseteq graph'.reach
    BY DEF StepInv
  <2>2. CASE s = r
    <3>1. left[r] = <<>>
      BY <1>1 DEF LoadInv, StepInv
    <3>2. next = "record" => ToSet(Needs(world, m)) \subseteq graph.reach
      BY <1>7, <1>8, <1>9, <1>11 DEF ToSet
    <3>3. QED
      BY <1>2, <1>3, <1>4, <1>11, <1>12, <2>2, <3>1, <3>2
  <2>3. CASE s # r
    BY <1>2, <1>12, <2>3 DEF LoadInv, StepInv
  <2>4. QED
    BY <2>2, <2>3
<1>16. Visited' = Visited /\ Known' = Known /\ Reached' = Reached /\ Reqs' = Reqs
  <2>1. \A s \in Runner : step'[s] = "add" <=> step[s] = "add"
    BY <1>1, <1>11, <1>12
  <2>2. QED
    BY <1>2, <2>1 DEF Visited, Done, Working, Known, Reached, Reqs
<1>17. ListInv'
  BY <1>2, <1>16 DEF LoadInv, ListInv
<1>18. CacheInv'
  <2>1. {item[s] : s \in {q \in Runner : step[q] = "record"}}
          \subseteq {item'[s] : s \in {q \in Runner : step'[q] = "record"}}
    <3>1. \A s \in Runner : step[s] = "record" => step'[s] = "record" /\ item'[s] = item[s]
      BY <1>1, <1>2, <1>12
    <3>2. QED
      BY <3>1
  <2>2. QED
    BY <1>2, <1>16, <2>1 DEF LoadInv, CacheInv
<1>19. CallInv'
  BY <1>1, <1>2, WalkGoesOn
<1>20. QED
  BY <1>13, <1>14, <1>15, <1>17, <1>18, <1>19 DEF LoadInv

\* A panic in a runner ends the call; nothing else changes.
LEMMA PanicKeeps ==
  ASSUME LoadInv, phase' = "comparePanic", TwoOfMissing,
         UNCHANGED <<workVars, outside, stepVars, graph, cached, bl, answer>>
  PROVE  LoadInv'
<1>1. UNCHANGED <<world, main, step, need, left, graph, cached, bl, answer, at, item, added>>
  BY DEF workVars, outside, stepVars
<1>2. /\ Inv' /\ Visited' = Visited /\ Known' = Known /\ Reached' = Reached
      /\ Over' = Over /\ Reqs' = Reqs
  BY CallerFrame
<1>3. LoadTypeOK'
  BY <1>1 DEF LoadInv, LoadTypeOK, Ended
<1>4. StepInv'
  BY <1>1 DEF LoadInv, StepInv
<1>5. ListInv'
  BY <1>1, <1>2 DEF LoadInv, ListInv
<1>6. CacheInv'
  BY <1>1, <1>2 DEF LoadInv, CacheInv, Going
<1>7. TwoOfMissing'
  BY <1>1, <1>2 DEF TwoOfMissing
<1>8. CallInv'
  BY <1>7 DEF CallInv, Going, Answered, PanicNeedsTwoOfMissing, TwoOfMissing
<1>9. QED
  BY <1>2, <1>3, <1>4, <1>5, <1>6, <1>8 DEF LoadInv

LEMMA GraphRequireKeeps ==
  ASSUME LoadInv, NEW r \in Runner, GraphRequire(r)
  PROVE  LoadInv'
<1> DEFINE m == item[r]
           deps == need[r].deps
<1>1. /\ phase = "walk" /\ step[r] = "require"
      /\ phase' = RequireOutcome(graph, m, deps)
      /\ UNCHANGED <<workVars, outside, need, left, bl, answer>>
      /\ phase' = "walk" => /\ graph' = Require(Reqs, graph, m, deps)
                            /\ cached' = cached \cup {m}
                            /\ step' = [step EXCEPT ![r] = "record"]
      /\ phase' # "walk" => UNCHANGED <<graph, cached, step>>
  BY DEF GraphRequire, Goto
<1>2. UNCHANGED <<world, main, need, left, bl, answer, at, item, added, todo>>
  BY <1>1 DEF workVars, outside
<1>3. /\ at[r] = "run" /\ m \in added /\ m \in Known /\ m \in Reached /\ m \in Real
      /\ m \notin Done /\ \A s \in Runner : s # r /\ step[s] # "out" => item[s] # m
  BY <1>1, ItemInHand
<1>4. m # main.mod /\ m \notin cached /\ need[r] = LoadDeps(world, m)
  BY <1>1 DEF LoadInv, StepInv
<1>5. deps = Needs(world, m) /\ deps \in Seq(Real)
  BY <1>3, <1>4, NeedsAreReal DEF Needs, LoadInv, LoadTypeOK
<1>6. graph.required = [x \in cached |-> Needs(world, x)] /\ graph.selected \in Selections
  BY DEF LoadInv, CacheInv, LoadTypeOK
<1>7. ~RequirePanics(graph, m)
  BY <1>3, <1>4, <1>6 DEF RequirePanics, LoadInv, CacheInv
<1>8. \/ phase' = "comparePanic" /\ RaisePanics(graph.selected, deps)
      \/ phase' = "walk"
  BY <1>1, <1>7 DEF RequireOutcome
<1>9. /\ GoodReqs(Reqs) /\ main.mod = Main(world) /\ main.deps = Needs(world, main.mod)
      /\ cached \subseteq Reached /\ main.mod \in Reached
  <2>1. Visited \subseteq Reached
    <3>1. Done \subseteq Known
      BY DEF Done, Known
    <3>2. \A s \in Runner : step[s] = "add" => item[s] \in Reached
      BY ItemInHand
    <3>3. QED
      BY <3>1, <3>2 DEF Visited, LoadInv, ListInv
  <2>2. \A s \in Runner : step[s] = "record" => item[s] \in Reached
    BY ItemInHand
  <2>3. cached \subseteq Reached
    BY <2>1, <2>2 DEF LoadInv, CacheInv
  <2>4. QED
    BY <2>3, ReqsAreGood, ReachedIs DEF LoadInv, LoadTypeOK
<1>10. CASE phase' = "comparePanic" /\ RaisePanics(graph.selected, deps)
  <2>1. UNCHANGED <<workVars, outside, stepVars, graph, cached, bl, answer>>
    BY <1>1, <1>10 DEF stepVars
  <2>2. \A p \in Path \cap world.broken : graph.selected[p] # NoVersion =>
          \E n \in Reached \ {m} : <<p, graph.selected[p]>> \in ToSet(Needs(world, n))
    <3>1. \A n \in cached \cup {main.mod} : n \in Reached \ {m}
      BY <1>4, <1>9
    <3>2. QED
      BY <3>1 DEF LoadInv, CacheInv
  <2>3. TwoOfMissing
    BY <1>3, <1>5, <1>6, <1>10, <2>2, PanicIsTwo DEF LoadInv
  <2>4. QED
    BY <1>10, <2>1, <2>3, PanicKeeps
<1>11. CASE phase' = "walk"
  <2> DEFINE Q == [x \in cached \cup {m} |-> IF x = m THEN deps ELSE graph.required[x]]
             A == RaiseAll(Reqs, graph.selected, deps)
  <2>1. graph' = [roots |-> graph.roots, required |-> Q,
                  reach |-> graph.reach \cup ToSet(deps), selected |-> A]
    BY <1>1, <1>6, <1>11 DEF Require
  <2>2. Q = [x \in cached \cup {m} |-> Needs(world, x)]
    BY <1>5, <1>6
  <2>3. /\ A \in Selections
        /\ \A p \in Path : A[p] = graph.selected[p] \/ <<p, A[p]>> \in ToSet(deps)
    BY <1>5, <1>6, <1>9, RaiseAllIs
  <2> HIDE DEF Q, A
  <2>4. /\ graph'.required = [x \in cached \cup {m} |-> Needs(world, x)]
        /\ graph'.reach = graph.reach \cup ToSet(deps) /\ graph'.selected = A
    BY <2>1, <2>2
  <2>5. cached' = cached \cup {m} /\ step'[r] = "record"
        /\ \A s \in Runner \ {r} : step'[s] = step[s]
    BY <1>1, <1>11 DEF LoadInv, LoadTypeOK
  <2>6. Inv'
    BY <1>1, StutterKeeps DEF LoadInv
  <2>7. LoadTypeOK'
    <3>1. step' \in [Runner -> {"out", "required", "require", "record", "add"}]
      BY <1>1, <1>11 DEF LoadInv, LoadTypeOK
    <3>2. QED
      BY <1>2, <1>11, <2>3, <2>4, <3>1 DEF LoadInv, LoadTypeOK
  <2>8. StepInv'
    <3>1. SUFFICES ASSUME NEW s \in Runner
                   PROVE  /\ step'[s] = "out" <=> at'[s] # "run"
                          /\ step'[s] # "add" => left'[s] = <<>>
                          /\ step'[s] \in {"require", "record", "add"} =>
                               need'[s] = LoadDeps(world', item'[s])
                          /\ step'[s] = "require" =>
                               /\ ~Fails(world', item'[s]) /\ item'[s] # main'.mod
                               /\ item'[s] \notin cached'
                          /\ step'[s] = "record" =>
                               ToSet(Needs(world', item'[s])) \subseteq graph'.reach
      BY DEF StepInv
    <3>2. CASE s = r
      <4>1. left[r] = <<>>
        BY <1>1 DEF LoadInv, StepInv
      <4>2. QED
        BY <1>2, <1>3, <1>4, <1>5, <2>4, <2>5, <3>2, <4>1
    <3>3. CASE s # r
      BY <1>2, <1>3, <2>4, <2>5, <3>3 DEF LoadInv, StepInv
    <3>4. QED
      BY <3>2, <3>3
  <2>9. Visited' = Visited /\ Known' = Known /\ Reached' = Reached /\ Reqs' = Reqs
    <3>1. \A s \in Runner : step'[s] = "add" <=> step[s] = "add"
      BY <1>1, <2>5
    <3>2. QED
      BY <1>2, <3>1 DEF Visited, Done, Working, Known, Reached, Reqs
  <2>10. ListInv'
    BY <1>2, <2>9 DEF LoadInv, ListInv
  <2>11. CacheInv'
    <3>1. {item[s] : s \in {q \in Runner : step[q] = "record"}} \cup {m}
            \subseteq {item'[s] : s \in {q \in Runner : step'[q] = "record"}}
      <4>1. \A s \in Runner : step[s] = "record" => step'[s] = "record" /\ item'[s] = item[s]
        BY <1>1, <1>2, <2>5
      <4>2. step'[r] = "record" /\ item'[r] = m
        BY <1>2, <2>5
      <4>3. QED
        BY <4>1, <4>2
    <3>2. cached' \subseteq Visited' \cup {item'[s] : s \in {q \in Runner : step'[q] = "record"}}
      BY <2>5, <2>9, <3>1 DEF LoadInv, CacheInv
    <3>3. Known' \subseteq graph'.reach \cup {main'.mod}
          /\ (phase' \in Going => ToSet(main'.deps) \subseteq graph'.reach)
      BY <1>1, <1>2, <2>4, <2>9 DEF LoadInv, CacheInv, Going
    <3>4. ASSUME NEW p \in Path, A[p] # NoVersion
          PROVE  \E n \in cached' \cup {main'.mod} : <<p, A[p]>> \in ToSet(Needs(world', n))
      <4>1. CASE A[p] = graph.selected[p]
        BY <1>2, <2>5, <3>4, <4>1 DEF LoadInv, CacheInv
      <4>2. CASE <<p, A[p]>> \in ToSet(deps)
        BY <1>2, <1>5, <2>5, <4>2
      <4>3. QED
        BY <2>3, <4>1, <4>2
    <3>5. main'.mod \notin cached'
      BY <1>2, <1>4, <2>5 DEF LoadInv, CacheInv
    <3>6. graph'.required = [x \in cached' |-> Needs(world', x)]
      BY <1>2, <2>4, <2>5
    <3>7. QED
      BY <2>4, <3>2, <3>3, <3>4, <3>5, <3>6 DEF CacheInv
  <2>12. CallInv'
    BY <1>1, <1>2, <1>11, WalkGoesOn
  <2>13. QED
    BY <2>6, <2>7, <2>8, <2>10, <2>11, <2>12 DEF LoadInv
<1>12. QED
  BY <1>8, <1>10, <1>11

\* What is met: added, or still to be added by some runner.
LEMMA KnownIs ==
  /\ \A x : x \in Known <=> x \in added \/ \E s \in Runner : x \in ToSet(left[s])
  /\ \A x : x \in Known' <=> x \in added' \/ \E s \in Runner : x \in ToSet(left'[s])
<1> DEFINE L(s) == ToSet(left[s])
           M(s) == ToSet(left'[s])
<1>1. /\ Known = added \cup UNION {L(s) : s \in Runner}
      /\ Known' = added' \cup UNION {M(s) : s \in Runner}
  BY DEF Known
<1> HIDE DEF L, M
<1>2. /\ \A x : x \in Known <=> x \in added \/ \E s \in Runner : x \in L(s)
      /\ \A x : x \in Known' <=> x \in added' \/ \E s \in Runner : x \in M(s)
  BY <1>1
<1>3. QED
  BY <1>2 DEF L, M

LEMMA RecordKeeps ==
  ASSUME LoadInv, NEW r \in Runner, Record(r)
  PROVE  LoadInv'
<1> DEFINE m == item[r]
           deps == need[r].deps
           g == bl.graph
<1>1. /\ phase = "walk" /\ step[r] = "record"
      /\ phase' = RequireOutcome(g, m, deps)
      /\ UNCHANGED <<workVars, outside, need, graph, cached, answer>>
      /\ phase' = "walk" => /\ bl' = Visit(Reqs, bl, m, need[r], NoUpgrade)
                            /\ left' = [left EXCEPT ![r] = deps]
                            /\ step' = [step EXCEPT ![r] = "add"]
      /\ phase' # "walk" => UNCHANGED <<bl, left, step>>
  BY DEF Record, Goto
<1>2. UNCHANGED <<world, main, need, graph, cached, answer, at, item, added, todo>>
  BY <1>1 DEF workVars, outside
<1>3. /\ at[r] = "run" /\ m \in added /\ m \in Known /\ m \in Reached /\ m \in Real
      /\ m \notin Done /\ \A s \in Runner : s # r /\ step[s] # "out" => item[s] # m
  BY <1>1, ItemInHand
<1>4. need[r] = LoadDeps(world, m) /\ ToSet(Needs(world, m)) \subseteq graph.reach
      /\ left[r] = <<>>
  BY <1>1 DEF LoadInv, StepInv
<1>5. deps = Needs(world, m) /\ deps \in Seq(Real) /\ need[r].err = Fails(world, m)
  BY <1>3, <1>4, NeedsAreReal DEF Needs, Fails, LoadInv, LoadTypeOK
<1>6. /\ g.roots = <<main.mod>> /\ g.required = [x \in Visited |-> Needs(world, x)]
      /\ g.reach = Known /\ bl.errs = {x \in Visited : Fails(world, x)}
      /\ Selects(Reqs, g.selected, Known)
  BY DEF LoadInv, ListInv
<1>7. m \notin Visited
  BY <1>1, <1>3 DEF Visited
<1>8. \/ phase' = "comparePanic" /\ RaisePanics(g.selected, deps)
      \/ phase' = "walk"
  <2>1. ~RequirePanics(g, m)
    BY <1>3, <1>6, <1>7 DEF RequirePanics
  <2>2. QED
    BY <1>1, <2>1 DEF RequireOutcome
<1>9. /\ GoodReqs(Reqs) /\ main.mod = Main(world) /\ main.deps = Needs(world, main.mod)
      /\ PathOf(main.mod) \notin world.broken
      /\ Known \subseteq Reached /\ Known \subseteq Real /\ Visited \subseteq Reached
  <2>1. Known \subseteq Reached
    BY DEF LoadInv, ListInv
  <2>2. Visited \subseteq Reached
    <3>1. Done \subseteq Known
      BY DEF Done, Known
    <3>2. \A s \in Runner : step[s] = "add" => item[s] \in Reached
      BY ItemInHand
    <3>3. QED
      BY <2>1, <3>1, <3>2 DEF Visited
  <2>3. ~main.err
    BY <1>1 DEF LoadInv, CallInv, Going
  <2>4. QED
    BY <2>1, <2>2, <2>3, ReqsAreGood, ReachedIs DEF LoadInv, LoadTypeOK
<1>10. CASE phase' = "comparePanic" /\ RaisePanics(g.selected, deps)
  <2>1. UNCHANGED <<workVars, outside, stepVars, graph, cached, bl, answer>>
    BY <1>1, <1>10 DEF stepVars
  <2>2. ASSUME NEW p \in Path \cap world.broken, g.selected[p] # NoVersion
        PROVE  \E n \in Reached \ {m} : <<p, g.selected[p]>> \in ToSet(Needs(world, n))
    <3>1. <<p, g.selected[p]>> \in Known
      BY <1>6, <2>2 DEF Selects
    <3>2. <<p, g.selected[p]>> # main.mod
      BY <1>9 DEF PathOf
    <3>3. PICK n \in Visited : <<p, g.selected[p]>> \in ToSet(Needs(world, n))
      BY <3>1, <3>2 DEF LoadInv, ListInv
    <3>4. QED
      BY <1>7, <1>9, <3>3
  <2>3. TwoOfMissing
    BY <1>3, <1>5, <1>6, <1>10, <2>2, PanicIsTwo DEF LoadInv, Selects
  <2>4. QED
    BY <1>10, <2>1, <2>3, PanicKeeps
<1>11. CASE phase' = "walk"
  <2> DEFINE Q == [x \in Visited \cup {m} |-> IF x = m THEN deps ELSE g.required[x]]
             A == RaiseAll(Reqs, g.selected, deps)
             E == IF Fails(world, m) THEN bl.errs \cup {m} ELSE bl.errs
             V == Visited \cup {m}
             K == Known \cup ToSet(deps)
  <2>1. bl' = [graph |-> [roots |-> g.roots, required |-> Q, reach |-> K, selected |-> A],
               errs |-> E]
    <3>1. Require(Reqs, g, m, deps) =
            [roots |-> g.roots, required |-> Q, reach |-> K, selected |-> A]
      BY <1>6 DEF Require
    <3>2. Visit(Reqs, bl, m, need[r], NoUpgrade) =
            [graph |-> Require(Reqs, g, m, deps), errs |-> E]
      <4>1. m \in Mod
        BY <1>3, ModsAreFinite
      <4>2. NoUpgrade[m] = m
        BY <4>1 DEF NoUpgrade
      <4>3. QED
        BY <1>5, <4>2 DEF Visit
    <3>3. QED
      BY <1>1, <1>11, <3>1, <3>2
  <2>2. Q = [x \in V |-> Needs(world, x)]
    BY <1>5, <1>6
  <2>3. E = {x \in V : Fails(world, x)}
    <3>1. Fails(world, m) \in BOOLEAN
      BY <1>3, LoadDepsIs DEF Answer, LoadInv, LoadTypeOK
    <3>2. QED
      BY <1>6, <3>1
  <2>4. Selects(Reqs, A, K)
    BY <1>5, <1>6, <1>9, RaiseAllSelects
  <2> HIDE DEF Q, A, E
  <2>5. /\ left'[r] = deps /\ step'[r] = "add"
        /\ \A s \in Runner \ {r} : step'[s] = step[s] /\ left'[s] = left[s]
    BY <1>1, <1>11 DEF LoadInv, LoadTypeOK
  <2>6. Visited' = V
    <3>1. \A s \in Runner : step'[s] = "add" <=> step[s] = "add" \/ s = r
      BY <2>5
    <3>2. {item[s] : s \in {q \in Runner : step'[q] = "add"}}
            = {item[s] : s \in {q \in Runner : step[q] = "add"}} \cup {m}
      BY <3>1
    <3>3. QED
      BY <1>2, <3>2 DEF Visited, Done, Working
  <2>7. Known' = K
    <3>1. \A x : x \notin ToSet(left[r])
      BY <1>4 DEF ToSet
    <3>2. \A s \in Runner : ToSet(left'[s]) = IF s = r THEN ToSet(deps) ELSE ToSet(left[s])
      BY <2>5
    <3>3. \A x : x \in Known' <=> x \in Known \/ x \in ToSet(deps)
      <4> DEFINE L(s) == ToSet(left[s])
                 M(s) == ToSet(left'[s])
                 D == ToSet(deps)
      <4>1. \A s \in Runner : M(s) = IF s = r THEN D ELSE L(s)
        BY <3>2
      <4>2. \A x : x \notin L(r)
        BY <3>1
      <4>3. /\ \A x : x \in Known <=> x \in added \/ \E s \in Runner : x \in L(s)
            /\ \A x : x \in Known' <=> x \in added \/ \E s \in Runner : x \in M(s)
        BY <1>2, KnownIs
      <4> HIDE DEF L, M, D
      <4>4. \A x : x \in Known' <=> x \in Known \/ x \in D
        BY <4>1, <4>2, <4>3
      <4>5. QED
        BY <4>4 DEF D
    <3>4. QED
      BY <3>3
  <2>8. Reached' = Reached /\ Reqs' = Reqs
    BY <1>2 DEF Reached, Reqs
  <2>9. Inv'
    BY <1>1, StutterKeeps DEF LoadInv
  <2>10. LoadTypeOK'
    <3>1. step' \in [Runner -> {"out", "required", "require", "record", "add"}]
      BY <1>1, <1>11 DEF LoadInv, LoadTypeOK
    <3>2. left' \in [Runner -> Seq(Real)]
      BY <1>1, <1>5, <1>11 DEF LoadInv, LoadTypeOK
    <3>3. QED
      BY <1>2, <1>11, <3>1, <3>2 DEF LoadInv, LoadTypeOK
  <2>11. StepInv'
    <3>1. SUFFICES ASSUME NEW s \in Runner
                   PROVE  /\ step'[s] = "out" <=> at'[s] # "run"
                          /\ step'[s] # "add" => left'[s] = <<>>
                          /\ step'[s] \in {"require", "record", "add"} =>
                               need'[s] = LoadDeps(world', item'[s])
                          /\ step'[s] = "require" =>
                               /\ ~Fails(world', item'[s]) /\ item'[s] # main'.mod
                               /\ item'[s] \notin cached'
                          /\ step'[s] = "record" =>
                               ToSet(Needs(world', item'[s])) \subseteq graph'.reach
      BY DEF StepInv
    <3>2. CASE s = r
      BY <1>2, <1>3, <1>4, <2>5, <3>2
    <3>3. CASE s # r
      BY <1>2, <2>5, <3>3 DEF LoadInv, StepInv
    <3>4. QED
      BY <3>2, <3>3
  <2>12. ListInv'
    <3>1. bl' = [graph |-> [roots |-> <<main'.mod>>,
                            required |-> [x \in Visited' |-> Needs(world', x)],
                            reach |-> Known', selected |-> bl'.graph.selected],
                 errs |-> {x \in Visited' : Fails(world', x)}]
      BY <1>2, <1>6, <2>1, <2>2, <2>3, <2>6, <2>7
    <3>2. main'.mod \in added' /\ Known' \subseteq Reached'
      <4>1. ToSet(deps) \subseteq Reached
        BY <1>3, <1>5, ReachedIs DEF LoadInv, LoadTypeOK
      <4>2. QED
        BY <1>2, <1>9, <2>7, <2>8, <4>1 DEF LoadInv, ListInv
    <3>3. \A x \in Visited' : ToSet(Needs(world', x)) \subseteq Known'
      BY <1>2, <1>5, <2>6, <2>7 DEF LoadInv, ListInv
    <3>4. \A x \in Known' \ {main'.mod} : \E n \in Visited' : x \in ToSet(Needs(world', n))
      <4>1. ASSUME NEW x \in K \ {main.mod}
            PROVE  \E n \in V : x \in ToSet(Needs(world, n))
        <5>1. CASE x \in Known
          BY <4>1, <5>1 DEF LoadInv, ListInv
        <5>2. CASE x \in ToSet(deps)
          BY <1>5, <5>2
        <5>3. QED
          BY <4>1, <5>1, <5>2
      <4>2. QED
        BY <1>2, <2>6, <2>7, <4>1
    <3>5. Selects(Reqs', bl'.graph.selected, Known')
      BY <2>1, <2>4, <2>7, <2>8
    <3>6. QED
      BY <3>1, <3>2, <3>3, <3>4, <3>5 DEF ListInv
  <2>13. CacheInv'
    <3>1. cached' \subseteq Visited' \cup {item'[s] : s \in {q \in Runner : step'[q] = "record"}}
      <4>1. \A s \in Runner : step[s] = "record" =>
              item[s] = m \/ (step'[s] = "record" /\ item'[s] = item[s])
        BY <1>2, <2>5
      <4>2. \A x \in cached : \/ x \in Visited
                              \/ \E s \in Runner : step[s] = "record" /\ x = item[s]
        BY DEF LoadInv, CacheInv
      <4>3. \A x \in cached : \/ x \in V
                              \/ \E s \in Runner : step'[s] = "record" /\ x = item'[s]
        BY <4>1, <4>2
      <4>4. QED
        BY <1>2, <2>6, <4>3
    <3>2. Known' \subseteq graph'.reach \cup {main'.mod}
      BY <1>2, <1>4, <1>5, <2>7 DEF LoadInv, CacheInv
    <3>3. phase' \in Going => ToSet(main'.deps) \subseteq graph'.reach
      BY <1>1, <1>2 DEF LoadInv, CacheInv, Going
    <3>4. QED
      BY <1>2, <3>1, <3>2, <3>3 DEF LoadInv, CacheInv
  <2>14. CallInv'
    BY <1>1, <1>2, <1>11, WalkGoesOn
  <2>15. QED
    BY <2>9, <2>10, <2>11, <2>12, <2>13, <2>14 DEF LoadInv
<1>12. QED
  BY <1>8, <1>10, <1>11

LEMMA AddNextKeeps ==
  ASSUME LoadInv, NEW r \in Runner, AddNext(r)
  PROVE  LoadInv'
<1> DEFINE i == Head(left[r])
<1>1. /\ phase = "walk" /\ step[r] = "add" /\ left[r] # <<>>
      /\ Add(r, i)
      /\ left' = [left EXCEPT ![r] = Tail(left[r])]
      /\ UNCHANGED <<world, main, phase, step, need, graph, cached, bl, answer>>
  BY DEF AddNext, outside
<1>2. left[r] \in Seq(Real)
  BY DEF LoadInv, LoadTypeOK
<1>3. /\ ToSet(left[r]) = {i} \cup ToSet(Tail(left[r]))
      /\ i \in Real /\ Tail(left[r]) \in Seq(Real)
  <2>1. /\ i \in Real /\ Tail(left[r]) \in Seq(Real)
        /\ \A x : x \in ToSet(left[r]) <=> x = i \/ x \in ToSet(Tail(left[r]))
    BY <1>1, <1>2, TailIs
  <2>2. QED
    BY <2>1
<1>4. i \in Item
  BY <1>3, ModsAreFinite, ItemsAreModules
<1>5. Inv'
  BY <1>1, <1>4, AddKeeps DEF LoadInv
<1>6. added' = added \cup {i} /\ item' = item /\ at[r] = "run"
  BY <1>1 DEF Add
<1>7. Done' = Done /\ Over' = Over /\ \A s \in Runner : at'[s] = "run" <=> at[s] = "run"
  <2>1. \A s \in Runner : at'[s] = at[s] \/ (at[s] = "asleep" /\ at'[s] = "woken")
    BY <1>1 DEF Add, Asleep, LoadInv, Inv, WorkTypeOK
  <2>2. Working' = Working /\ Over' = Over
    BY <1>6, <2>1 DEF Working, Over
  <2>3. todo' = IF i \in added THEN todo ELSE todo \cup {i}
    BY <1>1 DEF Add
  <2>4. Working \subseteq added
    BY DEF Working, LoadInv, Inv, ItemsApart
  <2>5. Done' = Done
    BY <1>6, <2>2, <2>3, <2>4 DEF Done
  <2>6. QED
    BY <2>1, <2>2, <2>5
<1>8. left'[r] = Tail(left[r]) /\ \A s \in Runner \ {r} : left'[s] = left[s]
  BY <1>1 DEF LoadInv, LoadTypeOK
<1>9. Visited' = Visited /\ Reached' = Reached /\ Reqs' = Reqs
  BY <1>1, <1>6, <1>7 DEF Visited, Reached, Reqs
<1>10. Known' = Known
  <2> DEFINE L(s) == ToSet(left[s])
             M(s) == ToSet(left'[s])
  <2>1. L(r) = {i} \cup M(r) /\ \A s \in Runner \ {r} : M(s) = L(s)
    BY <1>3, <1>8
  <2>2. /\ \A x : x \in Known <=> x \in added \/ \E s \in Runner : x \in L(s)
        /\ \A x : x \in Known' <=> x \in added' \/ \E s \in Runner : x \in M(s)
    BY KnownIs
  <2> HIDE DEF L, M
  <2>3. \A x : x \in Known' <=> x \in Known
    <3>1. \A x : (\E s \in Runner : x \in L(s)) <=> x = i \/ \E s \in Runner : x \in M(s)
      BY <2>1
    <3>2. QED
      BY <1>6, <2>2, <3>1
  <2>4. QED
    BY <2>3
<1>11. LoadTypeOK'
  <2>1. left' \in [Runner -> Seq(Real)]
    BY <1>1, <1>3 DEF LoadInv, LoadTypeOK
  <2>2. QED
    BY <1>1, <2>1 DEF LoadInv, LoadTypeOK
<1>12. StepInv'
  <2>1. SUFFICES ASSUME NEW s \in Runner
                 PROVE  /\ step'[s] = "out" <=> at'[s] # "run"
                        /\ step'[s] # "add" => left'[s] = <<>>
                        /\ step'[s] \in {"require", "record", "add"} =>
                             need'[s] = LoadDeps(world', item'[s])
                        /\ step'[s] = "require" =>
                             /\ ~Fails(world', item'[s]) /\ item'[s] # main'.mod
                             /\ item'[s] \notin cached'
                        /\ step'[s] = "record" =>
                             ToSet(Needs(world', item'[s])) \subseteq graph'.reach
    BY DEF StepInv
  <2>2. step'[s] # "add" => left'[s] = <<>>
    BY <1>1, <1>8 DEF LoadInv, StepInv
  <2>3. QED
    BY <1>1, <1>6, <1>7, <2>2 DEF LoadInv, StepInv
<1>13. ListInv'
  BY <1>1, <1>6, <1>9, <1>10 DEF LoadInv, ListInv
<1>14. CacheInv'
  BY <1>1, <1>6, <1>9, <1>10 DEF LoadInv, CacheInv
<1>15. CallInv'
  BY <1>1, WalkGoesOn
<1>16. QED
  BY <1>5, <1>11, <1>12, <1>13, <1>14, <1>15 DEF LoadInv

LEMMA CallbackReturnsKeeps ==
  ASSUME LoadInv, NEW r \in Runner, CallbackReturns(r)
  PROVE  LoadInv'
<1> DEFINE m == item[r]
<1>1. /\ phase = "walk" /\ step[r] = "add" /\ left[r] = <<>>
      /\ Return(r)
      /\ step' = [step EXCEPT ![r] = "out"]
      /\ UNCHANGED <<world, main, phase, need, left, graph, cached, bl, answer>>
  BY DEF CallbackReturns, Goto, outside
<1>2. Inv'
  BY <1>1, ReturnKeeps DEF LoadInv
<1>3. /\ added' = added /\ at'[r] = "look"
      /\ \A s \in Runner \ {r} : at'[s] = at[s] /\ item'[s] = item[s]
  BY <1>1 DEF Return, LoadInv, Inv, WorkTypeOK
<1>4. Done' = Done \cup {m}
  BY <1>1, ReturnEnds DEF Promise!End, Done, LoadInv
<1>5. step'[r] = "out" /\ \A s \in Runner \ {r} : step'[s] = step[s]
  BY <1>1 DEF LoadInv, LoadTypeOK
<1>6. Visited' = Visited
  <2>1. \A s \in Runner : step[s] = "add" <=> s = r \/ (step'[s] = "add" /\ item'[s] = item[s])
    BY <1>1, <1>3, <1>5
  <2>2. \A x : (\E s \in Runner : step[s] = "add" /\ x = item[s]) <=>
                 x = m \/ \E s \in Runner : step'[s] = "add" /\ x = item'[s]
    BY <1>3, <1>5, <2>1
  <2>3. QED
    BY <1>4, <2>2 DEF Visited
<1>7. Known' = Known /\ Reached' = Reached /\ Reqs' = Reqs
  BY <1>1, <1>3 DEF Known, Reached, Reqs
<1>8. LoadTypeOK'
  <2>1. step' \in [Runner -> {"out", "required", "require", "record", "add"}]
    BY <1>1 DEF LoadInv, LoadTypeOK
  <2>2. QED
    BY <1>1, <2>1 DEF LoadInv, LoadTypeOK
<1>9. StepInv'
  <2>1. SUFFICES ASSUME NEW s \in Runner
                 PROVE  /\ step'[s] = "out" <=> at'[s] # "run"
                        /\ step'[s] # "add" => left'[s] = <<>>
                        /\ step'[s] \in {"require", "record", "add"} =>
                             need'[s] = LoadDeps(world', item'[s])
                        /\ step'[s] = "require" =>
                             /\ ~Fails(world', item'[s]) /\ item'[s] # main'.mod
                             /\ item'[s] \notin cached'
                        /\ step'[s] = "record" =>
                             ToSet(Needs(world', item'[s])) \subseteq graph'.reach
    BY DEF StepInv
  <2>2. CASE s = r
    BY <1>1, <1>3, <1>5, <2>2
  <2>3. CASE s # r
    BY <1>1, <1>3, <1>5, <2>3 DEF LoadInv, StepInv
  <2>4. QED
    BY <2>2, <2>3
<1>10. ListInv'
  BY <1>1, <1>3, <1>6, <1>7 DEF LoadInv, ListInv
<1>11. CacheInv'
  <2>1. {item'[s] : s \in {q \in Runner : step'[q] = "record"}}
          = {item[s] : s \in {q \in Runner : step[q] = "record"}}
    <3>1. \A s \in Runner : step'[s] = "record" <=> step[s] = "record"
      BY <1>1, <1>5
    <3>2. \A s \in Runner : step[s] = "record" => item'[s] = item[s]
      BY <1>1, <1>3
    <3>3. QED
      BY <3>1, <3>2
  <2>2. QED
    BY <1>1, <1>6, <1>7, <2>1 DEF LoadInv, CacheInv
<1>12. CallInv'
  BY <1>1, WalkGoesOn
<1>13. QED
  BY <1>2, <1>8, <1>9, <1>10, <1>11, <1>12 DEF LoadInv

-----------------------------------------------------------------------------
(* The theorems. *)

LEMMA InitLoad == Init => LoadInv
<1>1. SUFFICES ASSUME Init PROVE LoadInv
  OBVIOUS
<1>2. /\ world \in World
      /\ main = [mod |-> Main(world), err |-> LoadDeps(world, Main(world)).err,
                 deps |-> LoadDeps(world, Main(world)).deps]
      /\ WorkInit({main.mod})
      /\ phase = "start"
      /\ step = [r \in Runner |-> "out"]
      /\ need = [r \in Runner |-> [err |-> FALSE, deps |-> <<>>]]
      /\ left = [r \in Runner |-> <<>>]
      /\ graph = NewGraph(Reqs, <<>>)
      /\ cached = {}
      /\ bl = NewVisits(Reqs, <<main.mod>>)
      /\ answer = [list |-> <<>>, deps |-> <<>>]
  BY <1>1 DEF Init
<1>3. main.mod = Main(world) /\ main.mod \in Real /\ main.mod \in Item
  BY <1>2, NeedsAreReal, ModsAreFinite, ItemsAreModules
<1>4. Inv
  BY <1>2, <1>3, InitInv
<1>5. /\ added = {main.mod} /\ todo = {main.mod} /\ \A r \in Runner : at[r] = "look"
  BY <1>2 DEF WorkInit
<1>6. \A r \in Runner : step[r] = "out" /\ left[r] = <<>>
  BY <1>2
<1>7. Visited = {}
  BY <1>5, <1>6 DEF Visited, Done
<1>8. Known = {main.mod}
  <2>1. \A r \in Runner : \A x : x \notin ToSet(left[r])
    BY <1>6 DEF ToSet
  <2>2. \A x : x \in Known <=> x = main.mod
    BY <1>5, <2>1, KnownIs
  <2>3. QED
    BY <2>2
<1>9. GoodReqs(Reqs) /\ Reqs.main = main.mod
  BY <1>2, <1>3, WorldAssumption DEF GoodReqs, Reqs
<1>10. /\ graph.required = [m \in {} |-> <<>>] /\ graph.reach = {}
       /\ graph.selected = NoneSelected
  <2>1. RaiseAll(Reqs, NoneSelected, <<>>) = NoneSelected
    <3>1. Len(<<>>) = 0
      OBVIOUS
    <3>2. Raised(Reqs, NoneSelected, <<>>)[0] = NoneSelected
      BY <3>1, RaisedUnfolds
    <3>3. QED
      BY <3>1, <3>2 DEF RaiseAll
  <2>2. ToSet(<<>>) = {}
    BY DEF ToSet
  <2>3. QED
    BY <1>2, <2>1, <2>2 DEF NewGraph
<1>11. NoneSelected \in Selections /\ \A p \in Path : NoneSelected[p] = NoVersion
  BY DEF NoneSelected, Selections, Choice
<1>12. LoadTypeOK
  <2>1. [err |-> FALSE, deps |-> <<>>] \in Answer
    BY DEF Answer
  <2>2. need \in [Runner -> Answer] /\ left \in [Runner -> Seq(Real)]
    BY <1>2, <2>1
  <2>3. QED
    BY <1>2, <1>10, <1>11, <2>2 DEF LoadTypeOK, Fails, Needs
<1>13. StepInv
  BY <1>5, <1>6 DEF StepInv
<1>14. Reached = ReachedIn(world) /\ main.mod \in Reached
  BY <1>2, <1>3, ReachedIs
<1>15. ListInv
  <2> DEFINE A == RaiseAll(Reqs, NoneSelected, <<main.mod>>)
             q == <<main.mod>>
  <2>1. ToSet(q) = {main.mod} /\ q \in Seq(Real)
    BY <1>3 DEF ToSet
  <2>2. Selects(Reqs, A, {} \cup ToSet(q))
    <3> HIDE DEF q
    <3>1. Selects(Reqs, RaiseAll(Reqs, NoneSelected, q), {} \cup ToSet(q))
      BY <1>9, <2>1, NothingSelected, RaiseAllSelects
    <3>2. QED
      BY <3>1 DEF q
  <2>3. bl = [graph |-> [roots |-> <<main.mod>>, required |-> [m \in {} |-> <<>>],
                         reach |-> {main.mod}, selected |-> A],
              errs |-> {}]
    BY <1>2, <2>1 DEF NewVisits, NewGraph
  <2> HIDE DEF A
  <2>4. [m \in Visited |-> Needs(world, m)] = [m \in {} |-> <<>>]
    BY <1>7
  <2>5. {m \in Visited : Fails(world, m)} = {}
    BY <1>7
  <2>6. bl = [graph |-> [roots |-> <<main.mod>>,
                         required |-> [m \in Visited |-> Needs(world, m)],
                         reach |-> Known, selected |-> bl.graph.selected],
              errs |-> {m \in Visited : Fails(world, m)}]
    BY <1>8, <2>3, <2>4, <2>5
  <2>7. Selects(Reqs, bl.graph.selected, Known)
    BY <1>8, <2>1, <2>2, <2>3
  <2>8. QED
    BY <1>5, <1>7, <1>8, <1>14, <2>6, <2>7 DEF ListInv
<1>16. CacheInv
  BY <1>2, <1>8, <1>10, <1>11 DEF CacheInv, Going
<1>17. CallInv
  BY <1>2, <1>6, <1>8 DEF CallInv, Going, Answered, PanicNeedsTwoOfMissing
<1>18. QED
  BY <1>4, <1>12, <1>13, <1>15, <1>16, <1>17 DEF LoadInv

\* LoadInv holds in every reachable state of a call.
THEOREM LoadInvariance == Spec => []LoadInv
<1>1. LoadInv /\ [Next]_vars => LoadInv'
  <2>1. SUFFICES ASSUME LoadInv, [Next]_vars PROVE LoadInv'
    OBVIOUS
  <2>2. CASE UNCHANGED vars
    <3>1. UNCHANGED <<workVars, outside, stepVars, graph, cached, bl, answer, phase>>
      BY <2>2 DEF vars, loadVars
    <3>2. UNCHANGED <<world, main, step, need, left, graph, cached, bl, answer, at, item, added>>
      BY <3>1 DEF workVars, outside, stepVars
    <3>3. /\ Inv' /\ Visited' = Visited /\ Known' = Known /\ Reached' = Reached
          /\ Over' = Over /\ Reqs' = Reqs
      BY <2>1, <3>1, CallerFrame
    <3>4. LoadTypeOK' /\ StepInv'
      BY <2>1, <3>1, <3>2 DEF LoadInv, LoadTypeOK, StepInv
    <3>5. ListInv' /\ CacheInv'
      BY <2>1, <3>1, <3>2, <3>3 DEF LoadInv, ListInv, CacheInv
    <3>6. CallInv'
      BY <2>1, <3>1, <3>2, <3>3 DEF LoadInv, CallInv, Answered, PanicNeedsTwoOfMissing
    <3>7. QED
      BY <3>3, <3>4, <3>5, <3>6 DEF LoadInv
  <2>3. CASE Calls
    BY <2>1, <2>3, StartFailsKeeps, StartKeeps, CollectKeeps, ConvertKeeps DEF Calls
  <2>4. ASSUME NEW r \in Runner, Runs(r) PROVE LoadInv'
    BY <2>1, <2>4, BetweenKeeps, CallRequiredKeeps, GraphRequireKeeps, RecordKeeps,
       AddNextKeeps, CallbackReturnsKeeps DEF Runs
  <2>5. CASE Terminated
    BY <2>2, <2>5 DEF Terminated
  <2>6. QED
    BY <2>1, <2>2, <2>3, <2>4, <2>5 DEF Next
<1>2. QED
  BY <1>1, InitLoad, PTL DEF Spec

\* The answer of Load is the minimal build list of the requirements, whatever
\* the order of the visits: the main module, and of every other path that is
\* reached the highest version required (mvs.go:80-89).
THEOREM LoadListsMinimal == Spec => []ListIsMinimal
<1>1. LoadInv => ListIsMinimal
  BY ListIsMinimalThen
<1>2. QED
  BY <1>1, LoadInvariance, PTL

\* A comparator that cannot be loaded panics only when two requirements name
\* its path, and the graph's and the build list's own panics never happen
\* (load.go:98, graph.go:62-70, mvs.go:178).
THEOREM LoadPanicsOnTwo == Spec => []PanicNeedsTwoOfMissing
<1>1. LoadInv => PanicNeedsTwoOfMissing
  BY DEF LoadInv, CallInv
<1>2. QED
  BY <1>1, LoadInvariance, PTL

\* The work set as Load drives it: no lost wake-up leaves all runners asleep.
THEOREM LoadNeverAsleep == Spec => []NeverAllAsleep
<1>1. LoadInv => NeverAllAsleep
  BY DEF LoadInv, Inv
<1>2. QED
  BY <1>1, LoadInvariance, PTL

-----------------------------------------------------------------------------
(* The error of a call. *)

LEMMA ErrorIsNearestThen ==
  ASSUME LoadInv
  PROVE  ErrorIsNearest
<1>1. world \in World /\ main.mod = Main(world) /\ main.err = Fails(world, main.mod)
  BY DEF LoadInv, LoadTypeOK
<1>2. ASSUME Answered PROVE \A m \in Reached : ~Fails(world, m)
  <2>1. Over /\ bl.errs = {}
    BY <1>2 DEF LoadInv, CallInv
  <2>2. Visited = Reached /\ bl.errs = {m \in Visited : Fails(world, m)}
    BY <2>1, OverMeansAll DEF LoadInv, ListInv
  <2>3. QED
    BY <2>1, <2>2
<1>3. ASSUME phase = "failed"
      PROVE  LET chain == answer.list IN
             /\ chain # <<>>
             /\ chain[1] = Reqs.main
             /\ \A i \in 1..(Len(chain) - 1) :
                  chain[i + 1] \in ToSet(Needs(world, chain[i]))
             /\ Fails(world, Last(chain))
             /\ \A m \in Within(world)[Len(chain) - 2] : ~Fails(world, m)
  <2> DEFINE g == bl.graph
             Wanted == bl.errs
             chain == answer.list
  <2>1. Over /\ Wanted # {} /\ chain = FindPath(g, Wanted) /\ ~main.err
    BY <1>3 DEF LoadInv, CallInv, Going
  <2>2. Visited = ReachedIn(world) /\ ReachedIn(world) = Reached
    BY <1>1, <2>1, OverMeansAll, ReachedIs DEF Reached, ReachedIn, AllMods
  <2>3. /\ g.roots = <<Main(world)>>
        /\ g.required = [m \in ReachedIn(world) |-> Needs(world, m)]
        /\ Wanted = {m \in ReachedIn(world) : Fails(world, m)}
    BY <1>1, <2>2 DEF LoadInv, ListInv
  <2>4. Main(world) \notin Wanted
    BY <1>1, <2>1, <2>3
  <2> HIDE DEF g, Wanted, chain
  <2>5. Wanted \subseteq ReachedIn(world)
    BY <2>3
  <2>6. /\ Chained(world, chain)
        /\ chain[Len(chain)] \in Wanted
        /\ Len(chain) - 2 \in 0..AllMods
        /\ \A x \in Within(world)[Len(chain) - 2] : x \notin Wanted
    BY <1>1, <2>1, <2>3, <2>4, <2>5, FindPathIs
  <2>7. Within(world)[Len(chain) - 2] \subseteq ReachedIn(world)
    BY <1>1, <2>6, ReachedIsLeast
  <2>8. /\ chain # <<>> /\ chain[1] = Main(world)
        /\ \A i \in 1..(Len(chain) - 1) :
             chain[i + 1] \in ToSet(Needs(world, chain[i]))
    BY <2>6 DEF Chained
  <2>9. Reqs.main = Main(world)
    BY <1>1 DEF Reqs
  <2>10. Fails(world, Last(chain))
    BY <2>3, <2>6 DEF Last
  <2>11. \A m \in Within(world)[Len(chain) - 2] : ~Fails(world, m)
    BY <2>3, <2>6, <2>7
  <2>12. QED
    BY <2>8, <2>9, <2>10, <2>11 DEF chain
<1>4. QED
  BY <1>2, <1>3 DEF ErrorIsNearest

\* A version that cannot be loaded fails the call, and the error names a
\* shortest chain of requirements to such a version (FindPath, graph.go:177-220;
\* mvs.go:154-168).
THEOREM LoadErrorIsNearest == Spec => []ErrorIsNearest
<1>1. LoadInv => ErrorIsNearest
  BY ErrorIsNearestThen
<1>2. QED
  BY <1>1, LoadInvariance, PTL

-----------------------------------------------------------------------------
(* Load as a user of the work set. *)

\* What the runners of a call do is what the work set lets its users do, and
\* all that they add is a module version.
THEOREM LoadUsesWorkSet == Spec => WorkSpec
<1>1. Init => \E first \in SUBSET Item : WorkInit(first)
  <2>1. SUFFICES ASSUME Init PROVE \E first \in SUBSET Item : WorkInit(first)
    OBVIOUS
  <2>2. main.mod \in Real /\ WorkInit({main.mod})
    BY <2>1, NeedsAreReal DEF Init
  <2>3. {main.mod} \in SUBSET Item
    BY <2>2, ModsAreFinite, ItemsAreModules
  <2>4. QED
    BY <2>2, <2>3
<1>2. LoadInv /\ [Next]_vars => [WorkNext]_workVars
  <2>1. SUFFICES ASSUME LoadInv, Next PROVE WorkNext \/ UNCHANGED workVars
    BY DEF vars
  <2>2. CASE Calls
    BY <2>2 DEF Calls, StartFails, Start, Collect, Convert
  <2>3. ASSUME NEW r \in Runner, Runs(r) PROVE WorkNext \/ UNCHANGED workVars
    <3>1. CASE Between(r)
      BY <3>1 DEF Between, WorkNext
    <3>2. CASE CallRequired(r) \/ GraphRequire(r) \/ Record(r)
      BY <3>2 DEF CallRequired, GraphRequire, Record
    <3>3. CASE AddNext(r)
      <4>1. Add(r, Head(left[r])) /\ left[r] # <<>>
        BY <3>3 DEF AddNext
      <4>2. left[r] \in Seq(Real)
        BY <2>1 DEF LoadInv, LoadTypeOK
      <4>3. Head(left[r]) \in Item
        BY <4>1, <4>2, TailIs, ModsAreFinite, ItemsAreModules
      <4>4. QED
        BY <4>1, <4>3 DEF WorkNext
    <3>4. CASE CallbackReturns(r)
      BY <3>4 DEF CallbackReturns, WorkNext
    <3>5. QED
      BY <2>3, <3>1, <3>2, <3>3, <3>4 DEF Runs
  <2>4. CASE Terminated
    BY <2>4 DEF Terminated, vars
  <2>5. QED
    BY <2>1, <2>2, <2>3, <2>4 DEF Next
<1>3. QED
  BY <1>1, <1>2, LoadInvariance, PTL DEF Spec, WorkSpec

\* So the walk visits every module it meets exactly once, only a visit makes
\* it meet more, and Do returns when all are visited (work.go:18-27).
THEOREM LoadKeepsPromise == Spec => PromiseKept
BY LoadUsesWorkSet, WorkSetKeepsPromise

=============================================================================
