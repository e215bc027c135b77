-------------------------- MODULE Algorithms_proofs --------------------------
(***************************************************************************)
(* Theorems about pure algorithms, for every input: the order of refs      *)
(* (RefOrder) and of version texts (VersionOrder), the text that names a   *)
(* build matrix and the query that carries it to llard (BuildMatrix), and  *)
(* the walks for the build order and for the dependencies of a module      *)
(* (BuildOrder), which are steps there.                                    *)
(***************************************************************************)
EXTENDS VersionOrder, RefOrder, BuildMatrix, BuildOrder,
        FiniteSetTheorems, FunctionTheorems, NaturalsInduction, WellFoundedInduction, TLAPS

-----------------------------------------------------------------------------
(* Induction over the naturals, about sets of them. *)

\* A set of naturals that is not empty has a least element.
LEMMA LeastElement ==
  ASSUME NEW S \in SUBSET Nat, S # {}
  PROVE  \E x \in S : \A y \in S : x <= y
<1> DEFINE Less == OpToRel(<, Nat)
<1>1. IsWellFoundedOn(Less, Nat)
  BY NatLessThanWellFounded
<1>2. PICK x \in S : \A y \in S : ~ (<<y, x>> \in Less)
  <2> HIDE DEF Less
  <2> QED
    BY <1>1, WFMin
<1>3. \A y \in S : y < x => <<y, x>> \in Less
  BY DEF OpToRel
<1> HIDE DEF Less
<1>4. \A y \in S : ~(y < x)
  BY <1>2, <1>3
<1>5. x \in Nat /\ \A y \in S : y \in Nat
  OBVIOUS
<1>6. QED
  BY <1>4, <1>5

\* What holds of 0 and passes on to the next holds of all.
LEMMA SetInduction ==
  ASSUME NEW S, 0 \in S, \A n \in Nat : n \in S => n + 1 \in S
  PROVE  Nat \subseteq S
<1>1. SUFFICES ASSUME Nat \ S # {} PROVE FALSE
  OBVIOUS
<1>2. PICK x \in Nat \ S : \A y \in Nat \ S : x <= y
  BY <1>1, LeastElement
<1>3. x # 0 /\ x - 1 \in Nat /\ x - 1 \in S
  <2>1. x # 0 /\ x - 1 \in Nat
    OBVIOUS
  <2>2. QED
    BY <1>2, <2>1
<1>4. (x - 1) + 1 = x
  OBVIOUS
<1>5. QED
  BY <1>3, <1>4

-----------------------------------------------------------------------------
(* Refs. *)

\* What CompareFunc relies on.
IsHistory(h) ==
  /\ h.tags = [t \in DOMAIN h.tags |-> h.tags[t]] /\ IsFiniteSet(DOMAIN h.tags)
  /\ \A t \in DOMAIN h.tags : h.tags[t] \in h.known /\ h.rank[t] \in Int
  /\ h.known \subseteq Int
  /\ \A c \in h.known : h.time[c] \in Int /\ h.above[c] \subseteq h.known
  /\ NoTag \notin DOMAIN h.tags

\* The refs that resolve.
Refs(h) == DOMAIN h.tags \cup h.known

\* Every tag is listed at a commit that was fetched with all it descends
\* from, so that the walks of CompareFunc never leave the bare repository.
THEOREM ViewIsHistory ==
  ASSUME NEW r, IsRemote(r)
  PROVE  IsHistory(View(r))
<1> DEFINE h == View(r)
<1>1. /\ h.tags = LoadTags(r) /\ h.known = Fetched(r) /\ h.rank = r.rank
      /\ h.above = [c \in Fetched(r) |-> r.above[c]]
      /\ h.time = [c \in Fetched(r) |-> r.time[c]]
  BY DEF View
<1>2. /\ DOMAIN LoadTags(r) = DOMAIN r.tags
      /\ LoadTags(r) = [t \in DOMAIN LoadTags(r) |-> LoadTags(r)[t]]
      /\ \A t \in DOMAIN r.tags : LoadTags(r)[t] \in Commit /\ LoadTags(r)[t] \in Tips(r)
  BY DEF LoadTags, Tips, IsRemote
<1>3. Tips(r) \subseteq Commit
  BY <1>2 DEF Tips, IsRemote
<1>4. Tips(r) \subseteq Fetched(r) /\ Fetched(r) \subseteq Commit
  BY <1>3 DEF Fetched, IsRemote
<1>5. ASSUME NEW c \in Fetched(r) PROVE r.above[c] \subseteq Fetched(r)
  <2>1. CASE c \in Tips(r)
    BY <2>1 DEF Fetched
  <2>2. CASE c \notin Tips(r)
    <3>1. PICK d \in Tips(r) : c \in r.above[d]
      BY <1>5, <2>2 DEF Fetched
    <3>2. r.above[c] \subseteq r.above[d]
      BY <1>3, <3>1 DEF IsRemote
    <3>3. QED
      BY <3>1, <3>2 DEF Fetched
  <2>3. QED
    BY <2>1, <2>2
<1>6. \A c \in Fetched(r) : h.time[c] \in Int /\ h.above[c] \subseteq Fetched(r)
  BY <1>1, <1>4, <1>5 DEF IsRemote
<1> HIDE DEF h
<1>7. /\ h.tags = [t \in DOMAIN h.tags |-> h.tags[t]] /\ IsFiniteSet(DOMAIN h.tags)
      /\ NoTag \notin DOMAIN h.tags
  BY <1>1, <1>2 DEF IsRemote
<1>8. \A t \in DOMAIN h.tags : h.tags[t] \in h.known /\ h.rank[t] \in Int
  BY <1>1, <1>2, <1>4 DEF IsRemote
<1>9. h.known \subseteq Int /\ \A c \in h.known : h.time[c] \in Int /\ h.above[c] \subseteq h.known
  BY <1>1, <1>4, <1>6, CommitAssumption
<1>10. IsHistory(h)
  BY <1>7, <1>8, <1>9 DEF IsHistory
<1>11. QED
  BY <1>10 DEF h

\* What compareRevisions gets.
Revisions(h) ==
  {r \in [commit : h.known, base : DOMAIN h.tags \cup {NoTag}, after : BOOLEAN] :
     r.base = NoTag => r.after}

\* Revisions at tags of one rank stand at the same place.
SamePlace(h, x, y) ==
  /\ x.commit = y.commit /\ x.after = y.after
  /\ x.base = NoTag <=> y.base = NoTag
  /\ x.base # NoTag => h.rank[x.base] = h.rank[y.base]

\* Of some tags one has the highest rank.
LEMMA HighestExists ==
  ASSUME NEW h, IsHistory(h), NEW S, S \subseteq DOMAIN h.tags, S # {}
  PROVE  \E t \in S : \A u \in S : h.rank[u] <= h.rank[t]
<1> DEFINE above(t) == {u \in S : h.rank[u] > h.rank[t]}
           family == {above(t) : t \in S}
<1>1. IsFiniteSet(S)
  BY FS_Subset DEF IsHistory
<1>2. IsWellFoundedOn(StrictSubsetOrdering(S), SUBSET S)
  BY <1>1, FS_StrictSubsetOrderingWellFounded, FS_FiniteSubsetsOfFinite
<1>3. family \subseteq SUBSET S /\ family # {}
  OBVIOUS
<1>4. PICK X \in family : \A Y \in family : <<Y, X>> \notin StrictSubsetOrdering(S)
  <2> HIDE DEF family
  <2> QED
    BY <1>2, <1>3, WFMin
<1>5. PICK t \in S : X = above(t)
  OBVIOUS
<1>6. SUFFICES ASSUME NEW u \in S, ~(h.rank[u] <= h.rank[t]) PROVE FALSE
  BY <1>5
<1>7. \A v \in S : h.rank[v] \in Int
  BY DEF IsHistory
<1>8. u \in above(t) /\ u \notin above(u)
  BY <1>6, <1>7
<1>9. above(u) \subseteq above(t)
  BY <1>6, <1>7
<1>10. <<above(u), above(t)>> \in StrictSubsetOrdering(S)
  BY <1>8, <1>9 DEF StrictSubsetOrdering
<1>11. QED
  BY <1>4, <1>5, <1>6, <1>10

\* A ref stands at one place, whichever of the highest tags the walk over a
\* map comes to.
LEMMA ComparableIsOnePlace ==
  ASSUME NEW h, IsHistory(h), NEW ref \in Refs(h)
  PROVE  /\ Comparable(h, ref) # {}
         /\ Comparable(h, ref) \subseteq Revisions(h)
         /\ \A x, y \in Comparable(h, ref) : SamePlace(h, x, y)
<1>1. CASE ref \in DOMAIN h.tags
  <2>1. Comparable(h, ref) = {[commit |-> h.tags[ref], base |-> ref, after |-> FALSE]}
    BY <1>1 DEF Comparable
  <2>2. [commit |-> h.tags[ref], base |-> ref, after |-> FALSE] \in Revisions(h)
    BY <1>1 DEF Revisions, IsHistory
  <2>3. QED
    BY <2>1, <2>2 DEF SamePlace
<1>2. CASE ref \notin DOMAIN h.tags
  <2> DEFINE tags == ReachableTags(h, ref)
             high == Highest(h, tags)
  <2>1. ref \in h.known
    BY <1>2 DEF Refs
  <2>2. Comparable(h, ref) =
          {[commit |-> ref, base |-> t, after |-> t \notin TagsAt(h, ref)] : t \in high}
    BY <1>2 DEF Comparable
  <2>3. tags \subseteq DOMAIN h.tags /\ (TagsAt(h, ref) # {} => tags = TagsAt(h, ref))
    BY DEF ReachableTags, TagsAt
  <2>4. CASE tags = {}
    <3>1. high = {NoTag} /\ NoTag \notin TagsAt(h, ref)
      BY <2>4 DEF Highest, TagsAt, IsHistory
    <3>2. Comparable(h, ref) = {[commit |-> ref, base |-> NoTag, after |-> TRUE]}
      BY <2>2, <3>1
    <3>3. [commit |-> ref, base |-> NoTag, after |-> TRUE] \in Revisions(h)
      BY <2>1 DEF Revisions
    <3>4. QED
      BY <3>2, <3>3 DEF SamePlace
  <2>5. CASE tags # {}
    <3>1. /\ high # {} /\ high \subseteq tags
          /\ \A t, u \in high : h.rank[t] = h.rank[u]
      <4>1. high = {t \in tags : \A u \in tags : h.rank[u] <= h.rank[t]}
        BY <2>5 DEF Highest
      <4>2. \A t \in tags : h.rank[t] \in Int
        BY <2>3 DEF IsHistory
      <4>3. high # {}
        BY <2>3, <2>5, <4>1, HighestExists
      <4> HIDE DEF tags, high
      <4>4. QED
        BY <4>1, <4>2, <4>3
    <3>2. \A t, u \in high : (t \in TagsAt(h, ref)) <=> (u \in TagsAt(h, ref))
      BY <2>3, <3>1
    <3>3. NoTag \notin high
      BY <2>3, <3>1 DEF IsHistory
    <3> HIDE DEF tags, high
    <3>4. Comparable(h, ref) # {}
      <4>1. PICK t \in high : TRUE
        BY <3>1
      <4>2. [commit |-> ref, base |-> t, after |-> t \notin TagsAt(h, ref)] \in Comparable(h, ref)
        BY <2>2
      <4>3. QED
        BY <4>2
    <3>5. Comparable(h, ref) \subseteq Revisions(h)
      <4>1. \A t \in high : t \in DOMAIN h.tags /\ t # NoTag
        BY <2>3, <3>1, <3>3
      <4>2. ASSUME NEW x \in Comparable(h, ref) PROVE x \in Revisions(h)
        <5>1. PICK t \in high : x = [commit |-> ref, base |-> t, after |-> t \notin TagsAt(h, ref)]
          BY <2>2, <4>2
        <5>2. (t \notin TagsAt(h, ref)) \in BOOLEAN /\ t \in DOMAIN h.tags /\ t # NoTag
          BY <4>1
        <5>3. QED
          BY <2>1, <5>1, <5>2 DEF Revisions
      <4>3. QED
        BY <4>2
    <3>6. ASSUME NEW x \in Comparable(h, ref), NEW y \in Comparable(h, ref)
          PROVE  SamePlace(h, x, y)
      <4>1. PICK t \in high : x = [commit |-> ref, base |-> t, after |-> t \notin TagsAt(h, ref)]
        BY <2>2, <3>6
      <4>2. PICK u \in high : y = [commit |-> ref, base |-> u, after |-> u \notin TagsAt(h, ref)]
        BY <2>2, <3>6
      <4>3. h.rank[t] = h.rank[u] /\ t # NoTag /\ u # NoTag
        BY <3>1, <3>3
      <4>4. (t \notin TagsAt(h, ref)) = (u \notin TagsAt(h, ref))
        BY <3>2
      <4>5. QED
        BY <4>1, <4>2, <4>3, <4>4 DEF SamePlace
    <3>7. QED
      BY <3>4, <3>5, <3>6
  <2>6. QED
    BY <2>4, <2>5
<1>3. QED
  BY <1>1, <1>2

\* compareRevisions only looks at the place.
LEMMA PlaceDecides ==
  ASSUME NEW h, IsHistory(h),
         NEW x \in Revisions(h), NEW x2 \in Revisions(h), SamePlace(h, x, x2),
         NEW y \in Revisions(h), NEW y2 \in Revisions(h), SamePlace(h, y, y2)
  PROVE  CompareRevisions(h, x, y) = CompareRevisions(h, x2, y2)
BY DEF IsHistory, Revisions, SamePlace, CompareRevisions, CompareTags

\* compareRevisions turns around when its arguments do.
LEMMA RevisionsCompare ==
  ASSUME NEW h, IsHistory(h),
         NEW x \in Revisions(h), NEW y \in Revisions(h)
  PROVE  /\ CompareRevisions(h, x, y) \in Int
         /\ CompareRevisions(h, x, y) = -CompareRevisions(h, y, x)
         /\ CompareRevisions(h, x, x) = 0
BY DEF IsHistory, Revisions, CompareRevisions, CompareTags

\* compareRevisions is transitive.
LEMMA RevisionsTransitive ==
  ASSUME NEW h, IsHistory(h),
         NEW x \in Revisions(h), NEW y \in Revisions(h), NEW z \in Revisions(h),
         CompareRevisions(h, x, y) <= 0, CompareRevisions(h, y, z) <= 0
  PROVE  CompareRevisions(h, x, z) <= 0
BY DEF IsHistory, Revisions, CompareRevisions, CompareTags

\* All three ways to an answer agree with the comparison of places.
LEMMA AnswersCompareTheirPlaces ==
  ASSUME NEW h, IsHistory(h), NEW a \in Refs(h), NEW b \in Refs(h),
         NEW r \in CompareRefs(h, a, b),
         NEW x \in Comparable(h, a), NEW y \in Comparable(h, b)
  PROVE  r = CompareRevisions(h, x, y)
<1>1. x \in Revisions(h) /\ y \in Revisions(h)
  BY ComparableIsOnePlace
<1>2. CASE a = b
  <2>1. r = 0 /\ SamePlace(h, x, y)
    BY <1>2, ComparableIsOnePlace DEF CompareRefs
  <2>2. CompareRevisions(h, x, x) = CompareRevisions(h, x, y)
    BY <1>1, <2>1, PlaceDecides DEF SamePlace
  <2>3. QED
    BY <1>1, <2>1, <2>2, RevisionsCompare
<1>3. CASE a # b /\ {a, b} \subseteq DOMAIN h.tags
  <2>1. /\ x = [commit |-> h.tags[a], base |-> a, after |-> FALSE]
        /\ y = [commit |-> h.tags[b], base |-> b, after |-> FALSE]
    BY <1>3 DEF Comparable
  <2>2. CompareRevisions(h, x, y) = IF h.rank[a] # h.rank[b] THEN CompareTags(h, a, b) ELSE 0
    BY <1>3, <2>1 DEF CompareRevisions, IsHistory
  <2>3. r = CompareTags(h, a, b)
    BY <1>3 DEF CompareRefs, IsHistory
  <2>4. QED
    BY <1>3, <2>2, <2>3 DEF CompareTags, IsHistory
<1>4. CASE a # b /\ ~({a, b} \subseteq DOMAIN h.tags)
  <2>1. CompareRefs(h, a, b) =
          {CompareRevisions(h, u, v) : u \in Comparable(h, a), v \in Comparable(h, b)}
    BY <1>4 DEF CompareRefs, Refs
  <2>2. PICK u \in Comparable(h, a), v \in Comparable(h, b) : r = CompareRevisions(h, u, v)
    BY <2>1
  <2>3. /\ u \in Revisions(h) /\ v \in Revisions(h)
        /\ SamePlace(h, u, x) /\ SamePlace(h, v, y)
    BY ComparableIsOnePlace
  <2>4. QED
    BY <1>1, <2>2, <2>3, PlaceDecides
<1>5. QED
  BY <1>2, <1>3, <1>4

\* CompareFunc always has an answer, and one only, although it walks maps of
\* tags in any order.
THEOREM RefsHaveOneAnswer ==
  ASSUME NEW h, IsHistory(h), NEW a \in Refs(h), NEW b \in Refs(h)
  PROVE  \E r \in Int : CompareRefs(h, a, b) = {r}
<1>1. PICK x \in Comparable(h, a) : TRUE
  BY ComparableIsOnePlace
<1>2. PICK y \in Comparable(h, b) : TRUE
  BY ComparableIsOnePlace
<1>3. CompareRevisions(h, x, y) \in Int
  BY ComparableIsOnePlace, RevisionsCompare
<1>4. CompareRefs(h, a, b) # {}
  <2>1. CASE a = b \/ {a, b} \subseteq DOMAIN h.tags
    BY <2>1 DEF CompareRefs
  <2>2. CASE a # b /\ ~({a, b} \subseteq DOMAIN h.tags)
    <3>1. CompareRefs(h, a, b) =
            {CompareRevisions(h, u, v) : u \in Comparable(h, a), v \in Comparable(h, b)}
      BY <2>2 DEF CompareRefs, Refs
    <3>2. CompareRevisions(h, x, y) \in CompareRefs(h, a, b)
      BY <3>1
    <3>3. QED
      BY <3>2
  <2>3. QED
    BY <2>1, <2>2
<1>5. \A r \in CompareRefs(h, a, b) : r = CompareRevisions(h, x, y)
  BY AnswersCompareTheirPlaces
<1>6. CompareRefs(h, a, b) = {CompareRevisions(h, x, y)}
  BY <1>4, <1>5
<1>7. QED
  BY <1>3, <1>6

\* CompareFunc orders the tags of a repository and the commits that resolve as a
\* total preorder: the module with the highest of several versions does not depend
\* on the order they are met in.
LEMMA AnswersArePreordered ==
  ASSUME NEW h, IsHistory(h), NEW a \in Refs(h), NEW b \in Refs(h), NEW c \in Refs(h),
         NEW ab \in CompareRefs(h, a, b), NEW ba \in CompareRefs(h, b, a),
         NEW bc \in CompareRefs(h, b, c), NEW ac \in CompareRefs(h, a, c)
  PROVE  /\ ab = -ba
         /\ ab <= 0 /\ bc <= 0 => ac <= 0
<1>1. PICK x \in Comparable(h, a) : TRUE
  BY ComparableIsOnePlace
<1>2. PICK y \in Comparable(h, b) : TRUE
  BY ComparableIsOnePlace
<1>3. PICK z \in Comparable(h, c) : TRUE
  BY ComparableIsOnePlace
<1>4. x \in Revisions(h) /\ y \in Revisions(h) /\ z \in Revisions(h)
  BY ComparableIsOnePlace
<1>5. /\ ab = CompareRevisions(h, x, y) /\ ba = CompareRevisions(h, y, x)
      /\ bc = CompareRevisions(h, y, z) /\ ac = CompareRevisions(h, x, z)
  BY AnswersCompareTheirPlaces
<1>6. QED
  BY <1>4, <1>5, RevisionsCompare, RevisionsTransitive

\* A commit without a tag of its own comes after every tag it descends from.
THEOREM CommitsFollowTheirTags ==
  ASSUME NEW h, IsHistory(h), NEW t \in DOMAIN h.tags,
         NEW c \in h.known \ DOMAIN h.tags, TagsAt(h, c) = {}, h.tags[t] \in h.above[c],
         NEW r \in CompareRefs(h, t, c)
  PROVE  r < 0
<1>1. PICK x \in Comparable(h, t) : TRUE
  BY ComparableIsOnePlace DEF Refs
<1>2. PICK y \in Comparable(h, c) : TRUE
  BY ComparableIsOnePlace DEF Refs
<1>3. x = [commit |-> h.tags[t], base |-> t, after |-> FALSE]
  BY DEF Comparable
<1>4. ReachableTags(h, c) # {} /\ t \in ReachableTags(h, c)
  BY DEF ReachableTags
<1>5. PICK u \in Highest(h, ReachableTags(h, c)) :
        y = [commit |-> c, base |-> u, after |-> u \notin TagsAt(h, c)]
  BY DEF Comparable
<1>6. u \in DOMAIN h.tags /\ h.rank[t] <= h.rank[u] /\ y.after /\ y.base = u
  BY <1>4, <1>5 DEF Highest, ReachableTags
<1>7. u # NoTag /\ t # NoTag /\ h.rank[t] \in Int /\ h.rank[u] \in Int
  BY <1>6 DEF IsHistory
<1>8. CompareRevisions(h, x, y) < 0
  BY <1>3, <1>6, <1>7 DEF CompareRevisions, CompareTags
<1>9. QED
  BY <1>8, AnswersCompareTheirPlaces DEF Refs

\* A tag and the commit that only this tag is at are equal versions: a module
\* pinned to either is the same choice.
THEOREM TagEqualsItsCommit ==
  ASSUME NEW h, IsHistory(h), NEW t \in DOMAIN h.tags, h.tags[t] \notin DOMAIN h.tags,
         TagsAt(h, h.tags[t]) = {t}
  PROVE  CompareRefs(h, t, h.tags[t]) = {0}
<1> DEFINE c == h.tags[t]
<1>1. c \in h.known
  BY DEF IsHistory
<1>2. PICK r \in Int : CompareRefs(h, t, c) = {r}
  BY <1>1, RefsHaveOneAnswer DEF Refs
<1>3. PICK x \in Comparable(h, t) : TRUE
  BY ComparableIsOnePlace DEF Refs
<1>4. PICK y \in Comparable(h, c) : TRUE
  BY <1>1, ComparableIsOnePlace DEF Refs
<1>5. x = [commit |-> c, base |-> t, after |-> FALSE]
  BY DEF Comparable
<1>6. ReachableTags(h, c) = {t}
  BY DEF ReachableTags
<1>7. Highest(h, ReachableTags(h, c)) \subseteq {t}
  BY <1>6 DEF Highest
<1>8. y = [commit |-> c, base |-> t, after |-> FALSE]
  BY <1>7 DEF Comparable
<1>9. r = CompareRevisions(h, x, y)
  BY <1>1, <1>2, AnswersCompareTheirPlaces DEF Refs
<1>10. CompareRevisions(h, x, y) = 0
  BY <1>1, <1>5, <1>8, ComparableIsOnePlace, RevisionsCompare DEF Refs
<1>11. QED
  BY <1>2, <1>9, <1>10

\* So it is for every remote.
THEOREM RemoteIsPreordered == RefsArePreordered
<1> DEFINE h == View(repository)
           refs == DOMAIN h.tags \cup h.known
           answer(a, b) == CHOOSE r \in CompareRefs(h, a, b) : TRUE
<1>1. SUFFICES ASSUME IsRemote(repository)
               PROVE  /\ \A a, b \in refs : CompareRefs(h, a, b) = {answer(a, b)}
                      /\ \A a, b \in refs : answer(a, b) = -answer(b, a)
                      /\ \A a, b, c \in refs :
                           answer(a, b) <= 0 /\ answer(b, c) <= 0 => answer(a, c) <= 0
                      /\ \A t \in DOMAIN h.tags, c \in h.known \ DOMAIN h.tags :
                           h.tags[t] \in h.above[c] /\ TagsAt(h, c) = {} => answer(t, c) < 0
  BY DEF RefsArePreordered
<1>2. IsHistory(h) /\ refs = Refs(h)
  BY <1>1, ViewIsHistory DEF Refs
<1> HIDE DEF h, refs
<1>3. \A a, b \in refs : answer(a, b) \in CompareRefs(h, a, b) /\ CompareRefs(h, a, b) = {answer(a, b)}
  <2>1. ASSUME NEW a \in refs, NEW b \in refs
        PROVE  answer(a, b) \in CompareRefs(h, a, b) /\ CompareRefs(h, a, b) = {answer(a, b)}
    <3>1. PICK r \in Int : CompareRefs(h, a, b) = {r}
      BY <1>2, RefsHaveOneAnswer
    <3>2. QED
      BY <3>1
  <2>2. QED
    BY <2>1
<1> HIDE DEF answer
<1>4. \A a, b \in refs : answer(a, b) = -answer(b, a)
  BY <1>2, <1>3, AnswersArePreordered
<1>5. \A a, b, c \in refs : answer(a, b) <= 0 /\ answer(b, c) <= 0 => answer(a, c) <= 0
  BY <1>2, <1>3, AnswersArePreordered
<1>6. ASSUME NEW t \in DOMAIN h.tags, NEW c \in h.known \ DOMAIN h.tags,
             h.tags[t] \in h.above[c], TagsAt(h, c) = {}
      PROVE  answer(t, c) < 0
  <2>1. answer(t, c) \in CompareRefs(h, t, c)
    BY <1>2, <1>3 DEF Refs
  <2>2. QED
    BY <1>2, <1>6, <2>1, CommitsFollowTheirTags
<1>7. QED
  BY <1>3, <1>4, <1>5, <1>6

-----------------------------------------------------------------------------
(* Build matrices: Combinations and CombinationCount. *)

\* Texts, and the separators in them.
Key == Seq(Word \cup {"-", "|"})
Separator == {"-", "|"}

\* t is x and y with a separator in between.
JoinOf(t, x, c, y) ==
  /\ t \in Key /\ Len(x) \in Nat /\ Len(y) \in Nat /\ Len(t) = Len(x) + 1 + Len(y)
  /\ \A i \in 1..Len(x) : t[i] = x[i]
  /\ t[Len(x) + 1] = c
  /\ \A j \in 1..Len(y) : t[Len(x) + 1 + j] = y[j]

\* Appending is joining.
LEMMA JoinIs ==
  ASSUME NEW x \in Key, NEW y \in Key, NEW c \in Separator
  PROVE  JoinOf(x \o <<c>> \o y, x, c, y)
<1> DEFINE S == Word \cup Separator
           u == x \o <<c>>
           t == u \o y
<1>1. x \in Seq(S) /\ y \in Seq(S) /\ <<c>> \in Seq(S) /\ Len(<<c>>) = 1 /\ <<c>>[1] = c
  BY DEF Key, Separator
<1>2. /\ u \in Seq(S) /\ Len(x) \in Nat /\ Len(u) = Len(x) + 1
      /\ \A i \in 1..Len(x) : u[i] = x[i]
      /\ u[Len(x) + 1] = c
  <2> HIDE DEF S
  <2>1. QED
    BY <1>1
<1> HIDE DEF u
<1>3. /\ t \in Seq(S) /\ Len(y) \in Nat /\ Len(u) \in Nat /\ Len(t) = Len(u) + Len(y)
      /\ \A i \in 1..Len(u) : t[i] = u[i]
      /\ \A j \in 1..Len(y) : t[Len(u) + j] = y[j]
  <2> HIDE DEF S
  <2>1. QED
    BY <1>1, <1>2
<1> HIDE DEF t
<1>4. Len(x) + 1 \in 1..Len(u) /\ \A i \in 1..Len(x) : i \in 1..Len(u)
  BY <1>2
<1>5. t \in Key
  BY <1>3 DEF Key, S, Separator
<1>6. QED
  BY <1>2, <1>3, <1>4, <1>5 DEF t, u, JoinOf

\* The last separator of a text tells where it was joined.
LEMMA LastSeparatorTells ==
  ASSUME NEW x \in Key, NEW y \in Key, NEW v \in Key, NEW w \in Key, NEW c \in Separator,
         c \notin ToSet(y), c \notin ToSet(w),
         NEW t, JoinOf(t, x, c, y), JoinOf(t, v, c, w)
  PROVE  x = v /\ y = w
<1> DEFINE a == Len(x)
           b == Len(v)
<1>1. /\ a \in Nat /\ Len(y) \in Nat /\ Len(t) = a + 1 + Len(y)
      /\ \A i \in 1..a : t[i] = x[i]
      /\ t[a + 1] = c
      /\ \A j \in 1..Len(y) : t[a + 1 + j] = y[j]
  BY DEF JoinOf
<1>2. /\ b \in Nat /\ Len(w) \in Nat /\ Len(t) = b + 1 + Len(w)
      /\ \A i \in 1..b : t[i] = v[i]
      /\ t[b + 1] = c
      /\ \A j \in 1..Len(w) : t[b + 1 + j] = w[j]
  BY DEF JoinOf
<1>3. /\ \A j \in 1..Len(y) : y[j] # c
      /\ \A j \in 1..Len(w) : w[j] # c
  BY DEF ToSet, Key
<1> HIDE DEF a, b
<1>4. ~(a < b)
  <2>1. SUFFICES ASSUME a < b PROVE FALSE
    OBVIOUS
  <2>2. b - a \in 1..Len(y) /\ a + 1 + (b - a) = b + 1
    BY <1>1, <1>2, <2>1
  <2>3. t[a + 1 + (b - a)] = y[b - a] /\ y[b - a] # c
    BY <1>1, <1>3, <2>2
  <2>4. QED
    BY <1>2, <2>2, <2>3
<1>5. ~(b < a)
  <2>1. SUFFICES ASSUME b < a PROVE FALSE
    OBVIOUS
  <2>2. a - b \in 1..Len(w) /\ b + 1 + (a - b) = a + 1
    BY <1>1, <1>2, <2>1
  <2>3. t[b + 1 + (a - b)] = w[a - b] /\ w[a - b] # c
    BY <1>2, <1>3, <2>2
  <2>4. QED
    BY <1>1, <2>2, <2>3
<1>6. a = b /\ Len(y) = Len(w)
  BY <1>1, <1>2, <1>4, <1>5
<1>7. /\ \A i \in 1..a : x[i] = v[i]
      /\ \A j \in 1..Len(y) : y[j] = w[j]
  BY <1>1, <1>2, <1>6
<1>8. x = v
  BY <1>6, <1>7 DEF Key, a, b
<1>9. y = w
  BY <1>6, <1>7 DEF Key
<1>10. QED
  BY <1>8, <1>9

\* Numbering pairs row by row.
LEMMA RowsAre ==
  ASSUME NEW n \in Nat, NEW M \in Nat, NEW L \in Nat, n < M * L
  PROVE  /\ L # 0
         /\ n \div L \in Nat /\ n \div L < M
         /\ n % L \in Nat /\ n % L < L
         /\ n = L * (n \div L) + (n % L)
<1>1. L # 0
  <2>1. M * 0 = 0
    OBVIOUS
  <2>2. QED
    BY <2>1
<1>2. L \in Nat \ {0}
  BY <1>1
<1> DEFINE q == n \div L
           r == n % L
<1>3. q \in Int /\ r \in Nat /\ r < L /\ n = L * q + r
  BY <1>2
<1> HIDE DEF q, r
<1>4. q >= 0
  <2>1. SUFFICES ASSUME q <= -1 PROVE FALSE
    BY <1>3
  <2>2. L * q <= L * (-1)
    BY <1>2, <1>3, <2>1
  <2>3. L * (-1) = -L
    BY <1>2
  <2>4. L * q \in Int
    BY <1>2, <1>3
  <2>5. QED
    BY <1>2, <1>3, <2>2, <2>3, <2>4
<1>5. q < M
  <2>1. SUFFICES ASSUME q >= M PROVE FALSE
    BY <1>3
  <2>2. q - M \in Nat
    BY <1>3, <2>1
  <2>3. L * (q - M) >= 0
    BY <1>2, <2>2
  <2>4. L * q \in Int /\ M * L \in Int /\ L * (q - M) = L * q - M * L
    BY <1>2, <1>3
  <2>5. QED
    BY <1>3, <2>3, <2>4
<1>6. q \in Nat
  BY <1>3, <1>4
<1>7. QED
  BY <1>1, <1>3, <1>5, <1>6 DEF q, r

\* k is the number of the i-th text of one list with the j-th of another of L.
Row(k, i, j, L) == k - 1 = L * (i - 1) + (j - 1)

\* What Combinations makes of two lists.
LEMMA JoinedIs ==
  ASSUME NEW xs \in Seq(Key), NEW ys \in Seq(Key), NEW c \in Separator
  PROVE  /\ Joined(xs, ys, c) \in Seq(Key)
         /\ Len(xs) \in Nat /\ Len(ys) \in Nat
         /\ Len(Joined(xs, ys, c)) = Len(xs) * Len(ys)
         /\ \A k \in 1..(Len(xs) * Len(ys)) : \E i \in 1..Len(xs), j \in 1..Len(ys) :
              Row(k, i, j, Len(ys)) /\ Joined(xs, ys, c)[k] = xs[i] \o <<c>> \o ys[j]
<1> DEFINE M == Len(xs)
           L == Len(ys)
           q(k) == 1 + ((k - 1) \div L)
           r(k) == 1 + ((k - 1) % L)
           J == Joined(xs, ys, c)
<1>1. M \in Nat /\ L \in Nat
  OBVIOUS
<1>2. J = [k \in 1..(M * L) |-> xs[q(k)] \o <<c>> \o ys[r(k)]]
  BY DEF Joined
<1> HIDE DEF M, L, J
<1>3. M * L \in Nat
  BY <1>1
<1>4. ASSUME NEW k \in 1..(M * L)
      PROVE  q(k) \in 1..M /\ r(k) \in 1..L /\ Row(k, q(k), r(k), L)
  <2>1. k - 1 \in Nat /\ k - 1 < M * L
    BY <1>3
  <2> DEFINE a == (k - 1) \div L
             b == (k - 1) % L
  <2>2. a \in Nat /\ a < M /\ b \in Nat /\ b < L /\ k - 1 = L * a + b
    BY <1>1, <2>1, RowsAre
  <2> HIDE DEF a, b
  <2>3. 1 + a \in 1..M /\ 1 + b \in 1..L /\ (1 + a) - 1 = a /\ (1 + b) - 1 = b
    BY <1>1, <2>2
  <2>4. k - 1 = L * ((1 + a) - 1) + ((1 + b) - 1)
    BY <2>2, <2>3
  <2>5. QED
    BY <2>3, <2>4 DEF a, b, Row
<1> HIDE DEF q, r
<1>5. DOMAIN J = 1..(M * L) /\ \A k \in 1..(M * L) : J[k] = xs[q(k)] \o <<c>> \o ys[r(k)]
  BY <1>2
<1>6. \A i \in 1..M : xs[i] \in Key
  BY DEF M
<1>7. \A j \in 1..L : ys[j] \in Key
  BY DEF L
<1>8. ASSUME NEW k \in 1..(M * L) PROVE J[k] \in Key
  <2>1. xs[q(k)] \in Key /\ ys[r(k)] \in Key
    BY <1>4, <1>6, <1>7
  <2>2. JoinOf(xs[q(k)] \o <<c>> \o ys[r(k)], xs[q(k)], c, ys[r(k)])
    BY <2>1, JoinIs
  <2>3. QED
    BY <1>5, <2>2 DEF JoinOf
<1>9. J = [k \in 1..(M * L) |-> J[k]]
  BY <1>2, <1>5
<1>10. J \in Seq(Key) /\ Len(J) = M * L
  BY <1>3, <1>8, <1>9
<1>11. ASSUME NEW k \in 1..(M * L)
       PROVE  \E i \in 1..M, j \in 1..L : Row(k, i, j, L) /\ J[k] = xs[i] \o <<c>> \o ys[j]
  BY <1>4, <1>5
<1>12. QED
  BY <1>1, <1>10, <1>11 DEF M, L, J

\* Different texts stay different when they are joined.
LEMMA JoinedDiffer ==
  ASSUME NEW xs \in Seq(Key), NEW ys \in Seq(Key), NEW c \in Separator,
         IsInjective(xs), IsInjective(ys), \A j \in 1..Len(ys) : c \notin ToSet(ys[j])
  PROVE  IsInjective(Joined(xs, ys, c))
<1> DEFINE J == Joined(xs, ys, c)
           n == Len(xs) * Len(ys)
<1>1. /\ J \in Seq(Key) /\ Len(J) = n
      /\ \A k \in 1..n : \E i \in 1..Len(xs), j \in 1..Len(ys) :
           Row(k, i, j, Len(ys)) /\ J[k] = xs[i] \o <<c>> \o ys[j]
  BY JoinedIs
<1> HIDE DEF J, n
<1>2. DOMAIN J = 1..n
  BY <1>1
<1>3. ASSUME NEW k \in 1..n, NEW l \in 1..n, J[k] = J[l] PROVE k = l
  <2>1. PICK i \in 1..Len(xs), j \in 1..Len(ys) :
          Row(k, i, j, Len(ys)) /\ J[k] = xs[i] \o <<c>> \o ys[j]
    BY <1>1
  <2>2. PICK u \in 1..Len(xs), v \in 1..Len(ys) :
          Row(l, u, v, Len(ys)) /\ J[l] = xs[u] \o <<c>> \o ys[v]
    BY <1>1
  <2>3. xs[i] \in Key /\ xs[u] \in Key /\ ys[j] \in Key /\ ys[v] \in Key
    OBVIOUS
  <2>4. xs[i] \o <<c>> \o ys[j] = xs[u] \o <<c>> \o ys[v]
    BY <1>3, <2>1, <2>2
  <2>5. xs[i] = xs[u] /\ ys[j] = ys[v]
    <3>1. c \notin ToSet(ys[j]) /\ c \notin ToSet(ys[v])
      OBVIOUS
    <3>2. JoinOf(J[k], xs[i], c, ys[j]) /\ JoinOf(J[k], xs[u], c, ys[v])
      BY <1>3, <2>1, <2>2, <2>3, JoinIs
    <3>3. QED
      BY <2>3, <3>1, <3>2, LastSeparatorTells
  <2>6. i \in DOMAIN xs /\ u \in DOMAIN xs /\ j \in DOMAIN ys /\ v \in DOMAIN ys
    OBVIOUS
  <2>7. i = u /\ j = v
    BY <2>5, <2>6 DEF IsInjective
  <2>8. k - 1 = l - 1
    BY <2>1, <2>2, <2>7 DEF Row
  <2>9. k \in Int /\ l \in Int
    OBVIOUS
  <2>10. QED
    BY <2>8, <2>9
<1>4. QED
  BY <1>2, <1>3 DEF IsInjective, J

\* Combined and Counted, name by name.
LEMMA CombinedUnfolds ==
  ASSUME NEW kvs
  PROVE  /\ Combined(kvs)[0] = <<>>
         /\ \A k \in 1..Len(Names) :
              Combined(kvs)[k] = WithValues(Combined(kvs)[k - 1], kvs, k)
<1> DEFINE L == Len(Names)
           Is(N, g) == g = [k \in 0..N |-> IF k = 0 THEN <<>> ELSE WithValues(g[k - 1], kvs, k)]
           T == {N \in Nat : \E g : Is(N, g)}
           r == Combined(kvs)
<1>1. r = CHOOSE g : Is(L, g)
  BY DEF Combined
<1> HIDE DEF r
<1>2. 0 \in T
  <2>1. Is(0, [k \in 0..0 |-> <<>>])
    OBVIOUS
  <2>2. QED
    BY <2>1
<1>3. ASSUME NEW N \in Nat, N \in T PROVE N + 1 \in T
  <2>1. PICK g : Is(N, g)
    BY <1>3
  <2> DEFINE h == [k \in 0..(N + 1) |-> IF k = N + 1 THEN WithValues(g[N], kvs, (N + 1)) ELSE g[k]]
  <2>2. \A k \in 0..N : h[k] = g[k]
    OBVIOUS
  <2>3. h[0] = <<>>
    BY <2>1, <2>2
  <2>4. \A k \in 1..N : h[k] = WithValues(h[k - 1], kvs, k)
    BY <2>1, <2>2
  <2>5. h[N + 1] = WithValues(h[(N + 1) - 1], kvs, (N + 1))
    BY <2>2
  <2>6. \A k \in 0..(N + 1) : h[k] = IF k = 0 THEN <<>> ELSE WithValues(h[k - 1], kvs, k)
    <3> HIDE DEF h
    <3> QED
      BY <2>3, <2>4, <2>5
  <2>7. h = [k \in 0..(N + 1) |-> h[k]]
    OBVIOUS
  <2> HIDE DEF h
  <2>8. Is(N + 1, h)
    BY <2>6, <2>7
  <2> HIDE DEF Is
  <2>9. QED
    BY <2>8
<1>4. L \in T
  <2>1. L \in Nat
    BY NamesAssumption
  <2> HIDE DEF T, L
  <2> QED
    BY <1>2, <1>3, <2>1, SetInduction
<1>5. Is(L, r)
  <2>1. \E g : Is(L, g)
    BY <1>4
  <2> HIDE DEF Is
  <2>2. QED
    BY <1>1, <2>1
<1> HIDE DEF L
<1>6. L \in Nat
  BY NamesAssumption DEF L
<1>7. r[0] = <<>> /\ \A k \in 1..L : r[k] = WithValues(r[k - 1], kvs, k)
  BY <1>5, <1>6
<1>8. QED
  BY <1>7 DEF r, L

\* The product is taken over one name after the other.
LEMMA CountedUnfolds ==
  ASSUME NEW kvs
  PROVE  /\ Counted(kvs)[0] = 1
         /\ \A k \in 1..Len(Names) :
              Counted(kvs)[k] = Counted(kvs)[k - 1] * (IF Names[k] \in DOMAIN kvs THEN Len(kvs[Names[k]]) ELSE 1)
<1> DEFINE Values(n) == IF n \in DOMAIN kvs THEN Len(kvs[n]) ELSE 1
           L == Len(Names)
           Is(N, g) == g = [k \in 0..N |-> IF k = 0 THEN 1 ELSE g[k - 1] * Values(Names[k])]
           T == {N \in Nat : \E g : Is(N, g)}
           r == Counted(kvs)
<1>1. r = CHOOSE g : Is(L, g)
  BY DEF Counted
<1> HIDE DEF r, Values
<1>2. 0 \in T
  <2>1. Is(0, [k \in 0..0 |-> 1])
    OBVIOUS
  <2>2. QED
    BY <2>1
<1>3. ASSUME NEW N \in Nat, N \in T PROVE N + 1 \in T
  <2>1. PICK g : Is(N, g)
    BY <1>3
  <2> DEFINE h == [k \in 0..(N + 1) |-> IF k = N + 1 THEN g[N] * Values(Names[(N + 1)]) ELSE g[k]]
  <2>2. \A k \in 0..N : h[k] = g[k]
    OBVIOUS
  <2>3. h[0] = 1
    BY <2>1, <2>2
  <2>4. \A k \in 1..N : h[k] = h[k - 1] * Values(Names[k])
    BY <2>1, <2>2
  <2>5. h[N + 1] = h[(N + 1) - 1] * Values(Names[(N + 1)])
    BY <2>2
  <2>6. \A k \in 0..(N + 1) : h[k] = IF k = 0 THEN 1 ELSE h[k - 1] * Values(Names[k])
    <3> HIDE DEF h
    <3> QED
      BY <2>3, <2>4, <2>5
  <2>7. h = [k \in 0..(N + 1) |-> h[k]]
    OBVIOUS
  <2> HIDE DEF h
  <2>8. Is(N + 1, h)
    BY <2>6, <2>7
  <2> HIDE DEF Is
  <2>9. QED
    BY <2>8
<1>4. L \in T
  <2>1. L \in Nat
    BY NamesAssumption
  <2> HIDE DEF T, L
  <2> QED
    BY <1>2, <1>3, <2>1, SetInduction
<1>5. Is(L, r)
  <2>1. \E g : Is(L, g)
    BY <1>4
  <2> HIDE DEF Is
  <2>2. QED
    BY <1>1, <2>1
<1> HIDE DEF L
<1>6. L \in Nat
  BY NamesAssumption DEF L
<1>7. r[0] = 1 /\ \A k \in 1..L : r[k] = r[k - 1] * Values(Names[k])
  BY <1>5, <1>6
<1>8. QED
  BY <1>7 DEF r, L, Values


\* What maps dimensions to lists of values.
IsValues(kvs) ==
  /\ kvs = [n \in DOMAIN kvs |-> kvs[n]] /\ DOMAIN kvs \subseteq ToSet(Names)
  /\ \A n \in DOMAIN kvs : kvs[n] \in Seq(Key)

\* None of the first k names is a dimension.
NoneBefore(kvs, k) == \A l \in 1..k : Names[l] \notin DOMAIN kvs

\* The separator of required dimensions and options.
HasBar(t) == "|" \in ToSet(t)

\* A text has a bar if one of its two parts has one, or the separator is one.
LEMMA BarsAreKept ==
  ASSUME NEW t, NEW x \in Key, NEW y \in Key, JoinOf(t, x, "-", y), ~HasBar(x), ~HasBar(y)
  PROVE  ~HasBar(t)
<1>1. SUFFICES ASSUME HasBar(t) PROVE FALSE
  OBVIOUS
<1>2. DOMAIN t = 1..Len(t) /\ DOMAIN x = 1..Len(x) /\ DOMAIN y = 1..Len(y)
  BY DEF JoinOf, Key
<1>3. PICK i \in 1..Len(t) : t[i] = "|"
  BY <1>1, <1>2 DEF HasBar, ToSet
<1>4. \A j \in 1..Len(x) : x[j] # "|"
  BY <1>2 DEF HasBar, ToSet
<1>5. \A j \in 1..Len(y) : y[j] # "|"
  BY <1>2 DEF HasBar, ToSet
<1>6. /\ Len(x) \in Nat /\ Len(y) \in Nat /\ Len(t) = Len(x) + 1 + Len(y)
      /\ \A j \in 1..Len(x) : t[j] = x[j]
      /\ t[Len(x) + 1] = "-"
      /\ \A j \in 1..Len(y) : t[Len(x) + 1 + j] = y[j]
  BY DEF JoinOf
<1>7. CASE i <= Len(x)
  BY <1>3, <1>4, <1>6, <1>7
<1>8. CASE i = Len(x) + 1
  BY <1>3, <1>6, <1>8
<1>9. CASE i > Len(x) + 1
  <2>1. i - (Len(x) + 1) \in 1..Len(y) /\ Len(x) + 1 + (i - (Len(x) + 1)) = i
    BY <1>3, <1>6, <1>9
  <2>2. t[i] = y[i - (Len(x) + 1)]
    BY <1>6, <2>1
  <2>3. QED
    BY <1>3, <1>5, <2>1, <2>2
<1>10. QED
  BY <1>3, <1>6, <1>7, <1>8, <1>9

\* One more name.
LEMMA WithValuesIs ==
  ASSUME NEW kvs, IsValues(kvs), NEW k \in 1..Len(Names), NEW texts \in Seq(Key),
         NoneBefore(kvs, k - 1) => texts = <<>>
  PROVE  LET w == WithValues(texts, kvs, k)
             n == Names[k]
         IN /\ w \in Seq(Key)
            /\ n \notin DOMAIN kvs => w = texts
            /\ n \in DOMAIN kvs /\ NoneBefore(kvs, k - 1) => w = kvs[n]
            /\ n \in DOMAIN kvs /\ ~NoneBefore(kvs, k - 1) => w = Joined(texts, kvs[n], "-")
<1>1. Names[k] \in DOMAIN kvs => kvs[Names[k]] \in Seq(Key)
  BY DEF IsValues
<1>2. Names[k] \in DOMAIN kvs => Joined(texts, kvs[Names[k]], "-") \in Seq(Key)
  BY <1>1, JoinedIs DEF Separator
<1>3. QED
  BY <1>1, <1>2 DEF WithValues, NoneBefore

\* What the texts of the first k names are.
TextsAt(kvs, k) ==
  LET texts == Combined(kvs)[k] IN
  /\ texts \in Seq(Key)
  /\ NoneBefore(kvs, k) => texts = <<>> /\ Counted(kvs)[k] = 1
  /\ ~NoneBefore(kvs, k) => Len(texts) = Counted(kvs)[k]
  /\ PlainPart(kvs) => \A i \in 1..Len(texts) : ~HasBar(texts[i])
  /\ PlainPart(kvs) /\ (\A n \in DOMAIN kvs : IsInjective(kvs[n])) => IsInjective(texts)

\* One more name keeps it so: Joined makes of each text as many as the name
\* has values (the loops of Combinations).
LEMMA TextsAtNext ==
  ASSUME NEW kvs, IsValues(kvs), NEW k \in 1..Len(Names), TextsAt(kvs, k - 1)
  PROVE  TextsAt(kvs, k)
<1> DEFINE n == Names[k]
           old == Combined(kvs)[k - 1]
           new == Combined(kvs)[k]
           was == Counted(kvs)[k - 1]
           is == Counted(kvs)[k]
<1>1. /\ old \in Seq(Key)
      /\ NoneBefore(kvs, k - 1) => old = <<>> /\ was = 1
      /\ ~NoneBefore(kvs, k - 1) => Len(old) = was
      /\ PlainPart(kvs) => \A i \in 1..Len(old) : ~HasBar(old[i])
      /\ PlainPart(kvs) /\ (\A m \in DOMAIN kvs : IsInjective(kvs[m])) => IsInjective(old)
  BY DEF TextsAt
<1>2. new = WithValues(old, kvs, k) /\ is = was * (IF n \in DOMAIN kvs THEN Len(kvs[n]) ELSE 1)
  BY CombinedUnfolds, CountedUnfolds
<1> HIDE DEF old, new, was, is
<1>3. /\ new \in Seq(Key)
      /\ n \notin DOMAIN kvs => new = old
      /\ n \in DOMAIN kvs /\ NoneBefore(kvs, k - 1) => new = kvs[n]
      /\ n \in DOMAIN kvs /\ ~NoneBefore(kvs, k - 1) => new = Joined(old, kvs[n], "-")
  BY <1>1, <1>2, WithValuesIs
<1>4. NoneBefore(kvs, k) <=> NoneBefore(kvs, k - 1) /\ n \notin DOMAIN kvs
  <2>1. Len(Names) \in Nat /\ k \in 1..k /\ \A l \in 1..(k - 1) : l \in 1..k
    BY NamesAssumption
  <2>2. \A l \in 1..k : l = k \/ l \in 1..(k - 1)
    BY <2>1
  <2>3. QED
    BY <2>1, <2>2 DEF NoneBefore
<1>5. was \in Nat
  BY <1>1
<1>6. CASE n \notin DOMAIN kvs
  <2>1. is = was * 1 /\ was * 1 = was /\ new = old
    BY <1>2, <1>3, <1>5, <1>6
  <2>2. QED
    BY <1>1, <1>4, <1>6, <2>1 DEF TextsAt, new, is
<1>7. CASE n \in DOMAIN kvs
  <2> DEFINE vs == kvs[n]
  <2>1. vs \in Seq(Key) /\ Len(vs) \in Nat /\ is = was * Len(vs)
    BY <1>2, <1>7 DEF IsValues
  <2>2. DOMAIN vs = 1..Len(vs)
    BY <2>1
  <2>3. PlainPart(kvs) => \A i \in 1..Len(vs) : "-" \notin ToSet(vs[i]) /\ ~HasBar(vs[i])
    BY <1>7, <2>2 DEF PlainPart, HasBar
  <2>4. (\A m \in DOMAIN kvs : IsInjective(kvs[m])) => IsInjective(vs)
    BY <1>7
  <2> HIDE DEF vs
  <2>5. CASE NoneBefore(kvs, k - 1)
    <3>1. new = vs /\ is = Len(vs)
      BY <1>1, <1>3, <1>7, <2>1, <2>5 DEF vs
    <3>2. QED
      BY <1>4, <1>7, <2>1, <2>3, <2>4, <3>1 DEF TextsAt, new, is
  <2>6. CASE ~NoneBefore(kvs, k - 1)
    <3>1. new = Joined(old, vs, "-") /\ Len(old) = was
      BY <1>1, <1>3, <1>7, <2>6 DEF vs
    <3>2. "-" \in Separator
      BY DEF Separator
    <3>3. /\ Len(new) = is
          /\ \A l \in 1..Len(new) : \E i \in 1..Len(old), j \in 1..Len(vs) : new[l] = old[i] \o <<"-">> \o vs[j]
      <4>1. Len(new) = Len(old) * Len(vs)
        BY <1>1, <2>1, <3>1, <3>2, JoinedIs
      <4>2. \A l \in 1..(Len(old) * Len(vs)) :
              \E i \in 1..Len(old), j \in 1..Len(vs) : new[l] = old[i] \o <<"-">> \o vs[j]
        BY <1>1, <2>1, <3>1, <3>2, JoinedIs
      <4>3. QED
        BY <2>1, <3>1, <4>1, <4>2
    <3>4. ASSUME PlainPart(kvs), NEW l \in 1..Len(new) PROVE ~HasBar(new[l])
      <4>1. PICK i \in 1..Len(old), j \in 1..Len(vs) : new[l] = old[i] \o <<"-">> \o vs[j]
        BY <3>3
      <4>2. old[i] \in Key /\ vs[j] \in Key
        BY <1>1, <2>1
      <4>3. JoinOf(new[l], old[i], "-", vs[j])
        BY <3>2, <4>1, <4>2, JoinIs
      <4>4. ~HasBar(old[i]) /\ ~HasBar(vs[j])
        BY <1>1, <2>3, <3>4
      <4>5. QED
        BY <4>2, <4>3, <4>4, BarsAreKept
    <3>5. PlainPart(kvs) /\ (\A m \in DOMAIN kvs : IsInjective(kvs[m])) => IsInjective(new)
      BY <1>1, <2>1, <2>3, <2>4, <3>1, <3>2, JoinedDiffer
    <3>6. QED
      BY <1>3, <1>4, <1>7, <3>3, <3>4, <3>5 DEF TextsAt, new, is
  <2>7. QED
    BY <2>5, <2>6
<1>8. QED
  BY <1>6, <1>7

\* So it is after any number of names.
LEMMA TextsAreAt ==
  ASSUME NEW kvs, IsValues(kvs)
  PROVE  \A k \in 0..Len(Names) : TextsAt(kvs, k)
<1> DEFINE T == {k \in Nat : k <= Len(Names) => TextsAt(kvs, k)}
<1>1. Len(Names) \in Nat
  BY NamesAssumption
<1>2. 0 \in T
  <2>1. Combined(kvs)[0] = <<>> /\ Counted(kvs)[0] = 1
    BY CombinedUnfolds, CountedUnfolds
  <2>2. /\ <<>> \in Seq(Key) /\ NoneBefore(kvs, 0) /\ IsInjective(<<>>)
        /\ \A i \in 1..Len(<<>>) : FALSE
    BY DEF NoneBefore, IsInjective
  <2>3. QED
    BY <2>1, <2>2 DEF TextsAt
<1>3. ASSUME NEW k \in Nat, k \in T PROVE k + 1 \in T
  <2>1. CASE k + 1 <= Len(Names)
    <3>1. k + 1 \in 1..Len(Names) /\ (k + 1) - 1 = k /\ k <= Len(Names)
      BY <1>1, <2>1
    <3>2. QED
      BY <1>3, <3>1, TextsAtNext
  <2>2. QED
    BY <1>3, <2>1
<1>4. Nat \subseteq T
  <2> HIDE DEF T
  <2>1. QED
    BY <1>2, <1>3, SetInduction
<1>5. QED
  BY <1>1, <1>4

\* One part of a matrix has as many texts as CombinationCount multiplies for
\* it, without bars and all different if the values are.
LEMMA CartesianIs ==
  ASSUME NEW kvs, IsValues(kvs)
  PROVE  /\ Cartesian(kvs) \in Seq(Key) /\ Len(Cartesian(kvs)) \in Nat
         /\ Len(Cartesian(kvs)) = CountPart(kvs)
         /\ DOMAIN kvs = {} => Cartesian(kvs) = <<>>
         /\ PlainPart(kvs) => \A i \in 1..Len(Cartesian(kvs)) : ~HasBar(Cartesian(kvs)[i])
         /\ PlainPart(kvs) /\ (\A n \in DOMAIN kvs : IsInjective(kvs[n]))
              => IsInjective(Cartesian(kvs))
<1> DEFINE N == Len(Names)
           texts == Combined(kvs)[N]
<1>1. N \in Nat /\ Names \in Seq(STRING) /\ N \in 0..N /\ DOMAIN Names = 1..N
  BY NamesAssumption
<1> HIDE DEF N
<1>2. TextsAt(kvs, N)
  BY <1>1, TextsAreAt DEF N
<1>3. NoneBefore(kvs, N) <=> DOMAIN kvs = {}
  <2>1. ASSUME NoneBefore(kvs, N), NEW n \in DOMAIN kvs PROVE FALSE
    <3>1. PICK l \in 1..N : Names[l] = n
      BY <1>1, <2>1 DEF IsValues, ToSet
    <3>2. QED
      BY <2>1, <3>1 DEF NoneBefore
  <2>2. QED
    BY <2>1 DEF NoneBefore
<1>4. Cartesian(kvs) = texts
  BY DEF Cartesian, N
<1>5. CountPart(kvs) = IF DOMAIN kvs = {} THEN 0 ELSE Counted(kvs)[N]
  BY DEF CountPart, N
<1>6. /\ texts \in Seq(Key)
      /\ DOMAIN kvs = {} => texts = <<>>
      /\ DOMAIN kvs # {} => Len(texts) = Counted(kvs)[N]
      /\ PlainPart(kvs) => \A i \in 1..Len(texts) : ~HasBar(texts[i])
      /\ PlainPart(kvs) /\ (\A n \in DOMAIN kvs : IsInjective(kvs[n])) => IsInjective(texts)
  BY <1>2, <1>3 DEF TextsAt
<1> HIDE DEF texts
<1>7. Len(texts) = CountPart(kvs) /\ Len(texts) \in Nat
  <2>1. Len(texts) \in Nat
    BY <1>6
  <2>2. CASE DOMAIN kvs = {}
    <3>1. texts = <<>> /\ CountPart(kvs) = 0 /\ Len(<<>>) = 0
      BY <1>5, <1>6, <2>2
    <3>2. QED
      BY <2>1, <3>1
  <2>3. CASE DOMAIN kvs # {}
    BY <1>5, <1>6, <2>1, <2>3
  <2>4. QED
    BY <2>2, <2>3
<1>8. QED
  BY <1>4, <1>6, <1>7

\* CombinationCount has the number of combinations without making them.
THEOREM CombinationsAreCounted ==
  ASSUME NEW m, IsValues(m.require), IsValues(m.options)
  PROVE  Combinations(m) \in Seq(Key) /\ Len(Combinations(m)) = CombinationCount(m)
<1> DEFINE require == Cartesian(m.require)
           options == Cartesian(m.options)
<1>1. /\ require \in Seq(Key) /\ Len(require) = CountPart(m.require)
      /\ options \in Seq(Key) /\ Len(options) = CountPart(m.options)
  BY CartesianIs
<1>2. /\ Combinations(m) = IF require = <<>> THEN options
                           ELSE IF options = <<>> THEN require
                           ELSE Joined(require, options, "|")
      /\ CombinationCount(m) = IF Len(require) = 0 THEN Len(options)
                               ELSE IF Len(options) = 0 THEN Len(require)
                               ELSE Len(require) * Len(options)
  BY <1>1 DEF Combinations, CombinationCount
<1> HIDE DEF require, options
<1>3. /\ Joined(require, options, "|") \in Seq(Key)
      /\ Len(Joined(require, options, "|")) = Len(require) * Len(options)
  BY <1>1, JoinedIs DEF Separator
<1>4. (require = <<>> <=> Len(require) = 0) /\ (options = <<>> <=> Len(options) = 0)
  BY <1>1
<1>5. QED
  BY <1>1, <1>2, <1>3, <1>4

\* No two combinations of a matrix have one text (Combinations), where no value
\* has a separator in it and no list has a value twice.
THEOREM CombinationsDiffer ==
  ASSUME NEW m, IsValues(m.require), IsValues(m.options), Plain(m),
         \A n \in DOMAIN m.require : IsInjective(m.require[n]),
         \A n \in DOMAIN m.options : IsInjective(m.options[n])
  PROVE  IsInjective(Combinations(m))
<1> DEFINE require == Cartesian(m.require)
           options == Cartesian(m.options)
<1>1. PlainPart(m.require) /\ PlainPart(m.options)
  BY DEF Plain
<1>2. /\ require \in Seq(Key) /\ IsInjective(require)
      /\ options \in Seq(Key) /\ IsInjective(options)
      /\ \A i \in 1..Len(options) : "|" \notin ToSet(options[i])
  BY <1>1, CartesianIs DEF HasBar
<1>3. Combinations(m) \in {require, options, Joined(require, options, "|")}
  BY DEF Combinations
<1> HIDE DEF require, options
<1>4. IsInjective(Joined(require, options, "|"))
  BY <1>2, JoinedDiffer DEF Separator
<1>5. QED
  BY <1>2, <1>3, <1>4

-----------------------------------------------------------------------------
(* Matrices with one value for each dimension. *)

\* One value for each dimension, as the commands have it.
IsSingle(kvs) == IsValues(kvs) /\ \A n \in DOMAIN kvs : Len(kvs[n]) = 1

\* Single values have one combination.
LEMMA SingleIsOne ==
  ASSUME NEW kvs, IsSingle(kvs)
  PROVE  /\ \A k \in 0..Len(Names) : Counted(kvs)[k] = 1
         /\ DOMAIN kvs # {} => CountPart(kvs) = 1
<1> DEFINE T == {k \in Nat : k <= Len(Names) => Counted(kvs)[k] = 1}
<1>1. Len(Names) \in Nat
  BY NamesAssumption
<1>2. 0 \in T
  BY CountedUnfolds
<1>3. ASSUME NEW k \in Nat, k \in T PROVE k + 1 \in T
  <2>1. CASE k + 1 <= Len(Names)
    <3>1. k + 1 \in 1..Len(Names) /\ (k + 1) - 1 = k /\ k <= Len(Names)
      BY <1>1, <2>1
    <3>2. Counted(kvs)[k + 1] =
            Counted(kvs)[k] * (IF Names[k + 1] \in DOMAIN kvs THEN Len(kvs[Names[k + 1]]) ELSE 1)
      BY <3>1, CountedUnfolds
    <3>3. Counted(kvs)[k] = 1 /\ (Names[k + 1] \in DOMAIN kvs => Len(kvs[Names[k + 1]]) = 1)
      BY <1>3, <3>1 DEF IsSingle
    <3>4. Counted(kvs)[k + 1] = 1 * 1
      BY <3>2, <3>3
    <3>5. QED
      BY <3>4
  <2>2. QED
    BY <1>3, <2>1
<1>4. Nat \subseteq T
  <2> HIDE DEF T
  <2>1. QED
    BY <1>2, <1>3, SetInduction
<1>5. \A k \in 0..Len(Names) : Counted(kvs)[k] = 1
  BY <1>1, <1>4
<1>6. QED
  BY <1>1, <1>5 DEF CountPart

\* Lists of one text.
LEMMA SameSingle ==
  ASSUME NEW xs \in Seq(Key), NEW ys \in Seq(Key), Len(xs) = 1, Len(ys) = 1, xs[1] = ys[1]
  PROVE  xs = ys
OBVIOUS

\* A list of one text is not empty.
LEMMA OneIsNotNone == ASSUME NEW xs \in Seq(Key), Len(xs) = 1 PROVE xs # <<>>
OBVIOUS

\* Of one text and one text Joined makes one.
LEMMA JoinedOnce ==
  ASSUME NEW xs \in Seq(Key), NEW ys \in Seq(Key), NEW c \in Separator, Len(xs) = 1, Len(ys) = 1
  PROVE  JoinOf(Joined(xs, ys, c)[1], xs[1], c, ys[1])
<1> DEFINE M == Len(xs)
           L == Len(ys)
           t == Joined(xs, ys, c)[1]
<1>1. \A k \in 1..(M * L) : \E i \in 1..M, j \in 1..L :
        Joined(xs, ys, c)[k] = xs[i] \o <<c>> \o ys[j]
  <2> HIDE DEF M, L
  <2>1. QED
    BY JoinedIs DEF M, L
<1> HIDE DEF M, L
<1>2. M = 1 /\ L = 1
  BY DEF M, L
<1>3. 1 \in 1..(M * L) /\ (\A i \in 1..M : i = 1) /\ (\A i \in 1..L : i = 1)
  BY <1>2
<1>4. t = xs[1] \o <<c>> \o ys[1]
  BY <1>1, <1>3
<1>5. xs[1] \in Key /\ ys[1] \in Key
  OBVIOUS
<1> HIDE DEF t
<1>6. JoinOf(t, xs[1], c, ys[1])
  BY <1>4, <1>5, JoinIs
<1>7. QED
  BY <1>6 DEF t

\* Two joined texts are equal only if both their parts are.
LEMMA JoinedTells ==
  ASSUME NEW xs \in Seq(Key), NEW ys \in Seq(Key), NEW vs \in Seq(Key), NEW ws \in Seq(Key),
         NEW c \in Separator, Len(xs) = 1, Len(ys) = 1, Len(vs) = 1, Len(ws) = 1,
         c \notin ToSet(ys[1]), c \notin ToSet(ws[1]),
         Joined(xs, ys, c) = Joined(vs, ws, c)
  PROVE  xs = vs /\ ys = ws
<1> DEFINE t == Joined(xs, ys, c)[1]
<1>1. xs[1] \in Key /\ ys[1] \in Key /\ vs[1] \in Key /\ ws[1] \in Key
  OBVIOUS
<1>2. JoinOf(Joined(xs, ys, c)[1], xs[1], c, ys[1])
  BY JoinedOnce
<1>3. JoinOf(Joined(vs, ws, c)[1], vs[1], c, ws[1])
  BY JoinedOnce
<1>4. JoinOf(t, xs[1], c, ys[1]) /\ JoinOf(t, vs[1], c, ws[1])
  BY <1>2, <1>3
<1> HIDE DEF t
<1>5. xs[1] = vs[1] /\ ys[1] = ws[1]
  BY <1>1, <1>4, LastSeparatorTells
<1>6. QED
  BY <1>5, SameSingle

\* Names before k that have the same value in two matrices.
SameUpTo(kvs, lvs, k) == \A l \in 1..k : Names[l] \in DOMAIN kvs => kvs[Names[l]] = lvs[Names[l]]

\* One more name: without separators in it, the last value can be told from
\* the text before it.
LEMMA TextTellsNext ==
  ASSUME NEW kvs, NEW lvs, IsSingle(kvs), IsSingle(lvs), DOMAIN kvs = DOMAIN lvs,
         PlainPart(kvs), PlainPart(lvs), NEW k \in 1..Len(Names),
         Combined(kvs)[k - 1] = Combined(lvs)[k - 1] => SameUpTo(kvs, lvs, k - 1),
         Combined(kvs)[k] = Combined(lvs)[k]
  PROVE  SameUpTo(kvs, lvs, k)
<1> DEFINE n == Names[k]
           x == Combined(kvs)[k - 1]
           y == Combined(lvs)[k - 1]
<1>1. Len(Names) \in Nat /\ k - 1 \in 0..Len(Names)
  BY NamesAssumption
<1>2. \A l \in 1..k : l = k \/ l \in 1..(k - 1)
  BY <1>1
<1>3. IsValues(kvs) /\ IsValues(lvs)
  BY DEF IsSingle
<1>4. TextsAt(kvs, k - 1) /\ TextsAt(lvs, k - 1)
  BY <1>1, <1>3, TextsAreAt
<1>5. /\ x \in Seq(Key) /\ y \in Seq(Key)
      /\ NoneBefore(kvs, k - 1) => x = <<>>
      /\ NoneBefore(lvs, k - 1) => y = <<>>
      /\ ~NoneBefore(kvs, k - 1) => Len(x) = 1
      /\ ~NoneBefore(lvs, k - 1) => Len(y) = 1
  BY <1>1, <1>4, SingleIsOne DEF TextsAt
<1>6. WithValues(x, kvs, k) = WithValues(y, lvs, k)
  BY CombinedUnfolds
<1>7. NoneBefore(kvs, k - 1) <=> NoneBefore(lvs, k - 1)
  BY DEF NoneBefore
<1> HIDE DEF x, y
<1>8. /\ n \notin DOMAIN kvs => WithValues(x, kvs, k) = x
      /\ n \in DOMAIN kvs /\ NoneBefore(kvs, k - 1) => WithValues(x, kvs, k) = kvs[n]
      /\ n \in DOMAIN kvs /\ ~NoneBefore(kvs, k - 1) => WithValues(x, kvs, k) = Joined(x, kvs[n], "-")
  BY <1>3, <1>5, WithValuesIs
<1>9. /\ n \notin DOMAIN lvs => WithValues(y, lvs, k) = y
      /\ n \in DOMAIN lvs /\ NoneBefore(lvs, k - 1) => WithValues(y, lvs, k) = lvs[n]
      /\ n \in DOMAIN lvs /\ ~NoneBefore(lvs, k - 1) => WithValues(y, lvs, k) = Joined(y, lvs[n], "-")
  BY <1>3, <1>5, WithValuesIs
<1>10. x = y => SameUpTo(kvs, lvs, k - 1)
  BY DEF x, y
<1>11. CASE n \notin DOMAIN kvs
  <2>1. SameUpTo(kvs, lvs, k - 1)
    BY <1>6, <1>8, <1>9, <1>10, <1>11
  <2>2. QED
    BY <1>2, <1>11, <2>1 DEF SameUpTo
<1>12. CASE n \in DOMAIN kvs /\ NoneBefore(kvs, k - 1)
  <2>1. kvs[n] = lvs[n]
    BY <1>6, <1>7, <1>8, <1>9, <1>12
  <2>2. QED
    BY <1>2, <1>12, <2>1 DEF SameUpTo, NoneBefore
<1>13. CASE n \in DOMAIN kvs /\ ~NoneBefore(kvs, k - 1)
  <2> DEFINE v == kvs[n]
             w == lvs[n]
  <2>1. /\ v \in Seq(Key) /\ Len(v) = 1 /\ 1 \in DOMAIN v
        /\ w \in Seq(Key) /\ Len(w) = 1 /\ 1 \in DOMAIN w
    BY <1>13 DEF IsSingle, IsValues
  <2>2. "-" \notin ToSet(v[1]) /\ "-" \notin ToSet(w[1])
    BY <1>13, <2>1 DEF PlainPart
  <2>3. Joined(x, v, "-") = Joined(y, w, "-")
    BY <1>6, <1>7, <1>8, <1>9, <1>13
  <2>4. Len(x) = 1 /\ Len(y) = 1 /\ "-" \in Separator
    BY <1>5, <1>7, <1>13 DEF Separator
  <2> HIDE DEF v, w
  <2>5. x = y /\ v = w
    BY <1>5, <2>1, <2>2, <2>3, <2>4, JoinedTells
  <2>6. QED
    BY <1>2, <1>10, <2>5 DEF SameUpTo, v, w
<1>14. QED
  BY <1>11, <1>12, <1>13

\* The text of single values tells them, once their names are known.
LEMMA TextTells ==
  ASSUME NEW kvs, NEW lvs, IsSingle(kvs), IsSingle(lvs), DOMAIN kvs = DOMAIN lvs,
         PlainPart(kvs), PlainPart(lvs), Cartesian(kvs) = Cartesian(lvs)
  PROVE  kvs = lvs
<1> DEFINE T == {k \in Nat : /\ k <= Len(Names)
                             /\ Combined(kvs)[k] = Combined(lvs)[k] => SameUpTo(kvs, lvs, k)}
           U == {k \in Nat : k <= Len(Names) => k \in T}
<1>1. Len(Names) \in Nat /\ DOMAIN Names = 1..Len(Names)
  BY NamesAssumption
<1>2. 0 \in U
  BY <1>1 DEF SameUpTo
<1>3. ASSUME NEW k \in Nat, k \in U PROVE k + 1 \in U
  <2>1. SUFFICES ASSUME k + 1 <= Len(Names), Combined(kvs)[k + 1] = Combined(lvs)[k + 1]
                 PROVE  SameUpTo(kvs, lvs, k + 1)
    BY <1>1
  <2>2. k + 1 \in 1..Len(Names) /\ (k + 1) - 1 = k /\ k <= Len(Names)
    BY <1>1, <2>1
  <2>3. Combined(kvs)[k] = Combined(lvs)[k] => SameUpTo(kvs, lvs, k)
    BY <1>3, <2>2
  <2>4. QED
    BY <2>1, <2>2, <2>3, TextTellsNext
<1>4. Nat \subseteq U
  <2> HIDE DEF U
  <2>1. QED
    BY <1>2, <1>3, SetInduction
<1>5. SameUpTo(kvs, lvs, Len(Names))
  BY <1>1, <1>4 DEF Cartesian
<1>6. ASSUME NEW n \in DOMAIN kvs PROVE kvs[n] = lvs[n]
  <2>1. PICK l \in 1..Len(Names) : Names[l] = n
    BY <1>1 DEF IsSingle, IsValues, ToSet
  <2>2. QED
    BY <1>5, <2>1 DEF SameUpTo
<1>7. kvs = [n \in DOMAIN kvs |-> kvs[n]] /\ lvs = [n \in DOMAIN lvs |-> lvs[n]]
  BY DEF IsSingle, IsValues
<1>8. QED
  BY <1>6, <1>7

\* So does the key of a matrix.
LEMMA KeyTells ==
  ASSUME NEW m, NEW n, IsSingle(m.require), IsSingle(m.options), IsSingle(n.require),
         IsSingle(n.options), SameNames(m, n), Plain(m), Plain(n),
         Combinations(m) = Combinations(n)
  PROVE  m.require = n.require /\ m.options = n.options
<1> DEFINE r == Cartesian(m.require)
           o == Cartesian(m.options)
           s == Cartesian(n.require)
           p == Cartesian(n.options)
<1>1. /\ DOMAIN m.require = DOMAIN n.require /\ DOMAIN m.options = DOMAIN n.options
      /\ PlainPart(m.require) /\ PlainPart(m.options) /\ PlainPart(n.require) /\ PlainPart(n.options)
  BY DEF SameNames, Plain
<1>2. /\ IsValues(m.require) /\ IsValues(m.options)
      /\ IsValues(n.require) /\ IsValues(n.options)
  BY DEF IsSingle
<1>3. /\ r \in Seq(Key) /\ IF DOMAIN m.require = {} THEN r = <<>> ELSE Len(r) = 1
      /\ o \in Seq(Key) /\ IF DOMAIN m.options = {} THEN o = <<>> ELSE Len(o) = 1
  BY <1>2, CartesianIs, SingleIsOne
<1>4. /\ s \in Seq(Key) /\ IF DOMAIN m.require = {} THEN s = <<>> ELSE Len(s) = 1
      /\ p \in Seq(Key) /\ IF DOMAIN m.options = {} THEN p = <<>> ELSE Len(p) = 1
  BY <1>1, <1>2, CartesianIs, SingleIsOne
<1>5. /\ \A i \in 1..Len(o) : "|" \notin ToSet(o[i])
      /\ \A i \in 1..Len(p) : "|" \notin ToSet(p[i])
  BY <1>1, <1>2, CartesianIs DEF HasBar
<1>6. /\ Combinations(m) = IF r = <<>> THEN o ELSE IF o = <<>> THEN r ELSE Joined(r, o, "|")
      /\ Combinations(n) = IF s = <<>> THEN p ELSE IF p = <<>> THEN s ELSE Joined(s, p, "|")
  BY DEF Combinations
<1>7. r = s /\ o = p => m.require = n.require /\ m.options = n.options
  BY <1>1, TextTells
<1> HIDE DEF r, o, s, p
<1>8. CASE DOMAIN m.require = {} \/ DOMAIN m.options = {}
  <2>1. r = s /\ o = p
    BY <1>3, <1>4, <1>6, <1>8
  <2>2. QED
    BY <1>7, <2>1
<1>9. CASE DOMAIN m.require # {} /\ DOMAIN m.options # {}
  <2>1. Len(r) = 1 /\ Len(o) = 1 /\ Len(s) = 1 /\ Len(p) = 1
    BY <1>3, <1>4, <1>9
  <2>2. r # <<>> /\ o # <<>> /\ s # <<>> /\ p # <<>>
    BY <1>3, <1>4, <2>1, OneIsNotNone
  <2>3. Joined(r, o, "|") = Joined(s, p, "|")
    BY <1>6, <2>2
  <2>4. "|" \notin ToSet(o[1]) /\ "|" \notin ToSet(p[1]) /\ "|" \in Separator
    BY <1>5, <2>1 DEF Separator
  <2>5. r = s /\ o = p
    BY <1>3, <1>4, <2>1, <2>3, <2>4, JoinedTells
  <2>6. QED
    BY <1>7, <2>5
<1>10. QED
  BY <1>8, <1>9
-----------------------------------------------------------------------------
(* Command lines. *)

\* Values are texts.
LEMMA ValuesAreKeys == Seq(Word) \subseteq Key
<1>1. SUFFICES ASSUME NEW v \in Seq(Word) PROVE v \in Seq(Word \cup {"-", "|"})
  BY DEF Key
<1>2. Len(v) \in Nat /\ v = [j \in 1..Len(v) |-> v[j]] /\ \A j \in 1..Len(v) : v[j] \in Word
  OBVIOUS
<1>3. QED
  BY <1>2

\* A finite set as a list has each element once.
LEMMA SetToSeqIs ==
  ASSUME NEW S, IsFiniteSet(S)
  PROVE  SetToSeq(S) \in Seq(S) /\ IsInjective(SetToSeq(S))
<1> DEFINE n == Cardinality(S)
           Is(f) == IsInjective(f)
           s == CHOOSE f \in [1..n -> S] : Is(f)
<1>1. n \in Nat /\ ExistsBijection(1..n, S)
  BY FS_CardinalityType
<1>2. PICK f : f \in Bijection(1..n, S)
  BY <1>1, Fun_ExistsBij
<1>3. f \in [1..n -> S] /\ \A a, b \in 1..n : f[a] = f[b] => a = b
  BY <1>2, Fun_BijectionProperties
<1>4. Is(f)
  BY <1>3 DEF IsInjective
<1>5. s \in [1..n -> S] /\ Is(s)
  <2> HIDE DEF Is
  <2>1. QED
    BY <1>3, <1>4
<1>6. SetToSeq(S) = s
  BY DEF SetToSeq
<1> HIDE DEF s
<1>7. QED
  BY <1>1, <1>5, <1>6

\* The greatest of some positions of a line.
LEMMA LastExists ==
  ASSUME NEW L \in Nat, NEW S \in SUBSET (1..L), S # {}
  PROVE  \E i \in S : \A j \in S : j <= i
<1> DEFINE R == {L - i : i \in S}
<1>1. R \in SUBSET Nat /\ R # {}
  <2>1. \A i \in S : L - i \in Nat
    OBVIOUS
  <2>2. QED
    BY <2>1
<1>2. PICK x \in R : \A y \in R : x <= y
  <2> HIDE DEF R
  <2>1. QED
    BY <1>1, LeastElement
<1>3. PICK i \in S : x = L - i
  OBVIOUS
<1>4. \A j \in S : L - i <= L - j
  BY <1>2, <1>3
<1>5. \A j \in S : j <= i
  <2>1. \A j \in 1..L : L - i <= L - j => j <= i
    OBVIOUS
  <2>2. QED
    BY <1>4, <2>1
<1>6. QED
  BY <1>5

\* The names are known where a flag is used.
Named(line, flag) == \A i \in DOMAIN line : line[i].flag = flag => line[i].name \in ToSet(Names)

\* What arguments carry.
LEMMA LineIs ==
  ASSUME NEW line \in Seq(Argument)
  PROVE  /\ Len(line) \in Nat /\ DOMAIN line = 1..Len(line)
         /\ \A i \in 1..Len(line) : line[i].value \in Key /\ line[i].name \in ToSet(Names) \cup {""}
<1>1. \A i \in 1..Len(line) : line[i] \in Argument
  OBVIOUS
<1>2. \A a \in Argument : a.value \in Seq(Word) /\ a.name \in ToSet(Names) \cup {""}
  BY DEF Argument
<1>3. \A v \in Seq(Word) : v \in Key
  BY ValuesAreKeys
<1>4. Len(line) \in Nat /\ DOMAIN line = 1..Len(line)
  OBVIOUS
<1>5. ASSUME NEW i \in 1..Len(line)
      PROVE  line[i].value \in Key /\ line[i].name \in ToSet(Names) \cup {""}
  BY <1>1, <1>2, <1>3
<1>6. QED
  BY <1>4, <1>5

\* A flag gives one value to each of its names.
LEMMA AssignedIs ==
  ASSUME NEW line \in Seq(Argument), NEW flag, Named(line, flag)
  PROVE  IsSingle(Assigned(line, flag))
<1> DEFINE given == {i \in DOMAIN line : line[i].flag = flag}
           Is(n, i) == line[i].name = n /\ \A j \in given : line[j].name = n => j <= i
           last(n) == CHOOSE i \in given : Is(n, i)
           a == Assigned(line, flag)
           names == {line[i].name : i \in given}
<1>1. a = [n \in names |-> <<line[last(n)].value>>]
  BY DEF Assigned
<1>2. given \subseteq 1..Len(line) /\ names \subseteq ToSet(Names)
  BY LineIs DEF Named
<1>3. ASSUME NEW n \in names PROVE last(n) \in given
  <2> DEFINE S == {i \in given : line[i].name = n}
  <2>1. S \in SUBSET (1..Len(line)) /\ S # {} /\ Len(line) \in Nat
    BY <1>2, LineIs
  <2> HIDE DEF S
  <2>2. PICK i \in S : \A j \in S : j <= i
    BY <2>1, LastExists
  <2> HIDE DEF given
  <2>3. i \in given /\ Is(n, i)
    BY <2>2 DEF S
  <2> HIDE DEF Is
  <2>4. QED
    BY <2>3
<1>4. \A i \in given : line[i].value \in Key
  BY <1>2, LineIs
<1> HIDE DEF a, names, given, last
<1>5. DOMAIN a = names /\ \A n \in names : a[n] = <<line[last(n)].value>>
  BY <1>1
<1>6. \A n \in names : a[n] \in Seq(Key) /\ Len(a[n]) = 1
  <2>1. ASSUME NEW n \in names PROVE a[n] \in Seq(Key) /\ Len(a[n]) = 1
    <3>1. line[last(n)].value \in Key
      BY <1>3, <1>4
    <3>2. \A v \in Key : <<v>> \in Seq(Key) /\ Len(<<v>>) = 1
      OBVIOUS
    <3>3. QED
      BY <1>5, <3>1, <3>2
  <2>2. QED
    BY <2>1
<1>7. a = [n \in DOMAIN a |-> a[n]]
  BY <1>1
<1>8. IsSingle(a)
  BY <1>2, <1>5, <1>6, <1>7 DEF IsSingle, IsValues
<1>9. QED
  BY <1>8 DEF a

\* Two flags over one another give one value to each name.
LEMMA OverIsSingle ==
  ASSUME NEW f, NEW g, IsSingle(f), IsSingle(g)
  PROVE  IsSingle(Over(f, g))
<1> DEFINE o == Over(f, g)
<1>1. o = [n \in DOMAIN f \cup DOMAIN g |-> IF n \in DOMAIN f THEN f[n] ELSE g[n]]
  BY DEF Over
<1> HIDE DEF o
<1>2. DOMAIN o = DOMAIN f \cup DOMAIN g /\ \A n \in DOMAIN o : o[n] \in {f[n], g[n]}
  BY <1>1
<1>3. \A n \in DOMAIN o : (n \in DOMAIN f /\ o[n] = f[n]) \/ (n \in DOMAIN g /\ o[n] = g[n])
  BY <1>1
<1>4. o = [n \in DOMAIN o |-> o[n]]
  BY <1>1
<1>5. IsSingle(o)
  BY <1>2, <1>3, <1>4 DEF IsSingle, IsValues
<1>6. QED
  BY <1>5 DEF o

\* hostMatrix has one value for os and one for arch.
LEMMA HostIsSingle ==
  /\ HostMatrix = Matrix(HostMatrix.require, HostMatrix.options)
  /\ IsSingle(HostMatrix.require) /\ IsSingle(HostMatrix.options)
  /\ DOMAIN HostMatrix.require # {}
<1> DEFINE r == [os |-> <<Host.os>>, arch |-> <<Host.arch>>]
<1>1. HostMatrix.require = r /\ HostMatrix.options = None /\ HostMatrix = Matrix(r, None)
  BY DEF HostMatrix, Matrix
<1>2. Host.os \in Key /\ Host.arch \in Key
  BY HostAssumption, ValuesAreKeys
<1>3. DOMAIN r = {"os", "arch"} /\ r["os"] = <<Host.os>> /\ r["arch"] = <<Host.arch>>
  OBVIOUS
<1>4. r = [n \in DOMAIN r |-> r[n]]
  OBVIOUS
<1> HIDE DEF r
<1>5. IsSingle(r)
  <2>1. \A v \in Key : <<v>> \in Seq(Key) /\ Len(<<v>>) = 1
    OBVIOUS
  <2>2. <<Host.os>> \in Seq(Key) /\ Len(<<Host.os>>) = 1 /\ <<Host.arch>> \in Seq(Key) /\ Len(<<Host.arch>>) = 1
    BY <1>2, <2>1
  <2>3. \A n \in DOMAIN r : r[n] \in Seq(Key) /\ Len(r[n]) = 1
    BY <1>3, <2>2
  <2>4. DOMAIN r \subseteq ToSet(Names)
    BY <1>3, NamesAssumption
  <2>5. QED
    BY <1>4, <2>3, <2>4 DEF IsSingle, IsValues
<1>6. IsSingle(None)
  BY DEF IsSingle, IsValues, None
<1>7. QED
  BY <1>1, <1>3, <1>5, <1>6

\* What an accepted command line gives.
LEMMA AcceptedIs ==
  ASSUME NEW line \in Seq(Argument), ~ResolveMatrix(line).err
  PROVE  LET m == ResolveMatrix(line).matrix IN
         /\ m = Matrix(m.require, m.options)
         /\ IsSingle(m.require) /\ IsSingle(m.options) /\ ~IsBlank(m)
         /\ Named(line, "require") /\ Named(line, "option") /\ Named(line, "unknown")
<1> DEFINE found == ExtractMatrixFlags(line)
           r == Over(Assigned(line, "require"), Assigned(line, "unknown"))
           o == Assigned(line, "option")
           m == ResolveMatrix(line).matrix
<1>1. found = [err |-> \E i \in DOMAIN line : Malformed(line[i]), matrix |-> Matrix(r, o)]
  BY DEF ExtractMatrixFlags
<1>2. ResolveMatrix(line) = IF ~found.err /\ IsBlank(found.matrix)
                           THEN [err |-> FALSE, matrix |-> HostMatrix] ELSE found
  BY DEF ResolveMatrix
<1>3. ~found.err
  BY <1>2
<1>4. \A i \in DOMAIN line : ~Malformed(line[i])
  BY <1>1, <1>3
<1>5. \A i \in DOMAIN line : line[i].flag # "known" => line[i].name \in ToSet(Names)
  BY <1>4, LineIs DEF Malformed
<1>6. Named(line, "require") /\ Named(line, "option") /\ Named(line, "unknown")
  BY <1>5 DEF Named
<1>7. IsSingle(r) /\ IsSingle(o)
  BY <1>6, AssignedIs, OverIsSingle
<1> HIDE DEF found, r, o
<1>8. found.matrix = Matrix(r, o)
  BY <1>1
<1>9. CASE IsBlank(found.matrix)
  <2>1. m = HostMatrix
    BY <1>2, <1>3, <1>9
  <2>2. QED
    BY <1>6, <2>1, HostIsSingle DEF IsBlank
<1>10. CASE ~IsBlank(found.matrix)
  <2>1. m = Matrix(r, o) /\ ~IsBlank(m)
    BY <1>2, <1>8, <1>10
  <2>2. m.require = r /\ m.options = o
    BY <2>1 DEF Matrix
  <2>3. QED
    BY <1>6, <1>7, <2>1, <2>2
<1>11. QED
  BY <1>9, <1>10

\* The grid of all values has each value of an option once.
LEMMA GridIs ==
  ASSUME NEW line \in Seq(Argument), Named(line, "option")
  PROVE  LET g == Grid(line) IN
         /\ IsValues(g.require) /\ IsValues(g.options)
         /\ \A n \in DOMAIN g.require : IsInjective(g.require[n])
         /\ \A n \in DOMAIN g.options : IsInjective(g.options[n])
<1> DEFINE given == {i \in DOMAIN line : line[i].flag = "option"}
           places(n) == {j \in given : line[j].name = n}
           values(n) == {line[i].value : i \in places(n)}
           names == {line[i].name : i \in given}
           o == [n \in names |-> SetToSeq(values(n))]
<1>1. Grid(line) = Matrix(HostMatrix.require, o)
  BY DEF Grid
<1>2. names \subseteq ToSet(Names) /\ given \subseteq 1..Len(line) /\ Len(line) \in Nat
  BY LineIs DEF Named
<1>3. ASSUME NEW n PROVE IsFiniteSet(values(n)) /\ values(n) \subseteq Key
  <2>1. IsFiniteSet(places(n)) /\ places(n) \subseteq 1..Len(line)
    <3>1. places(n) \in SUBSET (1..Len(line))
      BY <1>2
    <3> HIDE DEF places
    <3>2. IsFiniteSet(1..Len(line))
      BY <1>2, FS_Interval
    <3>3. QED
      BY <3>1, <3>2, FS_Subset
  <2>2. values(n) \subseteq Key
    BY <2>1, LineIs
  <2> HIDE DEF places
  <2> DEFINE f == [i \in places(n) |-> line[i].value]
  <2>3. f \in Surjection(places(n), values(n))
    <3>1. f \in [places(n) -> values(n)] /\ \A v \in values(n) : \E i \in places(n) : f[i] = v
      OBVIOUS
    <3> HIDE DEF f, values
    <3>2. QED
      BY <3>1, Fun_IsSurj
  <2> HIDE DEF f, values
  <2>4. QED
    BY <2>1, <2>2, <2>3, FS_Surjection
<1> HIDE DEF values
<1>4. ASSUME NEW n PROVE SetToSeq(values(n)) \in Seq(Key) /\ IsInjective(SetToSeq(values(n)))
  <2>1. SetToSeq(values(n)) \in Seq(values(n)) /\ IsInjective(SetToSeq(values(n)))
    BY <1>3, SetToSeqIs
  <2>2. values(n) \subseteq Key
    BY <1>3
  <2>3. QED
    BY <2>1, <2>2
<1> HIDE DEF names
<1>5. DOMAIN o = names /\ o = [n \in DOMAIN o |-> o[n]] /\ \A n \in names : o[n] = SetToSeq(values(n))
  OBVIOUS
<1> HIDE DEF o
<1>6. IsValues(o) /\ \A n \in DOMAIN o : IsInjective(o[n])
  BY <1>2, <1>4, <1>5 DEF IsValues
<1>7. /\ IsValues(HostMatrix.require)
      /\ \A n \in DOMAIN HostMatrix.require : IsInjective(HostMatrix.require[n])
  <2>1. \A xs \in Seq(Key) : Len(xs) = 1 => IsInjective(xs)
    BY DEF IsInjective
  <2>2. QED
    BY <2>1, HostIsSingle DEF IsSingle, IsValues
<1>8. Grid(line).require = HostMatrix.require /\ Grid(line).options = o
  BY <1>1 DEF Matrix
<1>9. QED
  BY <1>6, <1>7, <1>8

\* A map from names.
IsMap(f) == f = [n \in DOMAIN f |-> f[n]]

\* An accepted command line has one combination.
LEMMA LineHasOneKey ==
  ASSUME NEW line \in Seq(Argument), ~ResolveMatrix(line).err
  PROVE  LET m == ResolveMatrix(line).matrix IN
         Len(Combinations(m)) = 1 /\ CombinationCount(m) = 1
<1> DEFINE m == ResolveMatrix(line).matrix
           r == CountPart(m.require)
           o == CountPart(m.options)
<1>1. IsSingle(m.require) /\ IsSingle(m.options) /\ ~IsBlank(m)
  BY AcceptedIs
<1> HIDE DEF m
<1>2. IsValues(m.require) /\ IsValues(m.options)
  BY <1>1 DEF IsSingle
<1>3. /\ IF DOMAIN m.require = {} THEN r = 0 ELSE r = 1
      /\ IF DOMAIN m.options = {} THEN o = 0 ELSE o = 1
  <2>1. /\ DOMAIN m.require = {} => r = 0
        /\ DOMAIN m.options = {} => o = 0
    BY DEF CountPart
  <2>2. /\ DOMAIN m.require # {} => r = 1
        /\ DOMAIN m.options # {} => o = 1
    BY <1>1, SingleIsOne
  <2>3. QED
    BY <2>1, <2>2
<1>4. CombinationCount(m) = IF r = 0 THEN o ELSE IF o = 0 THEN r ELSE r * o
  BY DEF CombinationCount
<1> HIDE DEF r, o
<1>5. CombinationCount(m) = 1
  BY <1>1, <1>3, <1>4 DEF IsBlank
<1>6. Len(Combinations(m)) = CombinationCount(m)
  BY <1>2, CombinationsAreCounted
<1>7. QED
  BY <1>5, <1>6 DEF m

\* What the flat query of a command has.
LEMMA QueryIs ==
  ASSUME NEW require, IsMap(require), NEW options, IsMap(options),
         ~AddMatrix(Matrix(require, options)).err
  PROVE  LET query == AddMatrix(Matrix(require, options)).query
         IN /\ IsMap(query) /\ SingleValued(query)
            /\ DOMAIN query = DOMAIN require \cup DOMAIN options /\ DOMAIN query # {}
            /\ \A n \in DOMAIN require : query[n] = require[n]
            /\ \A n \in DOMAIN options : query[n] = options[n]
            /\ ~ParseRequest(query).err
<1> DEFINE query == Over(require, options)
           m == Matrix(require, options)
<1>1. m.require = require /\ m.options = options
  BY DEF Matrix
<1> HIDE DEF m
<1>2. /\ AddMatrix(m).query = query
      /\ SingleValued(require) /\ SingleValued(options)
      /\ DOMAIN require \cap DOMAIN options = {}
      /\ ~(DOMAIN require = {} /\ DOMAIN options = {})
  BY <1>1 DEF AddMatrix, IsBlank, m
<1>3. /\ DOMAIN query = DOMAIN require \cup DOMAIN options
      /\ \A n \in DOMAIN require : query[n] = require[n]
      /\ \A n \in DOMAIN options : n \notin DOMAIN require => query[n] = options[n]
      /\ IsMap(query)
  BY DEF IsMap, Over
<1> HIDE DEF query
<1>4. \A n \in DOMAIN options : query[n] = options[n]
  BY <1>2, <1>3
<1>5. SingleValued(query) /\ DOMAIN query # {}
  BY <1>2, <1>3, <1>4 DEF SingleValued
<1>6. ~ParseRequest(query).err
  BY <1>5 DEF ParseRequest
<1>7. QED
  BY <1>2, <1>3, <1>4, <1>5, <1>6 DEF m

\* Where what is required is os, arch and libc and nothing else is, llard gets
\* from the flat query of llar install the very matrix that the command has,
\* and so the same key (addMatrix of install.go and parseRequest of http.go).
THEOREM QueryCarriesTheMatrix ==
  ASSUME NEW require, IsMap(require), DOMAIN require \subseteq Target,
         NEW options, IsMap(options), DOMAIN options \cap Target = {},
         ~AddMatrix(Matrix(require, options)).err
  PROVE  LET received == ParseRequest(AddMatrix(Matrix(require, options)).query)
         IN ~received.err /\ received.matrix = Matrix(require, options)
<1> DEFINE query == AddMatrix(Matrix(require, options)).query
<1>1. /\ DOMAIN query = DOMAIN require \cup DOMAIN options
      /\ \A n \in DOMAIN require : query[n] = require[n]
      /\ \A n \in DOMAIN options : query[n] = options[n]
      /\ ~ParseRequest(query).err
  BY QueryIs
<1> HIDE DEF query
<1>2. [n \in DOMAIN query \cap Target |-> query[n]] = require
  BY <1>1 DEF IsMap
<1>3. [n \in DOMAIN query \ Target |-> query[n]] = options
  BY <1>1 DEF IsMap
<1>4. ParseRequest(query).matrix = Matrix(require, options)
  BY <1>2, <1>3 DEF ParseRequest
<1>5. QED
  BY <1>1, <1>4 DEF query

\* One combination names the matrix of a command line, and no other matrix
\* over the same dimensions, values without separators; the grid of all values
\* of a line has as many combinations as are counted, all different; and where
\* targets are required and nothing else is, llard has the key and the options
\* of the command from its query (Combinations and CombinationCount of
\* classfile.go, resolveMatrix of the commands, addMatrix and parseRequest).
THEOREM KeyTellsTheMatrix == KeyNamesTheMatrix
<1>1. SUFFICES ASSUME args \in Seq(Argument), ~ResolveMatrix(args).err
               PROVE  KeyNamesTheMatrix
  BY DEF KeyNamesTheMatrix
<1> DEFINE m == ResolveMatrix(args).matrix
           key == Combinations(m)
           grid == Combinations(Grid(args))
           sent == AddMatrix(m)
           received == ParseRequest(sent.query)
           target == Defaults([require |-> <<>>, options |-> <<>>, defaults |-> <<>>],
                              [ssl |-> <<<<"b">>>>])
<1>2. /\ m = Matrix(m.require, m.options) /\ IsSingle(m.require) /\ IsSingle(m.options)
      /\ Named(args, "option")
  BY <1>1, AcceptedIs
<1>3. Len(key) = 1 /\ CombinationCount(m) = 1
  BY <1>1, LineHasOneKey
<1> HIDE DEF m, target
<1>4. ASSUME NEW n \in Matrices, n.key = key, SameNames(m, n.matrix), Plain(m), Plain(n.matrix)
      PROVE  m = n.matrix
  <2>1. PICK line \in CommandLines :
          /\ ~ResolveMatrix(line).err
          /\ n = [matrix |-> ResolveMatrix(line).matrix,
                  key |-> Combinations(ResolveMatrix(line).matrix)]
    BY DEF Matrices
  <2> DEFINE o == ResolveMatrix(line).matrix
  <2>2. line \in Seq(Argument)
    BY CommandLinesAssumption
  <2>3. o = Matrix(o.require, o.options) /\ IsSingle(o.require) /\ IsSingle(o.options)
    BY <2>1, <2>2, AcceptedIs
  <2>4. n.matrix = o /\ n.key = Combinations(o)
    BY <2>1
  <2> HIDE DEF o
  <2>5. m.require = o.require /\ m.options = o.options
    BY <1>2, <1>4, <2>3, <2>4, KeyTells
  <2>6. QED
    BY <1>2, <2>3, <2>4, <2>5
<1>5. /\ Len(grid) = CombinationCount(Grid(args))
      /\ Plain(Grid(args)) => IsInjective(grid)
  BY <1>1, <1>2, GridIs, CombinationsAreCounted, CombinationsDiffer
<1>6. IsMap(m.require) /\ IsMap(m.options)
  BY <1>2 DEF IsSingle, IsValues, IsMap
<1>7. ASSUME ~sent.err PROVE ~received.err
  BY <1>2, <1>6, <1>7, QueryIs
<1>8. ASSUME ~sent.err, DOMAIN m.require \subseteq Target, DOMAIN m.options \cap Target = {}
      PROVE  received.matrix = m
  BY <1>2, <1>6, <1>8, QueryCarriesTheMatrix
<1> HIDE DEF sent, received, grid
<1>9. QED
  BY <1>3, <1>4, <1>5, <1>7, <1>8 DEF KeyNamesTheMatrix, m, sent, received, grid, target

-----------------------------------------------------------------------------
(* The build order. *)

\* A list and what is in it, longer or shorter by one.
LEMMA ListAppended ==
  ASSUME NEW S, NEW q \in Seq(S), NEW x \in S
  PROVE  /\ Append(q, x) \in Seq(S) /\ Len(Append(q, x)) = Len(q) + 1 /\ Len(q) \in Nat
         /\ \A i \in 1..Len(q) : Append(q, x)[i] = q[i]
         /\ Append(q, x)[Len(q) + 1] = x
         /\ \A y : y \in ToSet(Append(q, x)) <=> y \in ToSet(q) \/ y = x
         /\ IsInjective(q) /\ x \notin ToSet(q) => IsInjective(Append(q, x))
<1> DEFINE a == Append(q, x)
<1>1. /\ a \in Seq(S) /\ Len(a) = Len(q) + 1 /\ Len(q) \in Nat
      /\ \A i \in 1..Len(q) : a[i] = q[i]
      /\ a[Len(q) + 1] = x
  OBVIOUS
<1>2. DOMAIN q = 1..Len(q) /\ DOMAIN a = 1..(Len(q) + 1)
  BY <1>1
<1> HIDE DEF a
<1>3. \A i \in 1..(Len(q) + 1) : i \in 1..Len(q) \/ i = Len(q) + 1
  BY <1>1
<1>4. \A y : y \in ToSet(a) <=> y \in ToSet(q) \/ y = x
  <2>1. ASSUME NEW y, y \in ToSet(a) PROVE y \in ToSet(q) \/ y = x
    <3>1. PICK i \in 1..(Len(q) + 1) : a[i] = y
      BY <1>2, <2>1 DEF ToSet
    <3>2. QED
      BY <1>1, <1>2, <1>3, <3>1 DEF ToSet
  <2>2. ASSUME NEW y, y \in ToSet(q) PROVE y \in ToSet(a)
    <3>1. PICK i \in 1..Len(q) : q[i] = y
      BY <1>2, <2>2 DEF ToSet
    <3>2. i \in 1..(Len(q) + 1)
      BY <1>1
    <3>3. QED
      BY <1>1, <1>2, <3>1, <3>2 DEF ToSet
  <2>3. x \in ToSet(a)
    <3>1. Len(q) + 1 \in 1..(Len(q) + 1)
      BY <1>1
    <3>2. QED
      BY <1>1, <1>2, <3>1 DEF ToSet
  <2>4. QED
    BY <2>1, <2>2, <2>3
<1>5. IsInjective(q) /\ x \notin ToSet(q) => IsInjective(a)
  <2>1. SUFFICES ASSUME IsInjective(q), x \notin ToSet(q),
                        NEW i \in 1..(Len(q) + 1), NEW j \in 1..(Len(q) + 1), a[i] = a[j]
                 PROVE  i = j
    BY <1>2 DEF IsInjective
  <2>2. \A k \in 1..Len(q) : a[k] # x
    BY <1>1, <1>2, <2>1 DEF ToSet
  <2>3. CASE i = Len(q) + 1
    BY <1>1, <1>3, <2>1, <2>2, <2>3
  <2>4. CASE j = Len(q) + 1
    BY <1>1, <1>3, <2>1, <2>2, <2>4
  <2>5. CASE i \in 1..Len(q) /\ j \in 1..Len(q)
    BY <1>1, <1>2, <2>1, <2>5 DEF IsInjective
  <2>6. QED
    BY <1>3, <2>3, <2>4, <2>5
<1>6. QED
  BY <1>1, <1>4, <1>5 DEF a

\* A list without its last.
LEMMA ListShortened ==
  ASSUME NEW S, NEW q \in Seq(S), q # <<>>
  PROVE  /\ Last(q) \in S /\ Last(q) \in ToSet(q) /\ Len(q) \in Nat \ {0}
         /\ Front(q) \in Seq(S) /\ Len(Front(q)) = Len(q) - 1
         /\ \A i \in 1..(Len(q) - 1) : Front(q)[i] = q[i]
         /\ IsInjective(q) => IsInjective(Front(q))
         /\ IsInjective(q) =>
              \A y : y \in ToSet(Front(q)) <=> y \in ToSet(q) /\ y # Last(q)
<1> DEFINE f == Front(q)
           l == Last(q)
<1>1. Len(q) \in Nat \ {0} /\ DOMAIN q = 1..Len(q)
  OBVIOUS
<1>2. l = q[Len(q)] /\ l \in S
  BY <1>1 DEF Last
<1>3. f \in Seq(S) /\ Len(f) = Len(q) - 1 /\ \A i \in 1..(Len(q) - 1) : f[i] = q[i]
  <2>1. f = [i \in 1..(Len(q) - 1) |-> q[i]]
    BY <1>1 DEF Front
  <2>2. \A i \in 1..(Len(q) - 1) : q[i] \in S
    BY <1>1
  <2> HIDE DEF f
  <2>3. QED
    BY <1>1, <2>1, <2>2
<1> HIDE DEF f, l
<1>4. DOMAIN f = 1..(Len(q) - 1)
  BY <1>1, <1>3
<1>5. l \in ToSet(q)
  BY <1>1, <1>2 DEF ToSet
<1>0. \A n \in Nat \ {0} :
        /\ \A i \in 1..(n - 1) : i \in 1..n /\ i # n
        /\ \A i \in 1..n : i \in 1..(n - 1) \/ i = n
  OBVIOUS
<1>6. \A i \in 1..(Len(q) - 1) : i \in 1..Len(q) /\ i # Len(q)
  BY <1>1, <1>0
<1>7. \A i \in 1..Len(q) : i \in 1..(Len(q) - 1) \/ i = Len(q)
  BY <1>1, <1>0
<1>8. IsInjective(q) => IsInjective(f)
  BY <1>1, <1>3, <1>4, <1>6 DEF IsInjective
<1>9. ASSUME IsInjective(q) PROVE \A y : y \in ToSet(f) <=> y \in ToSet(q) /\ y # l
  <2>1. ASSUME NEW y, y \in ToSet(f) PROVE y \in ToSet(q) /\ y # l
    <3>1. PICK i \in 1..(Len(q) - 1) : f[i] = y
      BY <1>4, <2>1 DEF ToSet
    <3>2. i \in 1..Len(q) /\ i # Len(q) /\ q[i] = y
      BY <1>3, <1>6, <3>1
    <3>3. Len(q) \in 1..Len(q)
      BY <1>1
    <3>4. QED
      BY <1>1, <1>2, <1>9, <3>2, <3>3 DEF ToSet, IsInjective
  <2>2. ASSUME NEW y, y \in ToSet(q), y # l PROVE y \in ToSet(f)
    <3>1. PICK i \in 1..Len(q) : q[i] = y
      BY <1>1, <2>2 DEF ToSet
    <3>2. i \in 1..(Len(q) - 1)
      BY <1>2, <1>7, <2>2, <3>1
    <3>3. QED
      BY <1>3, <1>4, <3>1, <3>2 DEF ToSet
  <2>3. QED
    BY <2>1, <2>2
<1>10. QED
  BY <1>1, <1>2, <1>3, <1>5, <1>8, <1>9 DEF f, l

\* The types of the walk.
WalkTypeOK ==
  /\ targets \in Seq(Path) /\ IsInjective(targets)
  /\ direct \in [Listed -> Seq(Path)]
  /\ caller \in Listed \cup {Nobody}
  /\ visited \subseteq Listed
  /\ order \in Seq(Listed)
  /\ path \in Seq(Listed \cup {Nobody})
  /\ next \in [Listed \cup {Nobody} -> Nat \ {0}]

\* What was visited is on the stack or in the order, once.
StackInv ==
  /\ path # <<>> => path[1] = caller
  /\ IsInjective(path) /\ IsInjective(order)
  /\ \A q \in ToSet(order) : q \notin ToSet(path) /\ q # caller
  /\ \A q \in Listed :
       q \in visited <=> q \in ToSet(order) \/ q \in ToSet(path) \/ q = caller

\* What the loops have gone over was visited, all of it once they are over.
LoopInv ==
  /\ \A m \in ToSet(path) : \A j \in 1..(next[m] - 1) :
       j <= Len(Deps(m)) /\ Deps(m)[j] \in Listed => Deps(m)[j] \in visited
  /\ \A m \in ToSet(order) : Needs(m) \subseteq visited
  /\ path = <<>> => Needs(caller) \subseteq visited
  /\ \A m \in Listed : m \notin visited => next[m] = 1

\* The stack is a chain of dependencies.
BelowInv ==
  /\ caller \in Listed => \A q \in visited : q # caller => q \in Below(caller)
  /\ \A i, j \in 1..Len(path) : i < j /\ path[i] # Nobody => path[j] \in Below(path[i])

\* So that without a cycle all that a module needs has come before it.
NeededBefore ==
  Acyclic => \A j \in 1..Len(order) : \A d \in Needs(order[j]) : \E i \in 1..(j - 1) : order[i] = d

\* The main module is visited first, and is the last to return.
MainInv ==
  caller = Nobody /\ targets # <<>> =>
    \/ path = <<Nobody>> /\ order = <<>> /\ visited = {} /\ next[Nobody] = 1
    \/ Len(path) >= 2 /\ path[2] = Head(targets) /\ next[Nobody] > 1
    \/ /\ path \in {<<>>, <<Nobody>>} /\ next[Nobody] > 1
       /\ order # <<>> /\ Last(order) = Head(targets)

\* The inductive invariant of the walk.
WalkInv == WalkTypeOK /\ StackInv /\ LoopInv /\ BelowInv /\ NeededBefore /\ MainInv

\* Lists by their places.
LEMMA ListHas ==
  ASSUME NEW S, NEW q \in Seq(S)
  PROVE  /\ Len(q) \in Nat /\ ToSet(q) \subseteq S
         /\ \A y : y \in ToSet(q) <=> \E i \in 1..Len(q) : q[i] = y
         /\ IsInjective(q) <=> \A i, j \in 1..Len(q) : q[i] = q[j] => i = j
<1>1. Len(q) \in Nat /\ DOMAIN q = 1..Len(q) /\ \A i \in 1..Len(q) : q[i] \in S
  OBVIOUS
<1>2. QED
  BY <1>1 DEF ToSet, IsInjective

\* The build list stays as it is, and with it the graph.
LEMMA GraphIsKept ==
  ASSUME UNCHANGED input
  PROVE  /\ targets' = targets /\ direct' = direct /\ Listed' = Listed
         /\ \A p : Deps(p)' = Deps(p) /\ Needs(p)' = Needs(p) /\ Below(p)' = Below(p)
         /\ Acyclic' <=> Acyclic
<1>1. targets' = targets /\ direct' = direct /\ Listed' = Listed
  BY DEF input, Listed
<1>2. \A p : Deps(p)' = Deps(p)
  BY <1>1 DEF Deps
<1>3. \A p : Needs(p)' = Needs(p)
  BY <1>1, <1>2 DEF Needs
<1>4. \A S : Closed(S)' <=> Closed(S)
  BY <1>3 DEF Closed
<1>5. \A p : Below(p)' = Below(p)
  BY <1>1, <1>3, <1>4 DEF Below
<1>6. QED
  BY <1>1, <1>2, <1>3, <1>5 DEF Acyclic

\* What a loop goes over.
LEMMA DepsAreListed ==
  ASSUME WalkTypeOK
  PROVE  /\ Nobody \notin Listed /\ Listed \subseteq Path
         /\ \A p \in Listed \cup {Nobody} : Deps(p) \in Seq(Path) /\ Len(Deps(p)) \in Nat
         /\ \A p \in Listed \cup {Nobody} : \A d :
              d \in Needs(p) <=> d \in Listed /\ \E j \in 1..Len(Deps(p)) : Deps(p)[j] = d
         /\ targets # <<>> =>
              /\ Head(targets) \in Listed
              /\ Len(Deps(Nobody)) = 1 /\ Deps(Nobody)[1] = Head(targets)
              /\ \A q \in Listed : q = Head(targets) \/ q \in Needs(Head(targets))
<1>1. targets \in Seq(Path) /\ direct \in [Listed -> Seq(Path)]
  BY DEF WalkTypeOK
<1>2. Listed \subseteq Path /\ \A y : y \in Listed <=> \E i \in 1..Len(targets) : targets[i] = y
  BY <1>1, ListHas DEF Listed
<1>3. Nobody \notin Listed
  BY <1>2, InputAssumption
<1>4. targets # <<>> => Head(targets) \in Listed /\ Head(targets) \in Path /\ Tail(targets) \in Seq(Path)
  <2>1. SUFFICES ASSUME targets # <<>>
                 PROVE  Head(targets) \in Listed /\ Head(targets) \in Path /\ Tail(targets) \in Seq(Path)
    OBVIOUS
  <2>2. Len(targets) \in Nat \ {0} /\ Head(targets) = targets[1] /\ Tail(targets) \in Seq(Path)
    BY <1>1, <2>1
  <2>3. 1 \in 1..Len(targets)
    BY <2>2
  <2>4. QED
    BY <1>2, <2>2, <2>3
<1>5. targets = <<>> => Listed = {}
  BY <1>2
<1>6. ASSUME NEW p \in Listed \cup {Nobody}
      PROVE  Deps(p) \in Seq(Path) /\ Len(Deps(p)) \in Nat
  <2>1. CASE p = Nobody /\ targets = <<>>
    BY <2>1 DEF Deps
  <2>2. CASE p = Nobody /\ targets # <<>>
    BY <1>4, <2>2 DEF Deps
  <2>3. CASE p # Nobody /\ p = Head(targets)
    BY <1>4, <1>5, <1>6, <2>3 DEF Deps
  <2>4. CASE p # Nobody /\ p # Head(targets)
    <3>1. Deps(p) = direct[p] /\ p \in Listed
      BY <2>4, <1>6 DEF Deps
    <3>2. QED
      BY <1>1, <3>1
  <2>5. QED
    BY <2>1, <2>2, <2>3, <2>4
<1>7. ASSUME NEW p \in Listed \cup {Nobody}, NEW d
      PROVE  d \in Needs(p) <=> d \in Listed /\ \E j \in 1..Len(Deps(p)) : Deps(p)[j] = d
  BY <1>6, ListHas DEF Needs
<1>8. ASSUME targets # <<>>
      PROVE  /\ Len(Deps(Nobody)) = 1 /\ Deps(Nobody)[1] = Head(targets)
             /\ \A q \in Listed : q = Head(targets) \/ q \in Needs(Head(targets))
  <2>1. Deps(Nobody) = <<Head(targets)>>
    BY <1>8 DEF Deps
  <2>2. Deps(Head(targets)) = Tail(targets)
    BY <1>3, <1>4, <1>8 DEF Deps
  <2>3. ASSUME NEW q \in Listed, q # Head(targets) PROVE q \in Needs(Head(targets))
    <3>1. PICK i \in 1..Len(targets) : targets[i] = q
      BY <1>2, <2>3
    <3>2. Len(targets) \in Nat /\ Len(Tail(targets)) = Len(targets) - 1 /\ Head(targets) = targets[1]
      BY <1>1, <1>8
    <3>3. i # 1 /\ i - 1 \in 1..(Len(targets) - 1) /\ i = (i - 1) + 1
      BY <2>3, <3>1, <3>2
    <3>4. Tail(targets)[i - 1] = targets[i]
      BY <1>1, <1>8, <3>2, <3>3
    <3>5. Len(Deps(Head(targets))) = Len(targets) - 1 /\ Deps(Head(targets))[i - 1] = q
      BY <2>2, <3>1, <3>2, <3>4
    <3>6. i - 1 \in 1..Len(Deps(Head(targets))) /\ Head(targets) \in Listed \cup {Nobody}
      BY <1>4, <1>8, <3>3, <3>5
    <3>7. QED
      BY <1>7, <3>5, <3>6
  <2>4. QED
    BY <2>1, <2>3
<1>9. QED
  BY <1>2, <1>3, <1>4, <1>6, <1>7, <1>8

\* What a module depends on, directly or not.
LEMMA BelowIsLeast ==
  ASSUME NEW p
  PROVE  /\ Below(p) \subseteq Listed /\ Needs(p) \subseteq Below(p)
         /\ \A q \in Below(p) : Needs(q) \subseteq Below(p) /\ Below(q) \subseteq Below(p)
         /\ \A S \in SUBSET Listed : Needs(p) \subseteq S /\ Closed(S) => Below(p) \subseteq S
<1>1. Below(p) \subseteq Listed /\ Needs(p) \subseteq Below(p)
  BY DEF Below, Needs
<1>2. \A S \in SUBSET Listed : Needs(p) \subseteq S /\ Closed(S) => Below(p) \subseteq S
  BY DEF Below
<1>3. ASSUME NEW q \in Below(p), NEW d \in Needs(q) PROVE d \in Below(p)
  <2>1. d \in Listed
    BY <1>3 DEF Needs
  <2>2. ASSUME NEW S \in SUBSET Listed, Needs(p) \subseteq S, Closed(S) PROVE d \in S
    BY <1>2, <1>3, <2>2 DEF Closed
  <2>3. QED
    BY <2>1, <2>2 DEF Below
<1>4. Closed(Below(p))
  BY <1>3 DEF Closed
<1>5. \A q \in Below(p) : Below(q) \subseteq Below(p)
  BY <1>1, <1>3, <1>4 DEF Below
<1>6. QED
  BY <1>1, <1>2, <1>3, <1>5

\* A walk that starts.
Fresh ==
  /\ targets \in Seq(Path) /\ IsInjective(targets)
  /\ direct \in [Listed -> Seq(Path)]
  /\ caller \in Listed \cup {Nobody}
  /\ visited = {caller} \cap Listed
  /\ order = <<>>
  /\ path = <<caller>>
  /\ next = [q \in Listed \cup {Nobody} |-> 1]

\* It satisfies the invariant: nothing has been visited but the caller.
LEMMA FreshWalk == Fresh => WalkInv
<1>1. SUFFICES ASSUME Fresh PROVE WalkInv
  OBVIOUS
<1>2. WalkTypeOK
  BY <1>1 DEF Fresh, WalkTypeOK
<1>3. Nobody \notin Listed
  BY <1>2, DepsAreListed
<1>4. /\ ToSet(path) = {caller} /\ ToSet(order) = {} /\ Len(path) = 1 /\ Len(order) = 0
      /\ path[1] = caller /\ path # <<>>
  BY <1>1 DEF Fresh, ToSet
<1>5. IsInjective(path) /\ IsInjective(order)
  BY <1>1 DEF Fresh, IsInjective
<1>6. StackInv
  BY <1>1, <1>3, <1>4, <1>5 DEF Fresh, StackInv
<1>7. LoopInv
  <2>1. \A m \in Listed \cup {Nobody} : next[m] = 1
    BY <1>1 DEF Fresh
  <2>2. \A m \in ToSet(path) : 1..(next[m] - 1) = {}
    BY <1>1, <1>4, <2>1 DEF Fresh
  <2>3. QED
    BY <1>4, <2>1, <2>2 DEF LoopInv
<1>8. BelowInv
  BY <1>1, <1>4 DEF Fresh, BelowInv
<1>9. NeededBefore
  BY <1>4 DEF NeededBefore
<1>10. MainInv
  BY <1>1, <1>3 DEF Fresh, MainInv
<1>11. QED
  BY <1>2, <1>6, <1>7, <1>8, <1>9, <1>10 DEF WalkInv

\* constructBuildList starts one.
LEMMA WalkStarts == Init => WalkInv
<1>1. SUFFICES ASSUME Init PROVE Fresh
  BY FreshWalk
<1>2. PICK g \in Input :
        /\ targets = g.targets /\ direct = g.direct
        /\ caller = Nobody
        /\ visited = {}
        /\ order = <<>>
        /\ path = <<Nobody>>
        /\ next = [q \in ToSet(g.targets) \cup {Nobody} |-> 1]
  BY <1>1 DEF Init
<1>3. Nobody \notin Listed
  BY <1>2, ListHas, InputAssumption DEF Listed
<1>4. QED
  BY <1>2, <1>3, InputAssumption DEF Fresh, Listed

\* So does resolveModTransitiveDeps.
LEMMA ResolveKeepsWalk ==
  ASSUME WalkInv, NEW mod \in Listed, ResolveModTransitiveDeps(mod)
  PROVE  WalkInv'
<1>1. /\ caller' = mod /\ visited' = {mod} /\ order' = <<>> /\ path' = <<mod>>
      /\ next' = [q \in Listed \cup {Nobody} |-> 1] /\ UNCHANGED input
  BY DEF ResolveModTransitiveDeps, StartWalk
<1>2. targets' = targets /\ direct' = direct /\ Listed' = Listed
  BY <1>1, GraphIsKept
<1>3. Fresh'
  BY <1>1, <1>2 DEF Fresh, WalkInv, WalkTypeOK
<1>4. QED
  BY <1>3, FreshWalk, PTL

\* The loop on top of the stack.
LEMMA LoopOnTop ==
  ASSUME WalkInv, path # <<>>
  PROVE  /\ Len(path) \in Nat \ {0} /\ Top = path[Len(path)] /\ Top \in ToSet(path)
         /\ Top \in Listed \cup {Nobody} /\ next[Top] \in Nat \ {0}
         /\ Top \in Listed => Top \in visited
         /\ Len(path) = 1 <=> Top = caller
         /\ Len(path) > 1 => Top \in Listed
         /\ path[1] = caller /\ caller \in ToSet(path)
         /\ \A y : y \in ToSet(path) <=> \E i \in 1..Len(path) : path[i] = y
         /\ ToSet(path) \subseteq Listed \cup {Nobody}
<1>1. path \in Seq(Listed \cup {Nobody}) /\ next \in [Listed \cup {Nobody} -> Nat \ {0}]
  BY DEF WalkInv, WalkTypeOK
<1>2. /\ Len(path) \in Nat \ {0} /\ Top = path[Len(path)] /\ Top \in ToSet(path)
      /\ Top \in Listed \cup {Nobody}
  <2>1. Top = path[Len(path)]
    BY DEF Top, Last
  <2>2. QED
    BY <1>1, <2>1, ListShortened DEF Top
<1>3. /\ ToSet(path) \subseteq Listed \cup {Nobody}
      /\ \A y : y \in ToSet(path) <=> \E i \in 1..Len(path) : path[i] = y
  BY <1>1, ListHas
<1>4. path[1] = caller /\ IsInjective(path)
  BY DEF WalkInv, StackInv
<1>5. 1 \in 1..Len(path) /\ Len(path) \in 1..Len(path)
  BY <1>2
<1>6. \A i, j \in 1..Len(path) : path[i] = path[j] => i = j
  BY <1>1, <1>4, ListHas
<1>7. Len(path) = 1 <=> Top = caller
  BY <1>2, <1>4, <1>5, <1>6
<1>8. caller \in ToSet(path)
  BY <1>3, <1>4, <1>5
<1>9. Top \in Listed => Top \in visited
  BY <1>2 DEF WalkInv, StackInv
<1>10. ASSUME Len(path) > 1 PROVE Top \in Listed
  <2>1. CASE path[1] = Nobody
    BY <1>2, <1>4, <1>7, <1>10, <2>1
  <2>2. CASE path[1] # Nobody
    <3>1. Top \in Below(path[1])
      BY <1>2, <1>5, <1>10, <2>2 DEF WalkInv, BelowInv
    <3>2. QED
      BY <3>1, BelowIsLeast
  <2>3. QED
    BY <2>1, <2>2
<1>11. QED
  BY <1>1, <1>2, <1>3, <1>4, <1>7, <1>8, <1>9, <1>10

\* A round that skips its dependency keeps the invariant.
LEMMA SkipKeepsWalk ==
  ASSUME WalkInv, Skip
  PROVE  WalkInv'
<1>1. /\ path # <<>> /\ next[Top] <= Len(Deps(Top))
      /\ Deps(Top)[next[Top]] \notin Listed \ visited
      /\ next' = [next EXCEPT ![Top] = @ + 1]
      /\ UNCHANGED input /\ caller' = caller /\ visited' = visited /\ order' = order /\ path' = path
  BY DEF Skip, Looping, Now
<1>2. /\ targets' = targets /\ direct' = direct /\ Listed' = Listed
      /\ \A p : Deps(p)' = Deps(p) /\ Needs(p)' = Needs(p) /\ Below(p)' = Below(p)
      /\ Acyclic' <=> Acyclic
  BY <1>1, GraphIsKept
<1>3. WalkTypeOK /\ StackInv /\ LoopInv /\ BelowInv /\ NeededBefore /\ MainInv
  BY DEF WalkInv
<1>4. /\ Top \in ToSet(path) /\ Top \in Listed \cup {Nobody} /\ next[Top] \in Nat \ {0}
      /\ Top \in Listed => Top \in visited
      /\ ToSet(path) \subseteq Listed \cup {Nobody}
  BY <1>1, LoopOnTop
<1>5. next \in [Listed \cup {Nobody} -> Nat \ {0}]
  BY <1>3 DEF WalkTypeOK
<1>6. /\ next' \in [Listed \cup {Nobody} -> Nat \ {0}]
      /\ next'[Top] = next[Top] + 1
      /\ \A m \in Listed \cup {Nobody} : m # Top => next'[m] = next[m]
  BY <1>1, <1>4, <1>5
<1>7. WalkTypeOK'
  BY <1>1, <1>2, <1>3, <1>6 DEF WalkTypeOK
<1>8. StackInv'
  BY <1>1, <1>2, <1>3 DEF StackInv
<1>9. LoopInv'
  <2>1. ASSUME NEW m \in ToSet(path), NEW j \in 1..(next'[m] - 1),
               j <= Len(Deps(m)), Deps(m)[j] \in Listed
        PROVE  Deps(m)[j] \in visited
    <3>1. CASE m # Top
      BY <1>3, <1>4, <1>6, <2>1, <3>1 DEF LoopInv
    <3>2. CASE m = Top
      <4>1. j \in 1..(next[Top] - 1) \/ j = next[Top]
        BY <1>4, <1>6, <2>1, <3>2
      <4>2. QED
        BY <1>1, <1>3, <2>1, <3>2, <4>1 DEF LoopInv
    <3>3. QED
      BY <3>1, <3>2
  <2>2. \A m \in Listed : m \notin visited => next'[m] = 1
    BY <1>3, <1>4, <1>6 DEF LoopInv
  <2>3. QED
    BY <1>1, <1>2, <1>3, <2>1, <2>2 DEF LoopInv
<1>10. BelowInv' /\ NeededBefore'
  BY <1>1, <1>2, <1>3 DEF BelowInv, NeededBefore
<1>11. MainInv'
  <2>1. SUFFICES ASSUME caller = Nobody, targets # <<>>
                 PROVE  MainInv'
    BY <1>1, <1>2 DEF MainInv
  <2>2. /\ Head(targets) \in Listed
        /\ Deps(Nobody)[1] = Head(targets)
    BY <1>3, <2>1, DepsAreListed
  <2>3. ~(path = <<Nobody>> /\ visited = {} /\ next[Nobody] = 1)
    <3>1. path = <<Nobody>> => Top = Nobody
      BY DEF Top, Last
    <3>2. QED
      BY <1>1, <2>2, <3>1
  <2>4. next[Nobody] > 1 => next'[Nobody] > 1
    BY <1>4, <1>5, <1>6
  <2>5. QED
    BY <1>1, <1>2, <1>3, <2>1, <2>3, <2>4 DEF MainInv
<1>12. QED
  BY <1>7, <1>8, <1>9, <1>10, <1>11 DEF WalkInv

\* So does a call of visit: what is called depends on every call below it.
LEMMA VisitKeepsWalk ==
  ASSUME WalkInv, Visit
  PROVE  WalkInv'
<1> DEFINE d == Deps(Top)[next[Top]]
<1>1. /\ path # <<>> /\ next[Top] <= Len(Deps(Top))
      /\ d \in Listed /\ d \notin visited
      /\ visited' = visited \cup {d}
      /\ path' = Append(path, d)
      /\ next' = [next EXCEPT ![Top] = @ + 1]
      /\ UNCHANGED input /\ caller' = caller /\ order' = order
  BY DEF Visit, Looping, Now
<1>2. /\ targets' = targets /\ direct' = direct /\ Listed' = Listed
      /\ \A p : Deps(p)' = Deps(p) /\ Needs(p)' = Needs(p) /\ Below(p)' = Below(p)
      /\ Acyclic' <=> Acyclic
  BY <1>1, GraphIsKept
<1>3. WalkTypeOK /\ StackInv /\ LoopInv /\ BelowInv /\ NeededBefore /\ MainInv
  BY DEF WalkInv
<1>4. /\ Len(path) \in Nat \ {0} /\ Top = path[Len(path)]
      /\ Top \in ToSet(path) /\ Top \in Listed \cup {Nobody} /\ next[Top] \in Nat \ {0}
      /\ Top \in Listed => Top \in visited
      /\ path[1] = caller
      /\ ToSet(path) \subseteq Listed \cup {Nobody}
  BY <1>1, LoopOnTop
<1>5. /\ next \in [Listed \cup {Nobody} -> Nat \ {0}]
      /\ path \in Seq(Listed \cup {Nobody})
  BY <1>3 DEF WalkTypeOK
<1>6. /\ next' \in [Listed \cup {Nobody} -> Nat \ {0}]
      /\ next'[Top] = next[Top] + 1
      /\ \A m \in Listed \cup {Nobody} : m # Top => next'[m] = next[m]
  BY <1>1, <1>4, <1>5
<1>7. /\ d \in Needs(Top) /\ d # Nobody /\ d # Top
  <2>1. Nobody \notin Listed /\ Len(Deps(Top)) \in Nat
    BY <1>3, <1>4, DepsAreListed
  <2>2. next[Top] \in 1..Len(Deps(Top))
    BY <1>1, <1>4, <2>1
  <2>3. QED
    BY <1>1, <1>3, <1>4, <2>1, <2>2, DepsAreListed
<1> HIDE DEF d
<1>8. d \notin ToSet(path) /\ d \notin ToSet(order) /\ d # caller
  BY <1>1, <1>3 DEF StackInv
<1>9. /\ path' \in Seq(Listed \cup {Nobody}) /\ Len(path') = Len(path) + 1
      /\ \A i \in 1..Len(path) : path'[i] = path[i]
      /\ path'[Len(path) + 1] = d
      /\ \A y : y \in ToSet(path') <=> y \in ToSet(path) \/ y = d
      /\ IsInjective(path')
  BY <1>1, <1>3, <1>5, <1>8, ListAppended DEF StackInv
<1>10. WalkTypeOK'
  BY <1>1, <1>2, <1>3, <1>6, <1>9 DEF WalkTypeOK
<1>11. StackInv'
  <2>1. path'[1] = caller
    BY <1>4, <1>9
  <2>2. ToSet(order)' = ToSet(order) /\ (IsInjective(order))' = IsInjective(order)
    BY <1>1
  <2>3. QED
    BY <1>1, <1>2, <1>3, <1>8, <1>9, <2>1, <2>2 DEF StackInv
<1>12. LoopInv'
  <2>1. ASSUME NEW m \in ToSet(path'), NEW j \in 1..(next'[m] - 1),
               j <= Len(Deps(m)), Deps(m)[j] \in Listed
        PROVE  Deps(m)[j] \in visited'
    <3>1. CASE m = d
      <4>1. next'[d] = 1
        BY <1>1, <1>3, <1>6, <1>7 DEF LoopInv
      <4>2. QED
        BY <2>1, <3>1, <4>1
    <3>2. CASE m # d /\ m # Top
      BY <1>1, <1>3, <1>4, <1>6, <1>9, <2>1, <3>2 DEF LoopInv
    <3>3. CASE m = Top
      <4>1. j \in 1..(next[Top] - 1) \/ j = next[Top]
        BY <1>4, <1>6, <2>1, <3>3
      <4>2. CASE j = next[Top]
        BY <1>1, <3>3, <4>2 DEF d
      <4>3. CASE j \in 1..(next[Top] - 1)
        BY <1>1, <1>3, <1>4, <2>1, <3>3, <4>3 DEF LoopInv
      <4>4. QED
        BY <4>1, <4>2, <4>3
    <3>4. QED
      BY <3>1, <3>2, <3>3
  <2>2. \A m \in Listed : m \notin visited' => next'[m] = 1
    BY <1>1, <1>3, <1>4, <1>6 DEF LoopInv
  <2>3. path' # <<>>
    BY <1>4, <1>5, <1>9
  <2>4. \A m \in ToSet(order) : Needs(m) \subseteq visited'
    BY <1>1, <1>3 DEF LoopInv
  <2>5. ToSet(order') = ToSet(order)
    BY <1>1
  <2>6. QED
    BY <1>2, <2>1, <2>2, <2>3, <2>4, <2>5 DEF LoopInv
<1>13. BelowInv'
  <2>1. ASSUME NEW i \in 1..(Len(path) + 1), NEW j \in 1..(Len(path) + 1), i < j, path'[i] # Nobody
        PROVE  path'[j] \in Below(path'[i])
    <3>1. CASE j \in 1..Len(path)
      <4>1. i \in 1..Len(path)
        BY <1>4, <2>1, <3>1
      <4>2. QED
        BY <1>3, <1>9, <2>1, <3>1, <4>1 DEF BelowInv
    <3>2. CASE j = Len(path) + 1
      <4>1. i \in 1..Len(path) /\ path'[i] = path[i] /\ path'[j] = d
        BY <1>4, <1>9, <2>1, <3>2
      <4>2. CASE i = Len(path)
        BY <1>4, <1>7, <4>1, <4>2, BelowIsLeast
      <4>3. CASE i < Len(path)
        <5>1. Len(path) \in 1..Len(path)
          BY <1>4
        <5>2. Top \in Below(path[i])
          BY <1>3, <1>4, <2>1, <4>1, <4>3, <5>1 DEF BelowInv
        <5>3. QED
          BY <1>7, <4>1, <5>2, BelowIsLeast
      <4>4. QED
        BY <1>4, <4>1, <4>2, <4>3
    <3>3. QED
      BY <1>4, <2>1, <3>1, <3>2
  <2>2. caller \in Listed => d \in Below(caller)
    <3>1. 1 \in 1..(Len(path) + 1) /\ Len(path) + 1 \in 1..(Len(path) + 1) /\ 1 < Len(path) + 1
      BY <1>4
    <3>2. path'[1] = caller
      BY <1>4, <1>9
    <3>3. Nobody \notin Listed
      BY <1>3, DepsAreListed
    <3>4. QED
      BY <1>9, <2>1, <3>1, <3>2, <3>3
  <2>3. QED
    BY <1>1, <1>2, <1>3, <1>9, <2>1, <2>2 DEF BelowInv
<1>14. NeededBefore'
  <2>1. order' = order /\ NeededBefore
    BY <1>1, <1>3
  <2>2. QED
    BY <2>1, <1>2 DEF NeededBefore
<1>15. MainInv'
  <2>1. SUFFICES ASSUME caller = Nobody, targets # <<>>
                 PROVE  MainInv'
    BY <1>1, <1>2 DEF MainInv
  <2>2. /\ Len(Deps(Nobody)) = 1 /\ Deps(Nobody)[1] = Head(targets)
    BY <1>3, <2>1, DepsAreListed
  <2>3. path = <<Nobody>> => Top = Nobody /\ Len(path) = 1
    BY DEF Top, Last
  <2>4. CASE path = <<Nobody>> /\ next[Nobody] = 1
    <3>1. d = Head(targets)
      BY <2>2, <2>3, <2>4 DEF d
    <3>2. Len(path') = 2 /\ path'[2] = Head(targets) /\ next'[Nobody] = 2
      BY <1>6, <1>9, <2>3, <2>4, <3>1
    <3>3. QED
      BY <1>2, <3>2 DEF MainInv
  <2>5. CASE Len(path) >= 2 /\ path[2] = Head(targets) /\ next[Nobody] > 1
    <3>1. Len(path') >= 2 /\ path'[2] = Head(targets)
      BY <1>4, <1>9, <2>5
    <3>2. next'[Nobody] > 1
      BY <1>4, <1>5, <1>6, <2>5
    <3>3. QED
      BY <1>2, <3>1, <3>2 DEF MainInv
  <2>6. CASE path = <<Nobody>> /\ next[Nobody] > 1
    <3>1. next[Nobody] <= 1 /\ next[Nobody] \in Nat
      BY <1>1, <1>4, <2>2, <2>3, <2>6
    <3>2. QED
      BY <2>6, <3>1
  <2>7. QED
    BY <1>1, <1>3, <2>1, <2>4, <2>5, <2>6 DEF MainInv
<1>16. QED
  BY <1>10, <1>11, <1>12, <1>13, <1>14, <1>15 DEF WalkInv

\* So does a return.  What the module needs has been visited; if it were on
\* the stack the graph would have a cycle, so it is in the order.
LEMMA ReturnKeepsWalk ==
  ASSUME WalkInv, Return
  PROVE  WalkInv'
<1>1. /\ path # <<>> /\ next[Top] > Len(Deps(Top))
      /\ order' = IF Len(path) = 1 THEN order ELSE Append(order, Top)
      /\ path' = Front(path)
      /\ UNCHANGED input /\ caller' = caller /\ visited' = visited /\ next' = next
  BY DEF Return
<1>2. /\ targets' = targets /\ direct' = direct /\ Listed' = Listed
      /\ \A p : Deps(p)' = Deps(p) /\ Needs(p)' = Needs(p) /\ Below(p)' = Below(p)
      /\ Acyclic' <=> Acyclic
  BY <1>1, GraphIsKept
<1>3. WalkTypeOK /\ StackInv /\ LoopInv /\ BelowInv /\ NeededBefore /\ MainInv
  BY DEF WalkInv
<1>4. /\ Len(path) \in Nat \ {0} /\ Top = path[Len(path)]
      /\ Top \in ToSet(path) /\ Top \in Listed \cup {Nobody} /\ next[Top] \in Nat \ {0}
      /\ Len(path) = 1 <=> Top = caller
      /\ Len(path) > 1 => Top \in Listed
      /\ path[1] = caller /\ caller \in ToSet(path)
      /\ \A y : y \in ToSet(path) <=> \E i \in 1..Len(path) : path[i] = y
  BY <1>1, LoopOnTop
<1>5. /\ path' \in Seq(Listed \cup {Nobody}) /\ Len(path') = Len(path) - 1
      /\ \A i \in 1..(Len(path) - 1) : path'[i] = path[i]
      /\ IsInjective(path')
      /\ \A y : y \in ToSet(path') <=> y \in ToSet(path) /\ y # Top
  BY <1>1, <1>3, ListShortened DEF WalkTypeOK, StackInv, Top
<1>6. Needs(Top) \subseteq visited
  <2>1. SUFFICES ASSUME NEW q \in Needs(Top) PROVE q \in visited
    OBVIOUS
  <2>2. q \in Listed /\ Len(Deps(Top)) \in Nat
    BY <1>3, <1>4, DepsAreListed
  <2>3. PICK j \in 1..Len(Deps(Top)) : Deps(Top)[j] = q
    BY <1>3, <1>4, DepsAreListed
  <2>4. j \in 1..(next[Top] - 1) /\ j <= Len(Deps(Top))
    BY <1>1, <1>4, <2>2
  <2>5. QED
    BY <1>3, <1>4, <2>2, <2>3, <2>4 DEF LoopInv
<1>7. BelowInv'
  <2>1. ASSUME NEW i \in 1..(Len(path) - 1), NEW j \in 1..(Len(path) - 1), i < j, path'[i] # Nobody
        PROVE  path'[j] \in Below(path'[i])
    <3>1. i \in 1..Len(path) /\ j \in 1..Len(path)
      BY <1>4, <2>1
    <3>2. QED
      BY <1>3, <1>5, <2>1, <3>1 DEF BelowInv
  <2>2. QED
    BY <1>1, <1>2, <1>3, <1>5, <2>1 DEF BelowInv
<1>8. /\ \A m \in ToSet(path') : \A j \in 1..(next'[m] - 1) :
           j <= Len(Deps(m)) /\ Deps(m)[j] \in Listed => Deps(m)[j] \in visited'
      /\ \A m \in Listed : m \notin visited' => next'[m] = 1
  BY <1>1, <1>3, <1>5 DEF LoopInv
<1>9. CASE Len(path) = 1
  <2>1. order' = order /\ path' = <<>> /\ Top = caller
    BY <1>1, <1>4, <1>5, <1>9
  <2>2. ToSet(path') = {} /\ ToSet(order') = ToSet(order)
    BY <1>4, <1>5, <1>9, <2>1
  <2>3. \A y : y \in ToSet(path) <=> y = caller
    BY <1>4, <1>5, <2>1, <2>2
  <2>4. WalkTypeOK'
    BY <1>1, <1>2, <1>3, <1>5, <2>1 DEF WalkTypeOK
  <2>5. StackInv'
    BY <1>1, <1>2, <1>3, <1>5, <2>1, <2>2, <2>3 DEF StackInv
  <2>6. LoopInv'
    <3>1. \A m \in ToSet(order') : Needs(m) \subseteq visited'
      BY <1>1, <1>3, <2>2 DEF LoopInv
    <3>2. Needs(caller) \subseteq visited'
      BY <1>1, <1>6, <2>1
    <3>3. QED
      BY <1>1, <1>2, <1>8, <3>1, <3>2 DEF LoopInv
  <2>7. NeededBefore'
    <3>1. NeededBefore
      BY <1>3
    <3>2. QED
      BY <2>1, <1>2, <3>1 DEF NeededBefore
  <2>8. MainInv'
    <3>1. SUFFICES ASSUME caller = Nobody, targets # <<>>
                   PROVE  MainInv'
      BY <1>1, <1>2 DEF MainInv
    <3>2. Len(Deps(Nobody)) = 1
      BY <1>3, <3>1, DepsAreListed
    <3>3. next[Nobody] > 1
      BY <1>1, <1>4, <2>1, <3>1, <3>2
    <3>4. order # <<>> /\ Last(order) = Head(targets)
      BY <1>3, <1>9, <3>1, <3>3 DEF MainInv
    <3>5. QED
      BY <1>1, <1>2, <2>1, <3>3, <3>4 DEF MainInv
  <2>9. QED
    BY <1>7, <2>4, <2>5, <2>6, <2>7, <2>8 DEF WalkInv
<1>10. CASE Len(path) > 1
  <2>1. order' = Append(order, Top) /\ Top \in Listed /\ Top # caller
    BY <1>1, <1>4, <1>10
  <2>2. Top \notin ToSet(order)
    BY <1>3, <1>4 DEF StackInv
  <2>3. /\ order' \in Seq(Listed) /\ Len(order') = Len(order) + 1 /\ Len(order) \in Nat
        /\ \A i \in 1..Len(order) : order'[i] = order[i]
        /\ order'[Len(order) + 1] = Top
        /\ \A y : y \in ToSet(order') <=> y \in ToSet(order) \/ y = Top
        /\ IsInjective(order')
    BY <1>3, <2>1, <2>2, ListAppended DEF WalkTypeOK, StackInv
  <2>4. WalkTypeOK'
    BY <1>1, <1>2, <1>3, <1>5, <2>3 DEF WalkTypeOK
  <2>5. StackInv'
    <3>1. path'[1] = caller
      <4>1. 1 \in 1..(Len(path) - 1)
        BY <1>4, <1>10
      <4>2. QED
        BY <1>4, <1>5, <4>1
    <3>2. QED
      BY <1>1, <1>2, <1>3, <1>4, <1>5, <2>1, <2>3, <3>1 DEF StackInv
  <2>6. LoopInv'
    <3>1. \A m \in ToSet(order') : Needs(m) \subseteq visited'
      BY <1>1, <1>3, <1>6, <2>3 DEF LoopInv
    <3>2. path' # <<>>
      BY <1>4, <1>5, <1>10
    <3>3. QED
      BY <1>1, <1>2, <1>8, <3>1, <3>2 DEF LoopInv
  <2>7. NeededBefore'
    <3>1. SUFFICES ASSUME Acyclic,
                          NEW j \in 1..(Len(order) + 1), NEW d \in Needs(order'[j])
                   PROVE  \E i \in 1..(j - 1) : order'[i] = d
      BY <1>2, <2>3 DEF NeededBefore
    <3>2. CASE j \in 1..Len(order)
      <4>1. PICK i \in 1..(j - 1) : order[i] = d
        BY <1>3, <2>3, <3>1, <3>2 DEF NeededBefore
      <4>2. i \in 1..Len(order)
        BY <2>3, <3>2
      <4>3. QED
        BY <2>3, <4>1, <4>2
    <3>3. CASE j = Len(order) + 1
      <4>1. d \in Needs(Top) /\ d \in Listed
        BY <2>3, <3>1, <3>3 DEF Needs
      <4>2. d \in visited /\ d # Nobody
        BY <1>3, <1>6, <4>1, DepsAreListed
      <4>3. d \notin ToSet(path)
        <5>1. SUFFICES ASSUME NEW k \in 1..Len(path), path[k] = d
                       PROVE  FALSE
          BY <1>4
        <5>2. CASE k = Len(path)
          <6>1. d = Top
            BY <1>4, <5>1, <5>2
          <6>2. d \in Below(d)
            BY <4>1, <6>1, BelowIsLeast
          <6>3. QED
            BY <3>1, <4>1, <6>2 DEF Acyclic
        <5>3. CASE k < Len(path)
          <6>1. Len(path) \in 1..Len(path)
            BY <1>4
          <6>2. Top \in Below(d)
            BY <1>3, <1>4, <4>2, <5>1, <5>3, <6>1 DEF BelowInv
          <6>3. d \in Below(d)
            BY <4>1, <6>2, BelowIsLeast
          <6>4. QED
            BY <3>1, <4>1, <6>3 DEF Acyclic
        <5>4. QED
          BY <1>4, <5>2, <5>3
      <4>4. d \in ToSet(order)
        BY <1>3, <1>4, <4>1, <4>2, <4>3 DEF StackInv
      <4>5. PICK i \in 1..Len(order) : order[i] = d
        BY <1>3, <4>4, ListHas DEF WalkTypeOK
      <4>6. i \in 1..(j - 1)
        BY <2>3, <3>3
      <4>7. QED
        BY <2>3, <4>5, <4>6
    <3>4. QED
      BY <2>3, <3>1, <3>2, <3>3
  <2>8. MainInv'
    <3>1. SUFFICES ASSUME caller = Nobody, targets # <<>>
                   PROVE  MainInv'
      BY <1>1, <1>2 DEF MainInv
    <3>2. path[2] = Head(targets) /\ next[Nobody] > 1
      <4>1. path = <<Nobody>> => Len(path) = 1
        OBVIOUS
      <4>2. QED
        BY <1>1, <1>3, <1>4, <1>10, <3>1, <4>1 DEF MainInv
    <3>3. CASE Len(path) = 2
      <4>1. Top = Head(targets) /\ Len(path') = 1 /\ path'[1] = Nobody
        <5>1. 1 \in 1..(Len(path) - 1)
          BY <3>3
        <5>2. QED
          BY <1>4, <1>5, <3>1, <3>2, <3>3, <5>1
      <4>2. path' = <<Nobody>>
        BY <1>5, <4>1
      <4>3. order' # <<>> /\ Last(order') = Head(targets)
        <5>1. order' # <<>>
          BY <2>3
        <5>2. Last(order') = order'[Len(order) + 1]
          BY <2>3 DEF Last
        <5>3. QED
          BY <2>3, <4>1, <5>1, <5>2
      <4>4. QED
        BY <1>1, <1>2, <3>2, <4>2, <4>3 DEF MainInv
    <3>4. CASE Len(path) > 2
      <4>1. 2 \in 1..(Len(path) - 1) /\ Len(path') >= 2
        BY <1>4, <1>5, <3>4
      <4>2. path'[2] = Head(targets)
        BY <1>5, <3>2, <4>1
      <4>3. QED
        BY <1>1, <1>2, <3>2, <4>1, <4>2 DEF MainInv
    <3>5. \A n \in Nat : n > 1 => n = 2 \/ n > 2
      OBVIOUS
    <3>6. QED
      BY <1>4, <1>10, <3>3, <3>4, <3>5
  <2>9. QED
    BY <1>7, <2>4, <2>5, <2>6, <2>7, <2>8 DEF WalkInv
<1>11. QED
  BY <1>4, <1>9, <1>10

\* No step but those of the walk changes anything.
LEMMA WalkStutters == WalkInv /\ UNCHANGED orderVars => WalkInv'
<1>1. SUFFICES ASSUME WalkInv, UNCHANGED orderVars PROVE WalkInv'
  OBVIOUS
<1>2. /\ UNCHANGED input /\ caller' = caller /\ visited' = visited /\ order' = order
      /\ path' = path /\ next' = next
  BY <1>1 DEF orderVars
<1>3. /\ targets' = targets /\ direct' = direct /\ Listed' = Listed
      /\ \A p : Deps(p)' = Deps(p) /\ Needs(p)' = Needs(p) /\ Below(p)' = Below(p)
      /\ Acyclic' <=> Acyclic
  BY <1>2, GraphIsKept
<1>4. WalkTypeOK /\ StackInv /\ LoopInv /\ BelowInv /\ NeededBefore /\ MainInv
  BY <1>1 DEF WalkInv
<1>5. WalkTypeOK' /\ StackInv'
  BY <1>2, <1>3, <1>4 DEF WalkTypeOK, StackInv
<1>6. LoopInv'
  BY <1>2, <1>3, <1>4 DEF LoopInv
<1>7. BelowInv' /\ NeededBefore'
  BY <1>2, <1>3, <1>4 DEF BelowInv, NeededBefore
<1>8. MainInv'
  BY <1>2, <1>3, <1>4 DEF MainInv
<1>9. QED
  BY <1>5, <1>6, <1>7, <1>8 DEF WalkInv

\* At every round of every walk over every build list, with any number of
\* modules and whatever cycles the requirements have: what visit was called
\* for is on the stack or in the order, once, its dependencies are visited,
\* and the stack is a chain of dependencies.
THEOREM WalkInvariance == Spec => []WalkInv
<1>1. WalkInv /\ [Next]_orderVars => WalkInv'
  <2>1. SUFFICES ASSUME WalkInv, [Next]_orderVars PROVE WalkInv'
    OBVIOUS
  <2>2. CASE Skip
    BY <2>1, <2>2, SkipKeepsWalk
  <2>3. CASE Visit
    BY <2>1, <2>3, VisitKeepsWalk
  <2>4. CASE Return
    BY <2>1, <2>4, ReturnKeepsWalk
  <2>5. CASE \E mod \in Listed : ResolveModTransitiveDeps(mod)
    BY <2>1, <2>5, ResolveKeepsWalk
  <2>6. CASE UNCHANGED orderVars
    BY <2>1, <2>6, WalkStutters
  <2>7. QED
    BY <2>1, <2>2, <2>3, <2>4, <2>5, <2>6 DEF Next
<1>2. QED
  BY <1>1, WalkStarts, PTL DEF Spec

\* On an acyclic graph what comes before a module is closed.
LEMMA NeededThenOrdered ==
  ASSUME WalkInv, Acyclic
  PROVE  DepsFirst
<1>1. /\ order \in Seq(Listed) /\ Len(order) \in Nat /\ DOMAIN order = 1..Len(order)
      /\ ToSet(order) \subseteq Listed
      /\ \A i \in 1..Len(order) : order[i] \in Listed
      /\ \A i, j \in 1..Len(order) : order[i] = order[j] => i = j
  BY ListHas DEF WalkInv, WalkTypeOK, StackInv
<1>2. SUFFICES ASSUME NEW i \in 1..Len(order), NEW j \in 1..Len(order), i < j,
                      order[j] \in Below(order[i])
               PROVE  FALSE
  BY <1>1 DEF DepsFirst
<1> DEFINE S == {order[k] : k \in 1..(i - 1)}
<1>3. \A k \in 1..(i - 1) : k \in 1..Len(order) /\ 1..(k - 1) \subseteq 1..(i - 1)
  BY <1>1
<1>4. S \subseteq Listed
  BY <1>1, <1>3
<1>5. \A k \in 1..Len(order) : \A d \in Needs(order[k]) : \E l \in 1..(k - 1) : order[l] = d
  BY DEF WalkInv, NeededBefore
<1>6. Needs(order[i]) \subseteq S
  BY <1>5
<1>7. Closed(S)
  <2>1. ASSUME NEW k \in 1..(i - 1), NEW d \in Needs(order[k]) PROVE d \in S
    BY <1>3, <1>5, <2>1
  <2>2. QED
    BY <2>1 DEF Closed
<1>8. order[j] \in S
  BY <1>2, <1>4, <1>6, <1>7, BelowIsLeast
<1>9. PICK k \in 1..(i - 1) : order[k] = order[j]
  BY <1>8
<1>10. k = j
  BY <1>1, <1>3, <1>9
<1>11. QED
  BY <1>1, <1>2, <1>9, <1>10

\* Whatever the build list, every module of it is locked and built, once,
\* the main module last and on an acyclic graph each after all it depends on.
THEOREM BuildOrderIsTopological == Spec => []OrderIsTopological
<1>1. WalkInv => OrderIsTopological
  <2>1. SUFFICES ASSUME WalkInv, Finished, caller = Nobody PROVE OrderIsTopological
    BY DEF OrderIsTopological
  <2>2. WalkTypeOK /\ StackInv /\ LoopInv /\ MainInv /\ path = <<>>
    BY <2>1 DEF WalkInv, Finished
  <2>3. targets # <<>> => order # <<>> /\ Last(order) = Head(targets)
    BY <2>1, <2>2 DEF MainInv
  <2>4. ToSet(order) \subseteq Listed /\ ToSet(path) = {}
    <3>1. ToSet(path) = {}
      BY <2>2 DEF ToSet
    <3>2. QED
      BY <2>2, <3>1, ListHas DEF WalkTypeOK
  <2>5. ASSUME NEW q \in Listed PROVE q \in ToSet(order)
    <3>1. targets # <<>>
      BY <2>5 DEF Listed, ToSet
    <3>2. Head(targets) \in ToSet(order)
      BY <2>2, <2>3, <3>1, ListShortened DEF WalkTypeOK
    <3>3. q = Head(targets) \/ q \in Needs(Head(targets))
      BY <2>2, <3>1, DepsAreListed
    <3>4. q # Nobody
      BY <2>2, DepsAreListed
    <3>5. QED
      BY <2>1, <2>2, <2>4, <3>2, <3>3, <3>4 DEF StackInv, LoopInv
  <2>6. IsInjective(order) /\ ToSet(order) = Listed
    BY <2>2, <2>4, <2>5 DEF StackInv
  <2>7. Acyclic => DepsFirst
    BY <2>1, NeededThenOrdered
  <2>8. QED
    BY <2>3, <2>6, <2>7 DEF OrderIsTopological
<1>2. QED
  BY <1>1, WalkInvariance, PTL

\* Whatever the build list, OnBuild gets all that its module depends on and
\* nothing else, once each, on an acyclic graph dependencies first.
THEOREM BuildDepsComplete == Spec => []DepsGivenComplete
<1>1. WalkInv => DepsGivenComplete
  <2>1. SUFFICES ASSUME WalkInv, Finished, caller \in Listed PROVE DepsGivenComplete
    BY DEF DepsGivenComplete
  <2>2. WalkTypeOK /\ StackInv /\ LoopInv /\ BelowInv /\ path = <<>>
    BY <2>1 DEF WalkInv, Finished
  <2>3. ToSet(order) \subseteq Listed /\ ToSet(path) = {} /\ visited \subseteq Listed
    <3>1. ToSet(path) = {}
      BY <2>2 DEF ToSet
    <3>2. ToSet(order) \subseteq Listed
      BY <2>2, ListHas DEF WalkTypeOK
    <3>3. QED
      BY <2>2, <3>1, <3>2 DEF WalkTypeOK
  <2>4. \A q \in Listed : q \in visited <=> q \in ToSet(order) \/ q = caller
    BY <2>2, <2>3 DEF StackInv
  <2>5. Needs(caller) \subseteq visited /\ Closed(visited)
    BY <2>2, <2>3, <2>4 DEF LoopInv, Closed
  <2>6. Below(caller) \subseteq visited
    BY <2>3, <2>5, BelowIsLeast
  <2>7. ASSUME NEW q PROVE q \in ToSet(order) <=> q \in Below(caller) \ {caller}
    <3>1. q \in ToSet(order) => q # caller /\ q \in visited
      BY <2>2, <2>3, <2>4 DEF StackInv
    <3>2. QED
      BY <2>1, <2>2, <2>3, <2>4, <2>6, <3>1 DEF BelowInv
  <2>8. IsInjective(order) /\ ToSet(order) = Below(caller) \ {caller}
    BY <2>2, <2>7 DEF StackInv
  <2>9. Acyclic => DepsFirst
    BY <2>1, NeededThenOrdered
  <2>10. QED
    BY <2>8, <2>9 DEF DepsGivenComplete
<1>2. QED
  BY <1>1, WalkInvariance, PTL

-----------------------------------------------------------------------------
(* Version texts: gnu.Compare. *)

\* Versions have no NUL in them.
Text == Seq(1..255)

\* What is at the positions of a text.
LEMMA AtIs ==
  ASSUME NEW s \in Text, NEW i \in Position
  PROVE  /\ Len(s) \in Nat /\ At(s, i) \in 0..255
         /\ i <= Len(s) => At(s, i) = s[i] /\ At(s, i) # 0
         /\ i > Len(s) => At(s, i) = 0
         /\ DigitAt(s, i) <=> IsDigit(At(s, i))
         /\ OtherAt(s, i) <=> At(s, i) # 0 /\ ~IsDigit(At(s, i))
<1>0. \A S : \A q \in Seq(S) : Len(q) \in Nat /\ \A j \in 1..Len(q) : q[j] \in S
  OBVIOUS
<1>1. Len(s) \in Nat /\ i \in Nat \ {0} /\ \A j \in 1..Len(s) : s[j] \in 1..255
  BY <1>0 DEF Text, Position
<1>2. ~IsDigit(0)
  BY DEF IsDigit
<1>3. CASE i <= Len(s)
  <2>1. At(s, i) = s[i]
    BY <1>3 DEF At
  <2>0. s[i] \in 1..255
    BY <1>1, <1>3
  <2>2. \A x \in 1..255 : x \in 0..255 /\ x # 0
    OBVIOUS
  <2>3. At(s, i) \in 0..255 /\ At(s, i) # 0
    BY <2>0, <2>1, <2>2
  <2>4. ~(i > Len(s))
    BY <1>1, <1>3
  <2>5. QED
    BY <1>1, <1>3, <2>1, <2>3, <2>4 DEF DigitAt, OtherAt
<1>4. CASE i > Len(s)
  <2>1. At(s, i) = 0 /\ ~(i <= Len(s))
    BY <1>1, <1>4 DEF At
  <2>2. QED
    BY <1>1, <1>2, <1>4, <2>1 DEF DigitAt, OtherAt
<1>5. QED
  BY <1>1, <1>3, <1>4

\* Only digits and the end have order 0.
LEMMA OrderIs ==
  ASSUME NEW c \in 0..255
  PROVE  Order(c) \in Int /\ (Order(c) = 0 <=> c = 0 \/ IsDigit(c))
BY DEF Order, IsDigit, IsAlpha

\* Zeros are skipped up to the first position without one.
LEMMA SkipZerosIs ==
  ASSUME NEW s \in Text, NEW i \in Position
  PROVE  /\ SkipZeros(s, i) \in Position /\ SkipZeros(s, i) >= i
         /\ At(s, SkipZeros(s, i)) # 48
         /\ \A l \in i..(SkipZeros(s, i) - 1) : At(s, l) = 48
<1> DEFINE S == {k \in Nat : k >= i /\ At(s, k) # 48}
           Good(k) == At(s, k) # 48 /\ \A l \in i..(k - 1) : At(s, l) = 48
<1>1. Len(s) \in Nat /\ i \in Nat \ {0}
  BY AtIs DEF Position
<1>2. i + Len(s) \in S
  <2>1. i + Len(s) \in Position /\ i + Len(s) > Len(s) /\ i + Len(s) >= i /\ i + Len(s) \in Nat
    BY <1>1 DEF Position
  <2>2. At(s, i + Len(s)) = 0
    BY <2>1, AtIs
  <2>3. QED
    BY <2>1, <2>2
<1>3. PICK k \in S : \A l \in S : k <= l
  <2>1. S \subseteq Nat /\ S # {}
    BY <1>2
  <2> HIDE DEF S
  <2>2. QED
    BY <2>1, LeastElement
<1>4. k \in i..(i + Len(s)) /\ Good(k)
  <2>1. k \in Nat /\ k >= i /\ At(s, k) # 48 /\ k <= i + Len(s)
    BY <1>2, <1>3
  <2>2. ASSUME NEW l \in i..(k - 1) PROVE At(s, l) = 48
    <3>1. l \in Nat /\ l >= i /\ ~(k <= l)
      BY <1>1, <2>1
    <3>2. QED
      BY <1>3, <3>1
  <2>3. QED
    BY <1>1, <2>1, <2>2
<1>5. SkipZeros(s, i) = CHOOSE m \in i..(i + Len(s)) : Good(m)
  BY DEF SkipZeros
<1> HIDE DEF Good, S
<1>6. SkipZeros(s, i) \in i..(i + Len(s)) /\ Good(SkipZeros(s, i))
  BY <1>4, <1>5
<1>7. QED
  BY <1>1, <1>6 DEF Good, Position

\* n positions from i and j on have digits, and not one more.
Common(s, i, t, j, n) ==
  /\ ~(DigitAt(s, i + n) /\ DigitAt(t, j + n))
  /\ \A l \in 0..(n - 1) : DigitAt(s, i + l) /\ DigitAt(t, j + l)

\* There is one such number.
LEMMA CommonDigitsIs ==
  ASSUME NEW s \in Text, NEW i \in Position, NEW t \in Text, NEW j \in Position
  PROVE  /\ CommonDigits(s, i, t, j) \in Nat
         /\ Common(s, i, t, j, CommonDigits(s, i, t, j))
         /\ \A n \in Nat : Common(s, i, t, j, n) => n = CommonDigits(s, i, t, j)
<1> DEFINE S == {n \in Nat : ~(DigitAt(s, i + n) /\ DigitAt(t, j + n))}
           c == CommonDigits(s, i, t, j)
<1>1. Len(s) \in Nat /\ i \in Nat \ {0}
  BY AtIs DEF Position
<1>2. Len(s) \in S
  <2>1. ~(i + Len(s) <= Len(s))
    BY <1>1
  <2>2. QED
    BY <1>1, <2>1 DEF DigitAt
<1>3. PICK k \in S : \A l \in S : k <= l
  <2>1. S \subseteq Nat /\ S # {}
    BY <1>2
  <2> HIDE DEF S
  <2>2. QED
    BY <2>1, LeastElement
<1>4. k \in 0..Len(s) /\ Common(s, i, t, j, k)
  <2>1. k \in Nat /\ k <= Len(s) /\ ~(DigitAt(s, i + k) /\ DigitAt(t, j + k))
    BY <1>2, <1>3
  <2>2. ASSUME NEW l \in 0..(k - 1) PROVE DigitAt(s, i + l) /\ DigitAt(t, j + l)
    <3>1. l \in Nat /\ ~(k <= l)
      BY <2>1
    <3>2. QED
      BY <1>3, <3>1
  <2>3. QED
    BY <1>1, <2>1, <2>2 DEF Common
<1>5. c = CHOOSE n \in 0..Len(s) : Common(s, i, t, j, n)
  BY DEF CommonDigits, Common
<1> HIDE DEF c, S
<1>6. c \in 0..Len(s) /\ Common(s, i, t, j, c)
  BY <1>4, <1>5
<1>7. ASSUME NEW n \in Nat, Common(s, i, t, j, n) PROVE n = c
  <2>1. c \in Nat
    BY <1>1, <1>6
  <2>2. ~(n < c)
    <3>1. n < c => n \in 0..(c - 1)
      BY <2>1
    <3>2. QED
      BY <1>6, <1>7, <3>1 DEF Common
  <2>3. ~(c < n)
    <3>1. c < n => c \in 0..(n - 1)
      BY <2>1
    <3>2. QED
      BY <1>6, <1>7, <3>1 DEF Common
  <2>4. QED
    BY <2>1, <2>2, <2>3
<1>8. QED
  BY <1>1, <1>6, <1>7 DEF c

\* How long the number at a position is.
Run(s, i) == CommonDigits(s, i, s, i)

\* Two numbers have as many digits in common as the shorter one has.
LEMMA ShorterIsCommon ==
  ASSUME NEW s \in Text, NEW i \in Position, NEW t \in Text, NEW j \in Position
  PROVE  /\ Run(s, i) \in Nat /\ ~DigitAt(s, i + Run(s, i))
         /\ \A l \in 0..(Run(s, i) - 1) : DigitAt(s, i + l)
         /\ Run(t, j) \in Nat /\ ~DigitAt(t, j + Run(t, j))
         /\ \A l \in 0..(Run(t, j) - 1) : DigitAt(t, j + l)
         /\ CommonDigits(s, i, t, j) =
              IF Run(s, i) <= Run(t, j) THEN Run(s, i) ELSE Run(t, j)
<1> DEFINE m == Run(s, i)
           n == Run(t, j)
           c == IF m <= n THEN m ELSE n
<1>1. /\ m \in Nat /\ ~DigitAt(s, i + m) /\ \A l \in 0..(m - 1) : DigitAt(s, i + l)
      /\ n \in Nat /\ ~DigitAt(t, j + n) /\ \A l \in 0..(n - 1) : DigitAt(t, j + l)
  BY CommonDigitsIs DEF Run, Common
<1> HIDE DEF m, n
<1>2. /\ c \in Nat
      /\ c = m \/ c = n
      /\ \A l \in 0..(c - 1) : l \in 0..(m - 1) /\ l \in 0..(n - 1)
  BY <1>1
<1>3. Common(s, i, t, j, c)
  BY <1>1, <1>2 DEF Common
<1> HIDE DEF c
<1>4. CommonDigits(s, i, t, j) = c
  BY <1>2, <1>3, CommonDigitsIs
<1>5. QED
  BY <1>1, <1>4 DEF c, m, n

\* Numbers of the same length are equal digit by digit, or differ first at
\* one of them.
SameDigits(s, i, t, j, n) == \A l \in 0..(n - 1) : s[i + l] = t[j + l]
DifferAt(s, i, t, j, n, f) ==
  /\ f \in 0..(n - 1) /\ s[i + f] # t[j + f]
  /\ \A l \in 0..(f - 1) : s[i + l] = t[j + l]

\* A digit is a number.
LEMMA DigitIs ==
  ASSUME NEW s, NEW i, DigitAt(s, i)
  PROVE  s[i] \in 48..57
BY DEF DigitAt, IsDigit

\* The answer of CompareNumbers.
LEMMA NumbersAre ==
  ASSUME NEW s \in Text, NEW i \in Position, NEW t \in Text, NEW j \in Position
  PROVE  LET m == Run(s, i)
             n == Run(t, j)
             c == CompareNumbers(s, i, t, j)
         IN /\ m > n => c = 1
            /\ m < n => c = -1
            /\ m = n /\ SameDigits(s, i, t, j, n) => c = 0
            /\ m = n /\ ~SameDigits(s, i, t, j, n) =>
                 \E f \in 0..(n - 1) : DifferAt(s, i, t, j, n, f) /\ c = s[i + f] - t[j + f]
<1> DEFINE m == Run(s, i)
           n == Run(t, j)
           c == CompareNumbers(s, i, t, j)
           k == CommonDigits(s, i, t, j)
           D == {l \in 0..(k - 1) : s[i + l] # t[j + l]}
           first == CHOOSE l \in D : \A d \in D : l <= d
<1>1. /\ m \in Nat /\ ~DigitAt(s, i + m) /\ \A l \in 0..(m - 1) : DigitAt(s, i + l)
      /\ n \in Nat /\ ~DigitAt(t, j + n) /\ \A l \in 0..(n - 1) : DigitAt(t, j + l)
      /\ k = IF m <= n THEN m ELSE n
  BY ShorterIsCommon
<1>2. c = CASE DigitAt(s, i + k) -> 1
            [] ~DigitAt(s, i + k) /\ DigitAt(t, j + k) -> -1
            [] ~DigitAt(s, i + k) /\ ~DigitAt(t, j + k) ->
                 IF D = {} THEN 0 ELSE s[i + first] - t[j + first]
  BY DEF CompareNumbers
<1> HIDE DEF m, n, k, c, first
<1>3. m > n => c = 1
  <2>1. SUFFICES ASSUME m > n PROVE c = 1
    OBVIOUS
  <2>2. k = n /\ n \in 0..(m - 1)
    BY <1>1, <2>1
  <2>3. QED
    BY <1>1, <1>2, <2>2
<1>4. m < n => c = -1
  <2>1. SUFFICES ASSUME m < n PROVE c = -1
    OBVIOUS
  <2>2. k = m /\ m \in 0..(n - 1)
    BY <1>1, <2>1
  <2>3. QED
    BY <1>1, <1>2, <2>2
<1>5. ASSUME m = n
      PROVE  k = n /\ c = IF D = {} THEN 0 ELSE s[i + first] - t[j + first]
  <2>1. k = n /\ k = m
    BY <1>1, <1>5
  <2>2. ~DigitAt(s, i + k) /\ ~DigitAt(t, j + k)
    BY <1>1, <2>1
  <2>3. QED
    BY <1>2, <2>1, <2>2
<1>6. m = n /\ SameDigits(s, i, t, j, n) => c = 0
  BY <1>5 DEF SameDigits
<1>7. ASSUME m = n, ~SameDigits(s, i, t, j, n)
      PROVE  \E f \in 0..(n - 1) : DifferAt(s, i, t, j, n, f) /\ c = s[i + f] - t[j + f]
  <2>1. k = n /\ D \subseteq 0..(n - 1) /\ D # {}
    BY <1>5, <1>7 DEF SameDigits
  <2>2. \E x \in D : \A y \in D : x <= y
    <3>1. D \subseteq Nat
      BY <1>1, <2>1
    <3> HIDE DEF D
    <3>2. QED
      BY <2>1, <3>1, LeastElement
  <2>3. first \in D /\ \A y \in D : first <= y
    <3> HIDE DEF D
    <3>1. QED
      BY <2>2 DEF first
  <2>4. DifferAt(s, i, t, j, n, first)
    <3>1. first \in 0..(n - 1) /\ s[i + first] # t[j + first]
      BY <2>1, <2>3
    <3>2. ASSUME NEW l \in 0..(first - 1) PROVE s[i + l] = t[j + l]
      <4>1. l \in 0..(n - 1) /\ ~(first <= l)
        BY <1>1, <3>1
      <4>2. QED
        BY <2>1, <2>3, <4>1
    <3>3. QED
      BY <3>1, <3>2 DEF DifferAt
  <2>5. QED
    BY <1>5, <1>7, <2>1, <2>3, <2>4
<1>8. QED
  BY <1>3, <1>4, <1>6, <1>7 DEF m, n, c

\* Numbers compare alike in both directions, and transitively.
LEMMA NumbersCompare ==
  ASSUME NEW s \in Text, NEW i \in Position, NEW t \in Text, NEW j \in Position
  PROVE  /\ CompareNumbers(s, i, t, j) \in Int
         /\ CompareNumbers(s, i, t, j) = -CompareNumbers(t, j, s, i)
         /\ CompareNumbers(s, i, t, j) = 0 <=>
              Run(s, i) = Run(t, j) /\ SameDigits(s, i, t, j, Run(t, j))
<1> DEFINE m == Run(s, i)
           n == Run(t, j)
           c == CompareNumbers(s, i, t, j)
           d == CompareNumbers(t, j, s, i)
<1>1. /\ m \in Nat /\ \A l \in 0..(m - 1) : DigitAt(s, i + l)
      /\ n \in Nat /\ \A l \in 0..(n - 1) : DigitAt(t, j + l)
  BY ShorterIsCommon
<1>2. /\ m > n => c = 1 /\ d = -1
      /\ m < n => c = -1 /\ d = 1
      /\ m = n /\ SameDigits(s, i, t, j, n) => c = 0
      /\ m = n /\ SameDigits(t, j, s, i, n) => d = 0
  BY <1>1, NumbersAre
<1>3. ASSUME m = n, ~SameDigits(s, i, t, j, n)
      PROVE  \E f \in 0..(n - 1) : DifferAt(s, i, t, j, n, f) /\ c = s[i + f] - t[j + f]
  BY <1>3, NumbersAre
<1>4. ASSUME m = n, ~SameDigits(t, j, s, i, n)
      PROVE  \E f \in 0..(n - 1) : DifferAt(t, j, s, i, n, f) /\ d = t[j + f] - s[i + f]
  BY <1>4, NumbersAre
<1>5. SameDigits(s, i, t, j, n) <=> SameDigits(t, j, s, i, n)
  BY DEF SameDigits
<1> HIDE DEF m, n, c, d
<1>6. CASE m = n /\ ~SameDigits(s, i, t, j, n)
  <2>1. PICK f \in 0..(n - 1) : DifferAt(s, i, t, j, n, f) /\ c = s[i + f] - t[j + f]
    BY <1>3, <1>6
  <2>2. PICK g \in 0..(n - 1) : DifferAt(t, j, s, i, n, g) /\ d = t[j + g] - s[i + g]
    BY <1>4, <1>5, <1>6
  <2>3. f = g
    <3>1. ~(f < g)
      <4>1. f < g => f \in 0..(g - 1)
        BY <1>1
      <4>2. QED
        BY <2>1, <2>2, <4>1 DEF DifferAt
    <3>2. ~(g < f)
      <4>1. g < f => g \in 0..(f - 1)
        BY <1>1
      <4>2. QED
        BY <2>1, <2>2, <4>1 DEF DifferAt
    <3>3. QED
      BY <1>1, <3>1, <3>2
  <2>4. s[i + f] \in 48..57 /\ t[j + f] \in 48..57 /\ s[i + f] # t[j + f]
    BY <1>1, <1>6, <2>1, DigitIs DEF DifferAt
  <2>5. c \in Int /\ c = -d /\ c # 0
    BY <2>1, <2>2, <2>3, <2>4
  <2>6. QED
    BY <1>6, <2>5 DEF m, n, c, d
<1>7. CASE ~(m = n /\ ~SameDigits(s, i, t, j, n))
  <2>1. m > n \/ m < n \/ (m = n /\ SameDigits(s, i, t, j, n))
    BY <1>1, <1>7
  <2>2. c \in Int /\ c = -d /\ (c = 0 <=> m = n /\ SameDigits(s, i, t, j, n))
    BY <1>1, <1>2, <1>5, <2>1
  <2>3. QED
    BY <2>2 DEF m, n, c, d
<1>8. QED
  BY <1>6, <1>7

\* The order of numbers is transitive.
LEMMA NumbersTransitive ==
  ASSUME NEW s \in Text, NEW i \in Position, NEW t \in Text, NEW j \in Position,
         NEW u \in Text, NEW k \in Position,
         CompareNumbers(s, i, t, j) <= 0, CompareNumbers(t, j, u, k) <= 0
  PROVE  /\ CompareNumbers(s, i, u, k) <= 0
         /\ CompareNumbers(s, i, u, k) = 0 =>
              CompareNumbers(s, i, t, j) = 0 /\ CompareNumbers(t, j, u, k) = 0
<1> DEFINE m == Run(s, i)
           n == Run(t, j)
           p == Run(u, k)
           c == CompareNumbers(s, i, t, j)
           d == CompareNumbers(t, j, u, k)
           e == CompareNumbers(s, i, u, k)
<1>1. /\ m \in Nat /\ \A l \in 0..(m - 1) : DigitAt(s, i + l)
      /\ n \in Nat /\ \A l \in 0..(n - 1) : DigitAt(t, j + l)
      /\ p \in Nat /\ \A l \in 0..(p - 1) : DigitAt(u, k + l)
  BY ShorterIsCommon
<1>2. /\ m > n => c = 1
      /\ n > p => d = 1
      /\ m < p => e = -1
      /\ c = 0 <=> m = n /\ SameDigits(s, i, t, j, n)
      /\ d = 0 <=> n = p /\ SameDigits(t, j, u, k, p)
      /\ e = 0 <=> m = p /\ SameDigits(s, i, u, k, p)
  BY NumbersAre, NumbersCompare
<1>3. /\ m = n /\ ~SameDigits(s, i, t, j, n) =>
           \E f \in 0..(n - 1) : DifferAt(s, i, t, j, n, f) /\ c = s[i + f] - t[j + f]
      /\ n = p /\ ~SameDigits(t, j, u, k, p) =>
           \E f \in 0..(p - 1) : DifferAt(t, j, u, k, p, f) /\ d = t[j + f] - u[k + f]
      /\ m = p /\ ~SameDigits(s, i, u, k, p) =>
           \E f \in 0..(p - 1) : DifferAt(s, i, u, k, p, f) /\ e = s[i + f] - u[k + f]
  BY NumbersAre
<1>4. c <= 0 /\ d <= 0
  OBVIOUS
<1> HIDE DEF m, n, p, c, d, e
<1>5. m <= n /\ n <= p
  BY <1>1, <1>2, <1>4
<1>6. CASE m < p
  <2>1. e = -1
    BY <1>2, <1>6
  <2>2. QED
    BY <2>1 DEF e
<1>7. CASE m = p
  <2>1. m = n /\ n = p
    BY <1>1, <1>5, <1>7
  <2>2. /\ \A l \in 0..(p - 1) : s[i + l] \in 48..57
        /\ \A l \in 0..(p - 1) : t[j + l] \in 48..57
        /\ \A l \in 0..(p - 1) : u[k + l] \in 48..57
    BY <1>1, <2>1, DigitIs
  <2>3. CASE SameDigits(s, i, u, k, p)
    <3>1. c = 0
      <4>1. SUFFICES ASSUME ~SameDigits(s, i, t, j, n) PROVE FALSE
        BY <1>2, <2>1
      <4>2. PICK f \in 0..(p - 1) : DifferAt(s, i, t, j, p, f) /\ c = s[i + f] - t[j + f]
        BY <1>3, <2>1, <4>1
      <4>3. s[i + f] < t[j + f] /\ u[k + f] < t[j + f]
        <5>1. s[i + f] # t[j + f] /\ s[i + f] = u[k + f]
          BY <2>3, <4>2 DEF DifferAt, SameDigits
        <5>2. s[i + f] \in 48..57 /\ t[j + f] \in 48..57
          BY <2>2
        <5>3. QED
          BY <1>4, <4>2, <5>1, <5>2
      <4>4. ~SameDigits(t, j, u, k, p)
        <5>1. u[k + f] \in 48..57 /\ t[j + f] \in 48..57
          BY <2>2
        <5>2. QED
          BY <4>3, <5>1 DEF SameDigits
      <4>5. PICK g \in 0..(p - 1) : DifferAt(t, j, u, k, p, g) /\ d = t[j + g] - u[k + g]
        BY <1>3, <2>1, <4>4
      <4>6. t[j + g] < u[k + g] /\ t[j + g] < s[i + g]
        <5>1. t[j + g] # u[k + g] /\ s[i + g] = u[k + g]
          BY <2>3, <4>5 DEF DifferAt, SameDigits
        <5>2. u[k + g] \in 48..57 /\ t[j + g] \in 48..57
          BY <2>2
        <5>3. QED
          BY <1>4, <4>5, <5>1, <5>2
      <4>7. g = f
        <5>1. ~(f < g)
          <6>1. f < g => f \in 0..(g - 1)
            BY <1>1
          <6>2. t[j + f] # u[k + f]
            <7>1. u[k + f] \in 48..57 /\ t[j + f] \in 48..57
              BY <2>2
            <7>2. QED
              BY <4>3, <7>1
          <6>3. QED
            BY <4>5, <6>1, <6>2 DEF DifferAt
        <5>2. ~(g < f)
          <6>1. g < f => g \in 0..(f - 1)
            BY <1>1
          <6>2. t[j + g] # s[i + g]
            <7>1. s[i + g] \in 48..57 /\ t[j + g] \in 48..57
              BY <2>2
            <7>2. QED
              BY <4>6, <7>1
          <6>3. QED
            BY <4>2, <6>1, <6>2 DEF DifferAt
        <5>3. QED
          BY <1>1, <5>1, <5>2
      <4>8. u[k + f] \in 48..57 /\ t[j + f] \in 48..57
        BY <2>2
      <4>9. QED
        BY <4>3, <4>6, <4>7, <4>8
    <3>2. d = 0
      <4>1. SameDigits(s, i, t, j, n)
        BY <1>2, <3>1
      <4>2. SameDigits(t, j, u, k, p)
        BY <2>1, <2>3, <4>1 DEF SameDigits
      <4>3. QED
        BY <1>2, <2>1, <4>2
    <3>3. e = 0
      BY <1>2, <1>7, <2>3
    <3>4. QED
      BY <3>1, <3>2, <3>3 DEF c, d, e
  <2>4. CASE ~SameDigits(s, i, u, k, p)
    <3>1. PICK h \in 0..(p - 1) : DifferAt(s, i, u, k, p, h) /\ e = s[i + h] - u[k + h]
      BY <1>3, <1>7, <2>4
    <3>2. s[i + h] \in 48..57 /\ t[j + h] \in 48..57 /\ u[k + h] \in 48..57 /\ s[i + h] # u[k + h]
      BY <2>2, <3>1 DEF DifferAt
    <3>3. ASSUME NEW l \in 0..(p - 1), \A x \in 0..(l - 1) : s[i + x] = t[j + x]
          PROVE  s[i + l] <= t[j + l]
      <4>1. s[i + l] \in 48..57 /\ t[j + l] \in 48..57
        BY <2>2
      <4>2. SUFFICES ASSUME s[i + l] # t[j + l] PROVE s[i + l] < t[j + l]
        BY <4>1
      <4>3. PICK f \in 0..(p - 1) : DifferAt(s, i, t, j, p, f) /\ c = s[i + f] - t[j + f]
        BY <1>3, <2>1, <4>2 DEF SameDigits
      <4>4. f = l
        <5>1. ~(l < f)
          <6>1. l < f => l \in 0..(f - 1)
            BY <1>1
          <6>2. QED
            BY <4>2, <4>3, <6>1 DEF DifferAt
        <5>2. ~(f < l)
          <6>1. f < l => f \in 0..(l - 1)
            BY <1>1
          <6>2. QED
            BY <3>3, <4>3, <6>1 DEF DifferAt
        <5>3. QED
          BY <1>1, <5>1, <5>2
      <4>5. QED
        BY <1>4, <4>1, <4>2, <4>3, <4>4
    <3>4. ASSUME NEW l \in 0..(p - 1), \A x \in 0..(l - 1) : t[j + x] = u[k + x]
          PROVE  t[j + l] <= u[k + l]
      <4>1. t[j + l] \in 48..57 /\ u[k + l] \in 48..57
        BY <2>2
      <4>2. SUFFICES ASSUME t[j + l] # u[k + l] PROVE t[j + l] < u[k + l]
        BY <4>1
      <4>3. PICK f \in 0..(p - 1) : DifferAt(t, j, u, k, p, f) /\ d = t[j + f] - u[k + f]
        BY <1>3, <2>1, <4>2 DEF SameDigits
      <4>4. f = l
        <5>1. ~(l < f)
          <6>1. l < f => l \in 0..(f - 1)
            BY <1>1
          <6>2. QED
            BY <4>2, <4>3, <6>1 DEF DifferAt
        <5>2. ~(f < l)
          <6>1. f < l => f \in 0..(l - 1)
            BY <1>1
          <6>2. QED
            BY <3>4, <4>3, <6>1 DEF DifferAt
        <5>3. QED
          BY <1>1, <5>1, <5>2
      <4>5. QED
        BY <1>4, <4>1, <4>2, <4>3, <4>4
    <3>5. \A x \in 0..(h - 1) : s[i + x] = u[k + x]
      BY <3>1 DEF DifferAt
    <3>6. s[i + h] < u[k + h]
      <4>1. CASE \A x \in 0..(h - 1) : s[i + x] = t[j + x]
        <5>1. \A x \in 0..(h - 1) : t[j + x] = u[k + x]
          BY <3>5, <4>1
        <5>2. s[i + h] <= t[j + h] /\ t[j + h] <= u[k + h]
          BY <3>3, <3>4, <4>1, <5>1
        <5>3. QED
          BY <3>2, <5>2
      <4>2. CASE ~(\A x \in 0..(h - 1) : s[i + x] = t[j + x])
        <5>1. ~SameDigits(s, i, t, j, p)
          BY <1>1, <3>1, <4>2 DEF SameDigits
        <5>2. PICK f \in 0..(p - 1) : DifferAt(s, i, t, j, p, f) /\ c = s[i + f] - t[j + f]
          BY <1>3, <2>1, <5>1
        <5>3. f \in 0..(h - 1)
          <6>1. PICK x \in 0..(h - 1) : s[i + x] # t[j + x]
            BY <4>2
          <6>2. ~(x < f)
            <7>1. x < f => x \in 0..(f - 1)
              BY <1>1, <3>1, <6>1
            <7>2. QED
              BY <5>2, <6>1, <7>1 DEF DifferAt
          <6>3. QED
            BY <1>1, <3>1, <6>1, <6>2
        <5>4. s[i + f] \in 48..57 /\ t[j + f] \in 48..57 /\ u[k + f] \in 48..57
          BY <2>2
        <5>5. s[i + f] < t[j + f]
          BY <1>4, <5>2, <5>4 DEF DifferAt
        <5>6. \A x \in 0..(f - 1) : x \in 0..(h - 1)
          BY <1>1, <3>1, <5>3
        <5>7. \A x \in 0..(f - 1) : t[j + x] = u[k + x]
          BY <3>5, <5>2, <5>6 DEF DifferAt
        <5>8. t[j + f] <= u[k + f]
          BY <3>4, <5>7
        <5>9. s[i + f] = u[k + f]
          BY <3>5, <5>3
        <5>10. QED
          BY <5>4, <5>5, <5>8, <5>9
      <4>3. QED
        BY <4>1, <4>2
    <3>7. e <= 0 /\ e # 0
      BY <3>1, <3>2, <3>6
    <3>8. QED
      BY <3>7 DEF e
  <2>5. QED
    BY <2>3, <2>4
<1>8. QED
  BY <1>1, <1>5, <1>6, <1>7

-----------------------------------------------------------------------------
(* verrevcmp goes over both texts part by part: a byte that is not a digit, *)
(* or a number with its leading zeros.                                      *)

\* How the parts at two positions compare.
ComparePart(s, i, t, j) ==
  IF OtherAt(s, i) \/ OtherAt(t, j)
  THEN Order(At(s, i)) - Order(At(t, j))
  ELSE CompareNumbers(s, SkipZeros(s, i), t, SkipZeros(t, j))

\* Where the part at a position ends.
After(s, i) ==
  IF OtherAt(s, i) THEN i + 1 ELSE SkipZeros(s, i) + Run(s, SkipZeros(s, i))

\* How much of the text is left at a position.
Left(s, i) == IF i <= Len(s) THEN Len(s) + 1 - i ELSE 0

\* Every part that is not behind the end takes something off the text.
LEMMA AfterIs ==
  ASSUME NEW s \in Text, NEW i \in Position
  PROVE  /\ After(s, i) \in Position /\ Left(s, i) \in Nat /\ Left(s, After(s, i)) \in Nat
         /\ i <= Len(s) <=> Left(s, i) # 0
         /\ i <= Len(s) => Left(s, After(s, i)) < Left(s, i)
         /\ i > Len(s) => Left(s, After(s, i)) = 0
<1> DEFINE k == SkipZeros(s, i)
           n == Run(s, k)
           a == After(s, i)
<1>1. Len(s) \in Nat /\ i \in Nat \ {0}
  BY AtIs DEF Position
<1>2. k \in Position /\ k >= i /\ k \in Nat /\ At(s, k) # 48 /\ \A l \in i..(k - 1) : At(s, l) = 48
  BY SkipZerosIs DEF Position
<1>3. n \in Nat /\ ~DigitAt(s, k + n)
  BY <1>2, ShorterIsCommon
<1>4. a = IF OtherAt(s, i) THEN i + 1 ELSE k + n
  BY DEF After
<1>5. a \in Position /\ a \in Nat /\ a >= i
  <2> HIDE DEF k, n, a
  <2> QED
    BY <1>1, <1>2, <1>3, <1>4 DEF Position
<1>6. ASSUME i <= Len(s) PROVE a > i
  <2>1. CASE OtherAt(s, i)
    BY <1>1, <1>4, <2>1
  <2>2. CASE ~OtherAt(s, i)
    <3>1. DigitAt(s, i)
      BY <1>6, <2>2 DEF OtherAt, DigitAt
    <3>2. CASE k = i
      <4>1. n # 0
        <5>1. n = 0 => k + n = k
          BY <1>2
        <5>2. QED
          BY <1>3, <3>1, <3>2, <5>1
      <4> HIDE DEF k, n, a
      <4>2. QED
        BY <1>1, <1>2, <1>3, <1>4, <2>2, <3>2, <4>1
    <3>3. CASE k # i
      <4> HIDE DEF k, n, a
      <4>1. QED
        BY <1>1, <1>2, <1>3, <1>4, <2>2, <3>3
    <3>4. QED
      BY <3>2, <3>3
  <2>3. QED
    BY <2>1, <2>2
<1> HIDE DEF a
<1>7. QED
  BY <1>1, <1>5, <1>6 DEF Left, a

\* Parts that compare equal are both of one kind.
LEMMA EqualParts ==
  ASSUME NEW s \in Text, NEW i \in Position, NEW t \in Text, NEW j \in Position,
         ComparePart(s, i, t, j) = 0
  PROVE  /\ OtherAt(s, i) <=> OtherAt(t, j)
         /\ OtherAt(s, i) => After(s, i) = i + 1 /\ After(t, j) = j + 1
         /\ ~OtherAt(s, i) =>
              LET n == CommonDigits(s, SkipZeros(s, i), t, SkipZeros(t, j))
              IN After(s, i) = SkipZeros(s, i) + n /\ After(t, j) = SkipZeros(t, j) + n
<1>1. At(s, i) \in 0..255 /\ At(t, j) \in 0..255
  BY AtIs
<1>2. /\ OtherAt(s, i) <=> At(s, i) # 0 /\ ~IsDigit(At(s, i))
      /\ OtherAt(t, j) <=> At(t, j) # 0 /\ ~IsDigit(At(t, j))
  BY AtIs
<1>3. /\ Order(At(s, i)) \in Int /\ Order(At(t, j)) \in Int
      /\ Order(At(s, i)) = 0 <=> ~OtherAt(s, i)
      /\ Order(At(t, j)) = 0 <=> ~OtherAt(t, j)
  BY <1>1, <1>2, OrderIs
<1>4. CASE OtherAt(s, i) \/ OtherAt(t, j)
  <2>1. Order(At(s, i)) = Order(At(t, j))
    BY <1>3, <1>4 DEF ComparePart
  <2>2. OtherAt(s, i) /\ OtherAt(t, j)
    BY <1>3, <1>4, <2>1
  <2>3. QED
    BY <2>2 DEF After
<1>5. CASE ~OtherAt(s, i) /\ ~OtherAt(t, j)
  <2> DEFINE k == SkipZeros(s, i)
             l == SkipZeros(t, j)
  <2>1. CompareNumbers(s, k, t, l) = 0
    BY <1>5 DEF ComparePart
  <2>2. k \in Position /\ l \in Position
    BY SkipZerosIs
  <2>3. After(s, i) = k + Run(s, k) /\ After(t, j) = l + Run(t, l)
    BY <1>5 DEF After
  <2> HIDE DEF k, l
  <2>4. Run(s, k) = Run(t, l) /\ Run(t, l) \in Nat
    BY <2>1, <2>2, NumbersCompare, ShorterIsCommon
  <2>5. CommonDigits(s, k, t, l) = Run(s, k)
    BY <2>2, <2>4, ShorterIsCommon
  <2>6. QED
    BY <1>5, <2>3, <2>4, <2>5 DEF k, l
<1>6. QED
  BY <1>4, <1>5

\* Parts compare alike in both directions.
LEMMA PartsCompare ==
  ASSUME NEW s \in Text, NEW i \in Position, NEW t \in Text, NEW j \in Position
  PROVE  /\ ComparePart(s, i, t, j) \in Int
         /\ ComparePart(s, i, t, j) = -ComparePart(t, j, s, i)
         /\ i > Len(s) /\ j > Len(t) => ComparePart(s, i, t, j) = 0
<1>1. Order(At(s, i)) \in Int /\ Order(At(t, j)) \in Int
  BY AtIs, OrderIs
<1>2. SkipZeros(s, i) \in Position /\ SkipZeros(t, j) \in Position
  BY SkipZerosIs
<1>3. /\ CompareNumbers(s, SkipZeros(s, i), t, SkipZeros(t, j)) \in Int
      /\ CompareNumbers(s, SkipZeros(s, i), t, SkipZeros(t, j)) =
           -CompareNumbers(t, SkipZeros(t, j), s, SkipZeros(s, i))
  BY <1>2, NumbersCompare
<1>4. ASSUME i > Len(s), j > Len(t) PROVE ComparePart(s, i, t, j) = 0
  <2> DEFINE k == SkipZeros(s, i)
             l == SkipZeros(t, j)
  <2>1. /\ Len(s) \in Nat /\ Len(t) \in Nat /\ i \in Nat /\ j \in Nat
        /\ k \in Nat /\ k >= i /\ l \in Nat /\ l >= j
        /\ k \in Position /\ l \in Position
    BY AtIs, SkipZerosIs DEF Position
  <2>2. ~OtherAt(s, i) /\ ~OtherAt(t, j)
    BY <1>4, <2>1 DEF OtherAt
  <2> HIDE DEF k, l
  <2>3. ~DigitAt(s, k) /\ ~DigitAt(t, l) /\ k + 0 = k /\ l + 0 = l
    BY <1>4, <2>1 DEF DigitAt
  <2>4. Run(s, k) = 0 /\ Run(t, l) = 0
    <3>1. Common(s, k, s, k, 0) /\ Common(t, l, t, l, 0)
      BY <2>3 DEF Common
    <3>2. QED
      BY <2>1, <3>1, CommonDigitsIs DEF Run
  <2>5. SameDigits(s, k, t, l, 0)
    BY DEF SameDigits
  <2>6. CompareNumbers(s, k, t, l) = 0
    BY <2>1, <2>4, <2>5, NumbersCompare
  <2>7. QED
    BY <2>2, <2>6 DEF ComparePart, k, l
<1>5. QED
  BY <1>1, <1>3, <1>4 DEF ComparePart

\* And transitively, as equals only when all are.
LEMMA PartsTransitive ==
  ASSUME NEW s \in Text, NEW i \in Position, NEW t \in Text, NEW j \in Position,
         NEW u \in Text, NEW k \in Position,
         ComparePart(s, i, t, j) <= 0, ComparePart(t, j, u, k) <= 0
  PROVE  /\ ComparePart(s, i, u, k) <= 0
         /\ ComparePart(s, i, u, k) = 0 =>
              ComparePart(s, i, t, j) = 0 /\ ComparePart(t, j, u, k) = 0
<1>1. /\ At(s, i) \in 0..255 /\ At(t, j) \in 0..255 /\ At(u, k) \in 0..255
      /\ OtherAt(s, i) <=> At(s, i) # 0 /\ ~IsDigit(At(s, i))
      /\ OtherAt(t, j) <=> At(t, j) # 0 /\ ~IsDigit(At(t, j))
      /\ OtherAt(u, k) <=> At(u, k) # 0 /\ ~IsDigit(At(u, k))
  BY AtIs
<1> DEFINE x == Order(At(s, i))
           y == Order(At(t, j))
           z == Order(At(u, k))
           a == SkipZeros(s, i)
           b == SkipZeros(t, j)
           c == SkipZeros(u, k)
<1>2. /\ x \in Int /\ y \in Int /\ z \in Int
      /\ x = 0 <=> ~OtherAt(s, i)
      /\ y = 0 <=> ~OtherAt(t, j)
      /\ z = 0 <=> ~OtherAt(u, k)
  BY <1>1, OrderIs
<1>3. /\ ComparePart(s, i, t, j) = IF OtherAt(s, i) \/ OtherAt(t, j) THEN x - y ELSE CompareNumbers(s, a, t, b)
      /\ ComparePart(t, j, u, k) = IF OtherAt(t, j) \/ OtherAt(u, k) THEN y - z ELSE CompareNumbers(t, b, u, c)
      /\ ComparePart(s, i, u, k) = IF OtherAt(s, i) \/ OtherAt(u, k) THEN x - z ELSE CompareNumbers(s, a, u, c)
  BY DEF ComparePart
<1>4. a \in Position /\ b \in Position /\ c \in Position
  BY SkipZerosIs
<1>5. /\ CompareNumbers(s, a, t, b) \in Int /\ CompareNumbers(t, b, u, c) \in Int
      /\ CompareNumbers(s, a, u, c) \in Int
  BY <1>4, NumbersCompare
<1>6. CompareNumbers(s, a, t, b) <= 0 /\ CompareNumbers(t, b, u, c) <= 0 =>
        /\ CompareNumbers(s, a, u, c) <= 0
        /\ CompareNumbers(s, a, u, c) = 0 =>
             CompareNumbers(s, a, t, b) = 0 /\ CompareNumbers(t, b, u, c) = 0
  BY <1>4, NumbersTransitive
<1> HIDE DEF x, y, z, a, b, c
<1>7. CASE ~OtherAt(s, i) /\ ~OtherAt(t, j) /\ ~OtherAt(u, k)
  BY <1>3, <1>6, <1>7
<1>8. CASE OtherAt(s, i) \/ OtherAt(t, j) \/ OtherAt(u, k)
  BY <1>2, <1>3, <1>5, <1>8
<1>9. QED
  BY <1>7, <1>8

\* The answer from two positions on: that of the parts there, or if they are
\* equal the answer from behind them.
LEMMA VerRevCmpUnfolds ==
  ASSUME NEW s \in Text, NEW t \in Text
  PROVE  \A i, j \in Position :
           /\ ComparePart(s, i, t, j) # 0 =>
                VerRevCmp(s, t)[<<i, j>>] = ComparePart(s, i, t, j)
           /\ i > Len(s) /\ j > Len(t) => VerRevCmp(s, t)[<<i, j>>] = 0
           /\ ComparePart(s, i, t, j) = 0 /\ ~(i > Len(s) /\ j > Len(t)) =>
                VerRevCmp(s, t)[<<i, j>>] = VerRevCmp(s, t)[<<After(s, i), After(t, j)>>]
<1> DEFINE D == Position \X Position
           Body(f, p) ==
             CASE p[1] > Len(s) /\ p[2] > Len(t) -> 0
               [] OtherAt(s, p[1]) \/ OtherAt(t, p[2]) ->
                    IF Order(At(s, p[1])) # Order(At(t, p[2]))
                    THEN Order(At(s, p[1])) - Order(At(t, p[2]))
                    ELSE f[<<p[1] + 1, p[2] + 1>>]
               [] OTHER ->
                    IF CompareNumbers(s, SkipZeros(s, p[1]), t, SkipZeros(t, p[2])) # 0
                    THEN CompareNumbers(s, SkipZeros(s, p[1]), t, SkipZeros(t, p[2]))
                    ELSE f[<<SkipZeros(s, p[1]) + CommonDigits(s, SkipZeros(s, p[1]), t, SkipZeros(t, p[2])),
                             SkipZeros(t, p[2]) + CommonDigits(s, SkipZeros(s, p[1]), t, SkipZeros(t, p[2]))>>]
           Part(p) == ComparePart(s, p[1], t, p[2])
           Ended(p) == p[1] > Len(s) /\ p[2] > Len(t)
           Later(p) == <<After(s, p[1]), After(t, p[2])>>
           Rest(p) == Left(s, p[1]) + Left(t, p[2])
           Turn(f, p) == IF Ended(p) THEN 0 ELSE IF Part(p) # 0 THEN Part(p) ELSE f[Later(p)]
           Is(f) == f = [p \in D |-> Body(f, p)]
           v == VerRevCmp(s, t)
<1>1. v = CHOOSE f : Is(f)
  BY DEF VerRevCmp
<1>2. ASSUME NEW f, NEW p \in D PROVE Body(f, p) = Turn(f, p)
  <2> DEFINE i == p[1]
             j == p[2]
  <2>1. i \in Position /\ j \in Position
    OBVIOUS
  <2>2. Part(p) = IF OtherAt(s, i) \/ OtherAt(t, j)
                  THEN Order(At(s, i)) - Order(At(t, j))
                  ELSE CompareNumbers(s, SkipZeros(s, i), t, SkipZeros(t, j))
    BY DEF ComparePart
  <2>3. Order(At(s, i)) \in Int /\ Order(At(t, j)) \in Int
    BY <2>1, AtIs, OrderIs
  <2>4. Part(p) = 0 =>
          /\ OtherAt(s, i) <=> OtherAt(t, j)
          /\ OtherAt(s, i) => Later(p) = <<i + 1, j + 1>>
          /\ ~OtherAt(s, i) =>
               Later(p) = <<SkipZeros(s, i) + CommonDigits(s, SkipZeros(s, i), t, SkipZeros(t, j)),
                            SkipZeros(t, j) + CommonDigits(s, SkipZeros(s, i), t, SkipZeros(t, j))>>
    BY <2>1, EqualParts
  <2> HIDE DEF Part, Later, i, j
  <2>5. CASE Ended(p)
    <3>1. ~OtherAt(s, p[1]) /\ ~OtherAt(t, p[2])
      BY <2>1, <2>5, AtIs DEF i, j
    <3>2. QED
      BY <2>5, <3>1
  <2>6. CASE ~Ended(p) /\ (OtherAt(s, i) \/ OtherAt(t, j))
    <3>1. Body(f, p) = IF Order(At(s, i)) # Order(At(t, j))
                       THEN Order(At(s, i)) - Order(At(t, j))
                       ELSE f[<<i + 1, j + 1>>]
      BY <2>6 DEF i, j
    <3>2. Order(At(s, i)) # Order(At(t, j)) <=> Part(p) # 0
      BY <2>2, <2>3, <2>6
    <3>3. QED
      BY <2>2, <2>4, <2>6, <3>1, <3>2
  <2>7. CASE ~Ended(p) /\ ~(OtherAt(s, i) \/ OtherAt(t, j))
    <3>1. Body(f, p) =
            IF Part(p) # 0 THEN Part(p)
            ELSE f[<<SkipZeros(s, i) + CommonDigits(s, SkipZeros(s, i), t, SkipZeros(t, j)),
                     SkipZeros(t, j) + CommonDigits(s, SkipZeros(s, i), t, SkipZeros(t, j))>>]
      BY <2>2, <2>7 DEF i, j
    <3> HIDE DEF Body
    <3>2. QED
      BY <2>4, <2>7, <3>1
  <2>8. QED
    BY <2>5, <2>6, <2>7
<1>3. \A f : Is(f) <=> f = [p \in D |-> Turn(f, p)]
  <2>1. ASSUME NEW f PROVE [p \in D |-> Body(f, p)] = [p \in D |-> Turn(f, p)]
    <3> HIDE DEF Body, Turn, D
    <3>1. QED
      BY <1>2
  <2> HIDE DEF Body, Turn, D
  <2>2. QED
    BY <2>1
<1>4. ASSUME NEW p \in D
      PROVE  /\ Later(p) \in D /\ Rest(p) \in Nat /\ Rest(Later(p)) \in Nat
             /\ ~Ended(p) => Rest(Later(p)) < Rest(p)
  <2>1. p[1] \in Position /\ p[2] \in Position
    OBVIOUS
  <2>2. /\ After(s, p[1]) \in Position /\ Left(s, p[1]) \in Nat /\ Left(s, After(s, p[1])) \in Nat
        /\ p[1] <= Len(s) => Left(s, After(s, p[1])) < Left(s, p[1])
        /\ p[1] > Len(s) => Left(s, After(s, p[1])) = 0
    BY <2>1, AfterIs
  <2>3. /\ After(t, p[2]) \in Position /\ Left(t, p[2]) \in Nat /\ Left(t, After(t, p[2])) \in Nat
        /\ p[2] <= Len(t) => Left(t, After(t, p[2])) < Left(t, p[2])
        /\ p[2] > Len(t) => Left(t, After(t, p[2])) = 0
    BY <2>1, AfterIs
  <2>4. /\ p[1] > Len(s) <=> ~(p[1] <= Len(s))
        /\ p[2] > Len(t) <=> ~(p[2] <= Len(t))
    BY <2>1, AtIs DEF Position
  <2>5. Rest(Later(p)) = Left(s, After(s, p[1])) + Left(t, After(t, p[2]))
    OBVIOUS
  <2>6. QED
    BY <2>2, <2>3, <2>4, <2>5
<1> HIDE DEF Body, Part, Ended, Later, Rest
<1> DEFINE T == {N \in Nat : \E f : \A p \in D : Rest(p) < N => f[p] = Turn(f, p)}
<1>5. 0 \in T
  <2>1. \A p \in D : ~(Rest(p) < 0)
    BY <1>4
  <2>2. QED
    BY <2>1
<1>6. ASSUME NEW N \in Nat, N \in T PROVE N + 1 \in T
  <2>1. PICK f : \A p \in D : Rest(p) < N => f[p] = Turn(f, p)
    BY <1>6
  <2> DEFINE g == [p \in D |-> IF Rest(p) < N THEN f[p] ELSE Turn(f, p)]
  <2>2. \A p \in D : Rest(p) < N + 1 => g[p] = Turn(f, p)
    BY <2>1
  <2>3. \A p \in D : Rest(p) < N + 1 /\ ~Ended(p) => Later(p) \in D /\ Rest(Later(p)) < N
    BY <1>4
  <2>4. \A p \in D : Rest(p) < N => g[p] = f[p]
    OBVIOUS
  <2> HIDE DEF g, D
  <2>5. ASSUME NEW p \in D, Rest(p) < N + 1 PROVE g[p] = Turn(g, p)
    BY <2>2, <2>3, <2>4, <2>5
  <2>6. QED
    BY <2>5
<1>7. Nat \subseteq T
  <2> HIDE DEF T
  <2>1. QED
    BY <1>5, <1>6, SetInduction
<1>8. \E f : Is(f)
  <2> DEFINE N == Len(s) + Len(t) + 1
  <2>1. N \in Nat /\ \A p \in D : Rest(p) < N
    <3>1. Len(s) \in Nat /\ Len(t) \in Nat
      BY AtIs DEF Position
    <3>2. \A i \in Position : Left(s, i) \in Nat /\ Left(s, i) <= Len(s)
      BY <3>1 DEF Left, Position
    <3>3. \A j \in Position : Left(t, j) \in Nat /\ Left(t, j) <= Len(t)
      BY <3>1 DEF Left, Position
    <3>4. QED
      BY <3>1, <3>2, <3>3 DEF Rest
  <2> HIDE DEF N
  <2>2. PICK f : \A p \in D : Rest(p) < N => f[p] = Turn(f, p)
    BY <1>7, <2>1
  <2> DEFINE g == [p \in D |-> f[p]]
  <2>3. \A p \in D : g[p] = Turn(f, p)
    BY <2>1, <2>2
  <2>4. \A p \in D : ~Ended(p) => g[Later(p)] = f[Later(p)]
    BY <1>4
  <2>5. g = [p \in D |-> g[p]]
    OBVIOUS
  <2> HIDE DEF g, D
  <2>6. \A p \in D : g[p] = Turn(g, p)
    BY <2>3, <2>4
  <2> HIDE DEF Turn
  <2>7. g = [p \in D |-> Turn(g, p)]
    BY <2>5, <2>6
  <2> HIDE DEF Is
  <2>8. QED
    BY <1>3, <2>7
<1>9. Is(v)
  <2> HIDE DEF Is, v
  <2>1. QED
    BY <1>1, <1>8
<1>10. v = [p \in D |-> Turn(v, p)]
  <2> HIDE DEF Is, v, Turn, D
  <2>1. QED
    BY <1>3, <1>9
<1>11. \A p \in D : v[p] = Turn(v, p)
  <2> HIDE DEF v, Turn, D
  <2>1. QED
    BY <1>10
<1>12. ASSUME NEW i \in Position, NEW j \in Position
       PROVE  /\ ComparePart(s, i, t, j) # 0 => v[<<i, j>>] = ComparePart(s, i, t, j)
              /\ i > Len(s) /\ j > Len(t) => v[<<i, j>>] = 0
              /\ ComparePart(s, i, t, j) = 0 /\ ~(i > Len(s) /\ j > Len(t)) =>
                   v[<<i, j>>] = v[<<After(s, i), After(t, j)>>]
  <2> DEFINE p == <<i, j>>
  <2>1. p \in D /\ Part(p) = ComparePart(s, i, t, j) /\ (Ended(p) <=> i > Len(s) /\ j > Len(t))
        /\ Later(p) = <<After(s, i), After(t, j)>>
    BY DEF Part, Ended, Later
  <2>2. Ended(p) => Part(p) = 0
    BY <2>1, PartsCompare
  <2>3. v[p] = Turn(v, p)
    BY <1>11, <2>1
  <2> HIDE DEF v, p, D
  <2>4. QED
    BY <2>1, <2>2, <2>3 DEF p
<1>13. QED
  BY <1>12

\* Behind both ends the answer is 0.
LEMMA BehindTheEnds ==
  ASSUME NEW s \in Text, NEW i \in Position, NEW t \in Text, NEW j \in Position,
         i > Len(s), j > Len(t)
  PROVE  VerRevCmp(s, t)[<<i, j>>] = 0
BY VerRevCmpUnfolds

\* Behind both ends the answer stays 0, so that only the parts matter.
LEMMA AnswerIs ==
  ASSUME NEW s \in Text, NEW i \in Position, NEW t \in Text, NEW j \in Position
  PROVE  /\ ComparePart(s, i, t, j) # 0 =>
              VerRevCmp(s, t)[<<i, j>>] = ComparePart(s, i, t, j)
         /\ ComparePart(s, i, t, j) = 0 =>
              VerRevCmp(s, t)[<<i, j>>] = VerRevCmp(s, t)[<<After(s, i), After(t, j)>>]
         /\ Left(s, i) + Left(t, j) = 0 => VerRevCmp(s, t)[<<i, j>>] = 0
<1> DEFINE a == After(s, i)
           b == After(t, j)
<1>1. /\ Left(s, i) \in Nat /\ Left(t, j) \in Nat
      /\ i <= Len(s) <=> Left(s, i) # 0
      /\ j <= Len(t) <=> Left(t, j) # 0
      /\ a \in Position /\ b \in Position
      /\ i > Len(s) => Left(s, a) = 0
      /\ j > Len(t) => Left(t, b) = 0
      /\ a <= Len(s) <=> Left(s, a) # 0
      /\ b <= Len(t) <=> Left(t, b) # 0
  BY AfterIs
<1>2. Len(s) \in Nat /\ Len(t) \in Nat /\ i \in Nat /\ j \in Nat /\ a \in Nat /\ b \in Nat
  BY <1>1, AtIs DEF Position
<1>3. Left(s, i) + Left(t, j) = 0 => i > Len(s) /\ j > Len(t)
  BY <1>1, <1>2
<1>4. i > Len(s) /\ j > Len(t) => a > Len(s) /\ b > Len(t)
  <2> HIDE DEF a, b
  <2>1. QED
    BY <1>1, <1>2
<1>5. i > Len(s) /\ j > Len(t) => VerRevCmp(s, t)[<<i, j>>] = 0 /\ VerRevCmp(s, t)[<<a, b>>] = 0
  <2> HIDE DEF a, b
  <2>1. a \in Position /\ b \in Position
    BY <1>1
  <2>2. QED
    BY <1>4, <2>1, BehindTheEnds
<1>6. QED
  BY <1>3, <1>5, VerRevCmpUnfolds

\* Texts compare alike in both directions, from any two positions on.
LEMMA AnswersCompare ==
  ASSUME NEW s \in Text, NEW t \in Text
  PROVE  \A i, j \in Position :
           /\ VerRevCmp(s, t)[<<i, j>>] \in Int
           /\ VerRevCmp(s, t)[<<i, j>>] = -VerRevCmp(t, s)[<<j, i>>]
<1> DEFINE v == VerRevCmp(s, t)
           w == VerRevCmp(t, s)
           Good(i, j) == v[<<i, j>>] \in Int /\ v[<<i, j>>] = -w[<<j, i>>]
           T == {N \in Nat : \A i, j \in Position : Left(s, i) + Left(t, j) <= N => Good(i, j)}
<1>1. ASSUME NEW i \in Position, NEW j \in Position
      PROVE  /\ After(s, i) \in Position /\ Left(s, i) \in Nat /\ Left(s, After(s, i)) \in Nat
             /\ After(t, j) \in Position /\ Left(t, j) \in Nat /\ Left(t, After(t, j)) \in Nat
             /\ Left(s, i) + Left(t, j) = 0 \/
                  Left(s, After(s, i)) + Left(t, After(t, j)) < Left(s, i) + Left(t, j)
  <2>1. /\ After(s, i) \in Position /\ Left(s, i) \in Nat /\ Left(s, After(s, i)) \in Nat
        /\ Left(s, i) # 0 => Left(s, After(s, i)) < Left(s, i)
        /\ Left(s, i) = 0 => Left(s, After(s, i)) = 0
    BY AfterIs, AtIs DEF Position
  <2>2. /\ After(t, j) \in Position /\ Left(t, j) \in Nat /\ Left(t, After(t, j)) \in Nat
        /\ Left(t, j) # 0 => Left(t, After(t, j)) < Left(t, j)
        /\ Left(t, j) = 0 => Left(t, After(t, j)) = 0
    BY AfterIs, AtIs DEF Position
  <2>3. QED
    BY <2>1, <2>2
<1>2. ASSUME NEW i \in Position, NEW j \in Position,
             ComparePart(s, i, t, j) = 0 => Good(After(s, i), After(t, j)) \/ Left(s, i) + Left(t, j) = 0
      PROVE  Good(i, j)
  <2>1. /\ ComparePart(s, i, t, j) \in Int /\ ComparePart(t, j, s, i) \in Int
        /\ ComparePart(s, i, t, j) = -ComparePart(t, j, s, i)
    BY PartsCompare
  <2>2. /\ ComparePart(s, i, t, j) # 0 => v[<<i, j>>] = ComparePart(s, i, t, j)
        /\ ComparePart(s, i, t, j) = 0 => v[<<i, j>>] = v[<<After(s, i), After(t, j)>>]
        /\ Left(s, i) + Left(t, j) = 0 => v[<<i, j>>] = 0
    BY AnswerIs
  <2>3. /\ ComparePart(t, j, s, i) # 0 => w[<<j, i>>] = ComparePart(t, j, s, i)
        /\ ComparePart(t, j, s, i) = 0 => w[<<j, i>>] = w[<<After(t, j), After(s, i)>>]
        /\ Left(t, j) + Left(s, i) = 0 => w[<<j, i>>] = 0
    BY AnswerIs
  <2>4. Left(s, i) + Left(t, j) = Left(t, j) + Left(s, i)
    <3>1. \A x, y \in Nat : x + y = y + x
      OBVIOUS
    <3>2. Left(s, i) \in Nat /\ Left(t, j) \in Nat
      BY <1>1
    <3>3. QED
      BY <3>1, <3>2
  <2> HIDE DEF v, w
  <2>5. CASE ComparePart(s, i, t, j) # 0
    BY <2>1, <2>2, <2>3, <2>5
  <2>6. CASE Left(s, i) + Left(t, j) = 0
    BY <2>2, <2>3, <2>4, <2>6
  <2>7. CASE ComparePart(s, i, t, j) = 0 /\ Left(s, i) + Left(t, j) # 0
    BY <1>2, <2>1, <2>2, <2>3, <2>7
  <2>8. QED
    BY <2>5, <2>6, <2>7
<1> HIDE DEF Good
<1>3. 0 \in T
  <2>1. ASSUME NEW i \in Position, NEW j \in Position, Left(s, i) + Left(t, j) <= 0
        PROVE  Good(i, j)
    BY <1>1, <1>2, <2>1
  <2>2. QED
    BY <2>1
<1>4. ASSUME NEW N \in Nat, N \in T PROVE N + 1 \in T
  <2>1. ASSUME NEW i \in Position, NEW j \in Position, Left(s, i) + Left(t, j) <= N + 1
        PROVE  Good(i, j)
    <3>1. Left(s, i) + Left(t, j) = 0 \/ Left(s, After(s, i)) + Left(t, After(t, j)) <= N
      BY <1>1, <2>1
    <3>2. QED
      BY <1>1, <1>2, <1>4, <3>1
  <2>2. QED
    BY <2>1
<1>5. Nat \subseteq T
  <2> HIDE DEF T
  <2>1. QED
    BY <1>3, <1>4, SetInduction
<1>6. \A i, j \in Position : Good(i, j)
  <2>1. ASSUME NEW i \in Position, NEW j \in Position PROVE Good(i, j)
    <3>1. Left(s, i) + Left(t, j) \in Nat
      BY <1>1
    <3>2. QED
      BY <1>5, <3>1
  <2>2. QED
    BY <2>1
<1>7. QED
  BY <1>6 DEF Good

\* And transitively.
LEMMA AnswersTransitive ==
  ASSUME NEW s \in Text, NEW t \in Text, NEW u \in Text
  PROVE  \A i, j, k \in Position :
           VerRevCmp(s, t)[<<i, j>>] <= 0 /\ VerRevCmp(t, u)[<<j, k>>] <= 0 =>
             VerRevCmp(s, u)[<<i, k>>] <= 0
<1> DEFINE v == VerRevCmp(s, t)
           w == VerRevCmp(t, u)
           x == VerRevCmp(s, u)
           L(i, j, k) == Left(s, i) + Left(t, j) + Left(u, k)
           Good(i, j, k) == v[<<i, j>>] <= 0 /\ w[<<j, k>>] <= 0 => x[<<i, k>>] <= 0
           T == {N \in Nat : \A i, j, k \in Position : L(i, j, k) <= N => Good(i, j, k)}
<1>1. ASSUME NEW i \in Position, NEW j \in Position, NEW k \in Position
      PROVE  /\ After(s, i) \in Position /\ After(t, j) \in Position /\ After(u, k) \in Position
             /\ L(i, j, k) \in Nat
             /\ L(i, j, k) = 0 \/ L(After(s, i), After(t, j), After(u, k)) < L(i, j, k)
             /\ L(i, j, k) = 0 => Left(s, i) + Left(u, k) = 0
  <2>1. /\ After(s, i) \in Position /\ Left(s, i) \in Nat /\ Left(s, After(s, i)) \in Nat
        /\ Left(s, i) # 0 => Left(s, After(s, i)) < Left(s, i)
        /\ Left(s, i) = 0 => Left(s, After(s, i)) = 0
    BY AfterIs, AtIs DEF Position
  <2>2. /\ After(t, j) \in Position /\ Left(t, j) \in Nat /\ Left(t, After(t, j)) \in Nat
        /\ Left(t, j) # 0 => Left(t, After(t, j)) < Left(t, j)
        /\ Left(t, j) = 0 => Left(t, After(t, j)) = 0
    BY AfterIs, AtIs DEF Position
  <2>3. /\ After(u, k) \in Position /\ Left(u, k) \in Nat /\ Left(u, After(u, k)) \in Nat
        /\ Left(u, k) # 0 => Left(u, After(u, k)) < Left(u, k)
        /\ Left(u, k) = 0 => Left(u, After(u, k)) = 0
    BY AfterIs, AtIs DEF Position
  <2>4. QED
    BY <2>1, <2>2, <2>3
<1>2. ASSUME NEW i \in Position, NEW j \in Position, NEW k \in Position,
             Good(After(s, i), After(t, j), After(u, k)) \/ L(i, j, k) = 0
      PROVE  Good(i, j, k)
  <2>1. SUFFICES ASSUME v[<<i, j>>] <= 0, w[<<j, k>>] <= 0 PROVE x[<<i, k>>] <= 0
    OBVIOUS
  <2>2. /\ ComparePart(s, i, t, j) # 0 => v[<<i, j>>] = ComparePart(s, i, t, j)
        /\ ComparePart(s, i, t, j) = 0 => v[<<i, j>>] = v[<<After(s, i), After(t, j)>>]
        /\ ComparePart(t, j, u, k) # 0 => w[<<j, k>>] = ComparePart(t, j, u, k)
        /\ ComparePart(t, j, u, k) = 0 => w[<<j, k>>] = w[<<After(t, j), After(u, k)>>]
        /\ ComparePart(s, i, u, k) # 0 => x[<<i, k>>] = ComparePart(s, i, u, k)
        /\ ComparePart(s, i, u, k) = 0 => x[<<i, k>>] = x[<<After(s, i), After(u, k)>>]
        /\ Left(s, i) + Left(u, k) = 0 => x[<<i, k>>] = 0
    BY AnswerIs
  <2> HIDE DEF v, w, x
  <2>3. ComparePart(s, i, t, j) <= 0 /\ ComparePart(t, j, u, k) <= 0
    BY <2>1, <2>2
  <2>4. /\ ComparePart(s, i, u, k) <= 0
        /\ ComparePart(s, i, u, k) = 0 => ComparePart(s, i, t, j) = 0 /\ ComparePart(t, j, u, k) = 0
    BY <2>3, PartsTransitive
  <2>5. CASE ComparePart(s, i, u, k) # 0
    BY <2>2, <2>4, <2>5
  <2>6. CASE L(i, j, k) = 0
    BY <1>1, <2>2, <2>6
  <2>7. CASE ComparePart(s, i, u, k) = 0 /\ L(i, j, k) # 0
    BY <1>2, <2>1, <2>2, <2>4, <2>7
  <2>8. QED
    BY <2>5, <2>6, <2>7
<1> HIDE DEF Good, L
<1>3. 0 \in T
  <2>1. ASSUME NEW i \in Position, NEW j \in Position, NEW k \in Position, L(i, j, k) <= 0
        PROVE  Good(i, j, k)
    BY <1>1, <1>2, <2>1
  <2>2. QED
    BY <2>1
<1>4. ASSUME NEW N \in Nat, N \in T PROVE N + 1 \in T
  <2>1. ASSUME NEW i \in Position, NEW j \in Position, NEW k \in Position, L(i, j, k) <= N + 1
        PROVE  Good(i, j, k)
    <3>1. L(i, j, k) = 0 \/ L(After(s, i), After(t, j), After(u, k)) <= N
      <4>1. L(After(s, i), After(t, j), After(u, k)) \in Nat
        BY <1>1
      <4>2. QED
        BY <1>1, <2>1, <4>1
    <3>2. QED
      BY <1>1, <1>2, <1>4, <3>1
  <2>2. QED
    BY <2>1
<1>5. Nat \subseteq T
  <2> HIDE DEF T
  <2>1. QED
    BY <1>3, <1>4, SetInduction
<1>6. \A i, j, k \in Position : Good(i, j, k)
  <2>1. ASSUME NEW i \in Position, NEW j \in Position, NEW k \in Position PROVE Good(i, j, k)
    <3>1. L(i, j, k) \in Nat
      BY <1>1
    <3>2. L(i, j, k) \in T /\ L(i, j, k) <= L(i, j, k)
      BY <1>5, <3>1
    <3>3. QED
      BY <3>2
  <2>2. QED
    BY <2>1
<1>7. QED
  BY <1>6 DEF Good

\* A byte c that is not a digit, behind the end of a text: up to there the
\* longer text has the same parts.
LEMMA SamePartsBefore ==
  ASSUME NEW s \in Text, NEW c \in 1..255, ~IsDigit(c), NEW i \in 1..Len(s)
  PROVE  /\ Append(s, c) \in Text
         /\ ComparePart(Append(s, c), i, s, i) = 0
         /\ After(Append(s, c), i) = After(s, i)
         /\ After(s, i) \in (i + 1)..(Len(s) + 1)
<1> DEFINE a == Append(s, c)
           k == SkipZeros(s, i)
           n == Run(s, k)
<1>1. a \in Text /\ Len(a) = Len(s) + 1 /\ Len(s) \in Nat /\ i \in Position
      /\ \A x \in 1..Len(s) : a[x] = s[x]
      /\ a[Len(s) + 1] = c
  BY DEF Text, Position
<1>2. \A x \in Position : /\ x <= Len(s) => At(a, x) = s[x] /\ At(s, x) = s[x]
                          /\ x = Len(s) + 1 => At(a, x) = c /\ At(s, x) = 0
                          /\ x > Len(s) + 1 => At(a, x) = 0 /\ At(s, x) = 0
  <2> HIDE DEF a
  <2>1. QED
    BY <1>1 DEF At, Position
<1> HIDE DEF a
<1>3. ~IsDigit(0) /\ c # 48 /\ ~IsDigit(c)
  BY DEF IsDigit
<1>4. \A x \in Position : /\ DigitAt(a, x) <=> DigitAt(s, x)
                          /\ At(a, x) = 48 <=> At(s, x) = 48
                          /\ DigitAt(s, x) => x <= Len(s) /\ a[x] = s[x]
  <2>1. ASSUME NEW x \in Position
        PROVE  /\ DigitAt(a, x) <=> IsDigit(At(a, x))
               /\ DigitAt(s, x) <=> IsDigit(At(s, x))
               /\ DigitAt(s, x) => x \in 1..Len(s)
               /\ x <= Len(s) \/ x = Len(s) + 1 \/ x > Len(s) + 1
    <3>1. x \in Nat \ {0}
      BY DEF Position
    <3>2. DigitAt(s, x) => x <= Len(s)
      BY DEF DigitAt
    <3>3. QED
      BY <1>1, <3>1, <3>2, AtIs
  <2>2. QED
    BY <1>1, <1>2, <1>3, <2>1
<1>5. k \in Position /\ k >= i /\ At(s, k) # 48 /\ \A l \in i..(k - 1) : At(s, l) = 48
  BY <1>1, SkipZerosIs
<1> HIDE DEF k, n
<1>6. SkipZeros(a, i) = k
  <2> DEFINE g == SkipZeros(a, i)
  <2>1. g \in Position /\ g >= i /\ At(a, g) # 48 /\ \A l \in i..(g - 1) : At(a, l) = 48
    BY <1>1, SkipZerosIs
  <2> HIDE DEF g
  <2>2. ~(g < k)
    <3>1. g < k => g \in i..(k - 1)
      BY <1>1, <1>5, <2>1 DEF Position
    <3>2. QED
      BY <1>4, <1>5, <2>1, <3>1
  <2>3. ~(k < g)
    <3>1. k < g => k \in i..(g - 1)
      BY <1>1, <1>5, <2>1 DEF Position
    <3>2. QED
      BY <1>4, <1>5, <2>1, <3>1
  <2>4. g = k
    BY <1>5, <2>1, <2>2, <2>3 DEF Position
  <2>5. QED
    BY <2>4 DEF g
<1>7. n \in Nat /\ ~DigitAt(s, k + n) /\ \A l \in 0..(n - 1) : DigitAt(s, k + l)
  BY <1>5, ShorterIsCommon DEF n
<1>8. \A l \in Nat : k + l \in Position
  BY <1>5 DEF Position
<1>9. Run(a, k) = n
  <2>1. Common(a, k, a, k, n)
    BY <1>4, <1>7, <1>8 DEF Common
  <2>2. QED
    BY <1>1, <1>5, <1>7, <2>1, CommonDigitsIs DEF Run
<1>10. CompareNumbers(a, k, s, k) = 0
  <2>1. SameDigits(a, k, s, k, n)
    BY <1>4, <1>7, <1>8 DEF SameDigits
  <2>2. QED
    BY <1>1, <1>5, <1>9, <2>1, NumbersCompare DEF n
<1>11. k <= Len(s) + 1
  <2>1. k - 1 >= i => k - 1 \in i..(k - 1) /\ k - 1 \in Position
    BY <1>1, <1>5 DEF Position
  <2>2. k - 1 >= i => k - 1 <= Len(s)
    BY <1>1, <1>2, <1>5, <2>1 DEF Position
  <2>3. QED
    BY <1>1, <1>5, <2>2 DEF Position
<1>12. k + n <= Len(s) + 1
  <2>1. n > 0 => k + (n - 1) <= Len(s)
    <3>1. n > 0 => n - 1 \in 0..(n - 1) /\ n - 1 \in Nat
      BY <1>7
    <3>2. QED
      BY <1>4, <1>7, <1>8, <3>1
  <2>2. QED
    BY <1>1, <1>5, <1>7, <1>11, <2>1 DEF Position
<1>13. At(a, i) = At(s, i) /\ (OtherAt(a, i) <=> OtherAt(s, i)) /\ At(s, i) \in 0..255
  <2>1. /\ At(a, i) = At(s, i) /\ At(s, i) \in 0..255
        /\ OtherAt(a, i) <=> At(a, i) # 0 /\ ~IsDigit(At(a, i))
        /\ OtherAt(s, i) <=> At(s, i) # 0 /\ ~IsDigit(At(s, i))
    BY <1>1, <1>2, AtIs
  <2>2. QED
    BY <2>1
<1>14. ComparePart(a, i, s, i) = 0
  <2>1. Order(At(s, i)) \in Int
    BY <1>13, OrderIs
  <2>2. QED
    BY <1>6, <1>10, <1>13, <2>1 DEF ComparePart, k
<1>15. After(a, i) = After(s, i)
  BY <1>6, <1>9, <1>13 DEF After, k, n
<1>16. After(s, i) <= Len(s) + 1
  <2>1. OtherAt(s, i) => After(s, i) = i + 1
    BY DEF After
  <2>2. ~OtherAt(s, i) => After(s, i) = k + n
    BY DEF After, k, n
  <2>3. QED
    BY <1>1, <1>12, <2>1, <2>2
<1>17. After(s, i) \in Nat /\ After(s, i) > i
  <2>1. After(s, i) \in Position /\ Left(s, After(s, i)) < Left(s, i)
    BY <1>1, AfterIs
  <2>2. QED
    BY <1>1, <1>16, <2>1 DEF Left, Position
<1>18. QED
  BY <1>1, <1>14, <1>15, <1>16, <1>17 DEF a

\* So the byte against the end of the other decides.
LEMMA EndDecides ==
  ASSUME NEW s \in Text, NEW c \in 1..255, ~IsDigit(c)
  PROVE  Compare(Append(s, c), s) = Order(c)
<1> DEFINE a == Append(s, c)
           v == VerRevCmp(a, s)
           T == {N \in Nat : \A i \in 1..(Len(s) + 1) : Len(s) + 1 - i <= N => v[<<i, i>>] = Order(c)}
<1>1. a \in Text /\ Len(a) = Len(s) + 1 /\ Len(s) \in Nat /\ a[Len(s) + 1] = c
  BY DEF Text
<1>2. v[<<Len(s) + 1, Len(s) + 1>>] = Order(c)
  <2> HIDE DEF a
  <2> DEFINE e == Len(s) + 1
  <2>1. e \in Position /\ e <= Len(a) /\ e > Len(s)
    BY <1>1 DEF Position
  <2>2. At(s, e) = 0 /\ At(a, e) = c /\ OtherAt(a, e)
    <3>1. OtherAt(a, e)
      BY <1>1, <2>1 DEF OtherAt
    <3>2. At(s, e) = 0
      BY <2>1, AtIs
    <3>3. At(a, e) = c
      BY <1>1, <2>1 DEF At
    <3>4. QED
      BY <3>1, <3>2, <3>3
  <2>3. Order(c) \in Int /\ Order(c) # 0 /\ Order(0) = 0
    <3>1. c \in 0..255 /\ 0 \in 0..255 /\ c # 0
      OBVIOUS
    <3>2. QED
      BY <3>1, OrderIs
  <2>4. ComparePart(a, e, s, e) = Order(c)
    <3>1. ComparePart(a, e, s, e) = Order(c) - Order(0)
      BY <2>2 DEF ComparePart
    <3>2. QED
      BY <2>3, <3>1
  <2> HIDE DEF e
  <2>5. v[<<e, e>>] = Order(c)
    BY <1>1, <2>1, <2>3, <2>4, AnswerIs
  <2>6. QED
    BY <2>5 DEF e
<1>3. ASSUME NEW i \in 1..Len(s)
      PROVE  v[<<i, i>>] = v[<<After(s, i), After(s, i)>>] /\ After(s, i) \in (i + 1)..(Len(s) + 1)
  <2>1. /\ ComparePart(a, i, s, i) = 0 /\ After(a, i) = After(s, i)
        /\ After(s, i) \in (i + 1)..(Len(s) + 1) /\ i \in Position
    <3>1. i \in Position
      BY <1>1 DEF Position
    <3>2. ComparePart(Append(s, c), i, s, i) = 0
      BY SamePartsBefore
    <3>3. After(Append(s, c), i) = After(s, i)
      BY SamePartsBefore
    <3>4. After(s, i) \in (i + 1)..(Len(s) + 1)
      BY SamePartsBefore
    <3>5. QED
      BY <3>1, <3>2, <3>3, <3>4
  <2> HIDE DEF a
  <2>2. QED
    BY <1>1, <2>1, AnswerIs
<1> HIDE DEF v, a
<1>4. 0 \in T
  <2>1. \A i \in 1..(Len(s) + 1) : Len(s) + 1 - i <= 0 => i = Len(s) + 1
    BY <1>1
  <2>2. QED
    BY <1>2, <2>1
<1>5. ASSUME NEW N \in Nat, N \in T PROVE N + 1 \in T
  <2>1. ASSUME NEW i \in 1..(Len(s) + 1), Len(s) + 1 - i <= N + 1 PROVE v[<<i, i>>] = Order(c)
    <3>1. CASE i = Len(s) + 1
      BY <1>2, <3>1
    <3>2. CASE i \in 1..Len(s)
      <4>1. /\ After(s, i) \in (i + 1)..(Len(s) + 1)
            /\ v[<<i, i>>] = v[<<After(s, i), After(s, i)>>]
        BY <1>3, <3>2
      <4>2. After(s, i) \in 1..(Len(s) + 1) /\ Len(s) + 1 - After(s, i) <= N
        BY <1>1, <2>1, <4>1
      <4>3. QED
        BY <1>5, <4>1, <4>2
    <3>3. QED
      BY <1>1, <3>1, <3>2
  <2>2. QED
    BY <2>1
<1>6. Nat \subseteq T
  <2> HIDE DEF T
  <2>1. QED
    BY <1>4, <1>5, SetInduction
<1>7. v[<<1, 1>>] = Order(c)
  <2>1. 1 \in 1..(Len(s) + 1) /\ Len(s) + 1 - 1 <= Len(s)
    BY <1>1
  <2>2. Len(s) \in T
    BY <1>1, <1>6
  <2>3. QED
    BY <2>1, <2>2
<1>8. QED
  BY <1>7 DEF Compare, v, a

\* V[n] is the number that the first n digits of a text stand for.
Counts(s, V) ==
  /\ V[0] = 0
  /\ \A n \in 1..Len(s) : V[n] = 10 * V[n - 1] + (s[n] - 48)
  /\ \A n \in 0..Len(s) : V[n] \in Nat

\* There are such numbers, and the last of them is the value of the text.
LEMMA ValueUnfolds ==
  ASSUME NEW s \in Text, IsNumber(s)
  PROVE  \E V : Counts(s, V) /\ Value(s) = V[Len(s)]
<1> DEFINE L == Len(s)
           Turn(f, n) == IF n = 0 THEN 0 ELSE 10 * f[n - 1] + (s[n] - 48)
           Is(f) == f = [n \in 0..L |-> Turn(f, n)]
           V == CHOOSE f : Is(f)
           T == {N \in Nat : \E f : \A n \in 0..L : n < N => f[n] = Turn(f, n)}
<1>1. L \in Nat /\ \A n \in 1..L : s[n] \in 48..57
  BY DEF Text, IsNumber, IsDigit
<1>2. Value(s) = V[L]
  BY DEF Value
<1> HIDE DEF L
<1>3. 0 \in T
  <2>1. \A n \in 0..L : ~(n < 0)
    BY <1>1
  <2>2. QED
    BY <2>1
<1>4. ASSUME NEW N \in Nat, N \in T PROVE N + 1 \in T
  <2>1. PICK f : \A n \in 0..L : n < N => f[n] = Turn(f, n)
    BY <1>4
  <2> DEFINE g == [n \in 0..L |-> IF n < N THEN f[n] ELSE Turn(f, n)]
  <2>2. \A n \in 0..L : n < N + 1 => g[n] = Turn(f, n)
    <3> HIDE DEF Turn
    <3>1. QED
      BY <2>1
  <2>3. \A n \in 0..L : n < N => g[n] = f[n]
    OBVIOUS
  <2> HIDE DEF g
  <2>4. \A n \in 0..L : n < N + 1 /\ n # 0 => n - 1 \in 0..L /\ n - 1 < N
    BY <1>1
  <2>5. ASSUME NEW n \in 0..L, n < N + 1 PROVE g[n] = Turn(g, n)
    BY <2>2, <2>3, <2>4, <2>5
  <2>6. QED
    BY <2>5
<1>5. L + 1 \in T
  <2> HIDE DEF T
  <2>1. Nat \subseteq T
    BY <1>3, <1>4, SetInduction
  <2>2. QED
    BY <1>1, <2>1
<1>6. \E f : Is(f)
  <2>1. \A n \in 0..L : n < L + 1
    BY <1>1
  <2>2. PICK f : \A n \in 0..L : f[n] = Turn(f, n)
    BY <1>5, <2>1
  <2> DEFINE g == [n \in 0..L |-> f[n]]
  <2>3. \A n \in 0..L : n # 0 => n - 1 \in 0..L
    BY <1>1
  <2>4. \A n \in 0..L : g[n] = f[n]
    OBVIOUS
  <2>5. g = [n \in 0..L |-> g[n]]
    OBVIOUS
  <2> HIDE DEF g
  <2>6. \A n \in 0..L : g[n] = Turn(g, n)
    BY <2>2, <2>3, <2>4
  <2>7. g = [n \in 0..L |-> Turn(g, n)]
    <3> HIDE DEF Turn
    <3>1. QED
      BY <2>5, <2>6
  <2>8. QED
    BY <2>7
<1>7. Is(V)
  <2> HIDE DEF Is
  <2>1. QED
    BY <1>6
<1>8. \A n \in 0..L : V[n] = Turn(V, n)
  <2> HIDE DEF V, Turn
  <2>1. QED
    BY <1>7
<1> HIDE DEF V
<1>9. V[0] = 0 /\ \A n \in 1..L : V[n] = 10 * V[n - 1] + (s[n] - 48)
  <2>1. 0 \in 0..L /\ \A n \in 1..L : n \in 0..L /\ n # 0
    BY <1>1
  <2>2. QED
    BY <1>8, <2>1
<1>10. \A n \in 0..L : V[n] \in Nat
  <2> DEFINE U == {n \in Nat : n <= L => V[n] \in Nat}
  <2>1. 0 \in U
    BY <1>9
  <2>2. ASSUME NEW n \in Nat, n \in U PROVE n + 1 \in U
    <3>1. CASE n + 1 <= L
      <4>1. n \in 0..L /\ n + 1 \in 1..L /\ n + 1 - 1 = n /\ V[n] \in Nat
        BY <1>1, <2>2, <3>1
      <4>2. V[n + 1] = 10 * V[n] + (s[n + 1] - 48) /\ s[n + 1] \in 48..57
        BY <1>1, <1>9, <4>1
      <4>3. \A x \in Nat, d \in 48..57 : 10 * x + (d - 48) \in Nat
        OBVIOUS
      <4>4. V[n + 1] \in Nat
        BY <4>1, <4>2, <4>3
      <4>5. QED
        BY <4>4
    <3>2. QED
      BY <1>1, <3>1
  <2>3. Nat \subseteq U
    <3> HIDE DEF U
    <3>1. QED
      BY <2>1, <2>2, SetInduction
  <2>4. QED
    BY <1>1, <2>3
<1>11. QED
  BY <1>2, <1>9, <1>10 DEF L, Counts

\* A number that is ahead of another with as many digits still to come stays
\* ahead, and equal numbers stay equal under equal digits.
LEMMA LeadIsKept ==
  ASSUME NEW s \in Text, NEW t \in Text, IsNumber(s), IsNumber(t),
         NEW V, NEW W, Counts(s, V), Counts(t, W),
         NEW p \in 0..Len(s), NEW q \in 0..Len(t), NEW m \in Nat,
         p + m <= Len(s), q + m <= Len(t)
  PROVE  /\ V[p] > W[q] => V[p + m] > W[q + m]
         /\ V[p] = W[q] /\ SameDigits(s, p + 1, t, q + 1, m) => V[p + m] = W[q + m]
<1> DEFINE Good(n) ==
             /\ V[p] > W[q] => V[p + n] > W[q + n]
             /\ V[p] = W[q] /\ SameDigits(s, p + 1, t, q + 1, m) => V[p + n] = W[q + n]
           T == {n \in Nat : n <= m => Good(n)}
<1>1. Len(s) \in Nat /\ Len(t) \in Nat /\ p \in Nat /\ q \in Nat
      /\ (\A n \in 1..Len(s) : s[n] \in 48..57) /\ (\A n \in 1..Len(t) : t[n] \in 48..57)
  BY DEF Text, IsNumber, IsDigit
<1>2. 0 \in T
  <2>1. p + 0 = p /\ q + 0 = q
    BY <1>1
  <2>2. QED
    BY <2>1
<1>3. ASSUME NEW n \in Nat, n \in T PROVE n + 1 \in T
  <2>1. SUFFICES ASSUME n + 1 <= m PROVE Good(n + 1)
    OBVIOUS
  <2>2. Good(n)
    BY <1>3, <2>1
  <2> DEFINE x == p + n
             y == q + n
  <2>3. /\ x \in 0..Len(s) /\ x + 1 \in 1..Len(s) /\ x + 1 - 1 = x /\ p + (n + 1) = x + 1
        /\ y \in 0..Len(t) /\ y + 1 \in 1..Len(t) /\ y + 1 - 1 = y /\ q + (n + 1) = y + 1
        /\ n + 1 \in 1..m
    BY <1>1, <2>1
  <2> HIDE DEF x, y
  <2>4. /\ V[x + 1] = 10 * V[x] + (s[x + 1] - 48) /\ s[x + 1] \in 48..57 /\ V[x] \in Nat
        /\ W[y + 1] = 10 * W[y] + (t[y + 1] - 48) /\ t[y + 1] \in 48..57 /\ W[y] \in Nat
    BY <1>1, <2>3 DEF Counts
  <2>5. \A c, d \in 48..57 : \A v, w \in Nat : v > w => 10 * v + (c - 48) > 10 * w + (d - 48)
    OBVIOUS
  <2>6. ASSUME V[x] > W[y] PROVE V[x + 1] > W[y + 1]
    <3>1. 10 * V[x] + (s[x + 1] - 48) > 10 * W[y] + (t[y + 1] - 48)
      BY <2>4, <2>5, <2>6, Zenon
    <3>2. QED
      BY <2>4, <3>1, Zenon
  <2>7. ASSUME V[x] = W[y], s[x + 1] = t[y + 1] PROVE V[x + 1] = W[y + 1]
    <3>1. 10 * V[x] + (s[x + 1] - 48) = 10 * W[y] + (t[y + 1] - 48)
      BY <2>7, Zenon
    <3>2. QED
      BY <2>4, <3>1, Zenon
  <2>8. ASSUME SameDigits(s, p + 1, t, q + 1, m) PROVE s[x + 1] = t[y + 1]
    <3>1. n \in 0..(m - 1) /\ p + 1 + n = x + 1 /\ q + 1 + n = y + 1
      BY <1>1, <2>1 DEF x, y
    <3>2. s[p + 1 + n] = t[q + 1 + n]
      BY <2>8, <3>1 DEF SameDigits
    <3>3. QED
      BY <3>1, <3>2
  <2>9. /\ V[p] > W[q] => V[x] > W[y]
        /\ V[p] = W[q] /\ SameDigits(s, p + 1, t, q + 1, m) => V[x] = W[y]
    BY <2>2 DEF x, y
  <2>10. QED
    BY <2>3, <2>6, <2>7, <2>8, <2>9
<1>4. m \in T
  <2> HIDE DEF T
  <2>1. QED
    BY <1>2, <1>3, SetInduction
<1>5. QED
  BY <1>4

\* A text of digits is zeros and then one number up to the end, whose value is
\* not 0 from its first digit on.
LEMMA NumberIs ==
  ASSUME NEW s \in Text, IsNumber(s), NEW V, Counts(s, V)
  PROVE  LET k == SkipZeros(s, 1)
             m == Run(s, k)
         IN /\ k \in 1..(Len(s) + 1) /\ m \in Nat /\ k + m = Len(s) + 1
            /\ V[k - 1] = 0
            /\ \A n \in k..Len(s) : V[n] > 0
<1> DEFINE k == SkipZeros(s, 1)
           m == Run(s, k)
<1>1. /\ Len(s) \in Nat /\ 1 \in Position
      /\ \A n \in 1..Len(s) : s[n] \in 48..57
      /\ V[0] = 0
      /\ \A n \in 1..Len(s) : V[n] = 10 * V[n - 1] + (s[n] - 48)
      /\ \A n \in 0..Len(s) : V[n] \in Nat
  BY DEF Text, IsNumber, IsDigit, Position, Counts
<1>2. k \in Position /\ k >= 1 /\ At(s, k) # 48 /\ \A l \in 1..(k - 1) : At(s, l) = 48
  BY <1>1, SkipZerosIs
<1> HIDE DEF k, m
<1>3. m \in Nat /\ ~DigitAt(s, k + m) /\ \A l \in 0..(m - 1) : DigitAt(s, k + l)
  BY <1>2, ShorterIsCommon DEF m
<1>4. \A x \in Position : /\ DigitAt(s, x) <=> x <= Len(s)
                          /\ x <= Len(s) => At(s, x) = s[x]
                          /\ x > Len(s) => At(s, x) = 0
  <2>1. \A x \in Position : x <= Len(s) => s[x] \in 48..57
    BY <1>1 DEF Position
  <2>2. QED
    BY <2>1, AtIs DEF DigitAt, IsDigit
<1>5. k <= Len(s) + 1
  <2>1. Len(s) + 1 \in Position /\ At(s, Len(s) + 1) # 48
    <3>1. Len(s) + 1 \in Position /\ Len(s) + 1 > Len(s)
      BY <1>1 DEF Position
    <3>2. At(s, Len(s) + 1) = 0
      BY <1>4, <3>1
    <3>3. QED
      BY <3>1, <3>2
  <2>2. k > Len(s) + 1 => Len(s) + 1 \in 1..(k - 1)
    BY <1>1, <1>2 DEF Position
  <2>3. QED
    BY <1>1, <1>2, <2>1, <2>2 DEF Position
<1>6. k + m = Len(s) + 1
  <2>1. k + m \in Position /\ k + m > Len(s)
    <3>1. k + m \in Position
      BY <1>2, <1>3 DEF Position
    <3>2. ~(k + m <= Len(s))
      BY <1>3, <1>4, <3>1
    <3>3. QED
      BY <1>1, <3>1, <3>2 DEF Position
  <2>2. m > 0 => k + (m - 1) <= Len(s)
    <3>1. m > 0 => m - 1 \in 0..(m - 1) /\ k + (m - 1) \in Position
      BY <1>2, <1>3 DEF Position
    <3>2. QED
      BY <1>3, <1>4, <3>1
  <2>3. QED
    BY <1>1, <1>2, <1>3, <1>5, <2>1, <2>2 DEF Position
<1>7. V[k - 1] = 0
  <2> DEFINE T == {n \in Nat : n <= k - 1 => V[n] = 0}
  <2>1. 0 \in T
    BY <1>1
  <2>2. ASSUME NEW n \in Nat, n \in T PROVE n + 1 \in T
    <3>1. SUFFICES ASSUME n + 1 <= k - 1 PROVE V[n + 1] = 0
      OBVIOUS
    <3>2. V[n] = 0
      BY <1>2, <2>2, <3>1 DEF Position
    <3>3. n + 1 \in 1..Len(s) /\ n + 1 - 1 = n /\ n + 1 \in 1..(k - 1) /\ n + 1 \in Position
      BY <1>1, <1>2, <1>5, <3>1 DEF Position
    <3>4. s[n + 1] = 48
      BY <1>2, <1>4, <3>3
    <3>5. V[n + 1] = 10 * V[n] + (s[n + 1] - 48)
      BY <1>1, <3>3
    <3>6. QED
      BY <3>2, <3>4, <3>5
  <2>3. k - 1 \in T
    <3> HIDE DEF T
    <3>1. Nat \subseteq T
      BY <2>1, <2>2, SetInduction
    <3>2. QED
      BY <1>2, <3>1 DEF Position
  <2>4. QED
    BY <1>2, <2>3 DEF Position
<1>8. \A n \in k..Len(s) : V[n] > 0
  <2> DEFINE T == {n \in Nat : k + n <= Len(s) => V[k + n] > 0}
  <2>1. 0 \in T
    <3>1. SUFFICES ASSUME k <= Len(s) PROVE V[k] > 0
      BY <1>2 DEF Position
    <3>2. k \in 1..Len(s) /\ s[k] # 48
      BY <1>2, <1>4, <3>1 DEF Position
    <3>3. V[k] = 10 * V[k - 1] + (s[k] - 48) /\ s[k] \in 48..57
      BY <1>1, <3>2
    <3>4. QED
      BY <1>7, <3>2, <3>3
  <2>2. ASSUME NEW n \in Nat, n \in T PROVE n + 1 \in T
    <3>1. SUFFICES ASSUME k + (n + 1) <= Len(s) PROVE V[k + (n + 1)] > 0
      OBVIOUS
    <3> DEFINE x == k + n
    <3>2. x \in 0..Len(s) /\ x + 1 \in 1..Len(s) /\ x + 1 - 1 = x /\ k + (n + 1) = x + 1
      BY <1>1, <1>2, <3>1 DEF Position
    <3>3. V[x] > 0
      BY <2>2, <3>2
    <3> HIDE DEF x
    <3>4. V[x + 1] = 10 * V[x] + (s[x + 1] - 48) /\ s[x + 1] \in 48..57 /\ V[x] \in Nat
      BY <1>1, <3>2
    <3>5. \A v \in Nat, d \in 48..57 : v > 0 => 10 * v + (d - 48) > 0
      OBVIOUS
    <3>6. 10 * V[x] + (s[x + 1] - 48) > 0
      BY <3>3, <3>4, <3>5, Zenon
    <3>7. QED
      BY <3>2, <3>4, <3>6, Zenon
  <2>3. Nat \subseteq T
    <3> HIDE DEF T
    <3>1. QED
      BY <2>1, <2>2, SetInduction
  <2>4. ASSUME NEW n \in k..Len(s) PROVE V[n] > 0
    <3>1. n - k \in Nat /\ k + (n - k) = n /\ n <= Len(s)
      BY <1>1, <1>2 DEF Position
    <3>2. n - k \in T
      BY <2>3, <3>1
    <3>3. QED
      BY <3>1, <3>2
  <2>5. QED
    BY <2>4
<1>9. k \in 1..(Len(s) + 1)
  BY <1>1, <1>2, <1>5 DEF Position
<1>10. QED
  BY <1>3, <1>6, <1>7, <1>8, <1>9 DEF k, m

\* Numbers without their leading zeros compare as their values.
LEMMA NumbersByValue ==
  ASSUME NEW s \in Text, NEW t \in Text, IsNumber(s), IsNumber(t)
  PROVE  LET c == CompareNumbers(s, SkipZeros(s, 1), t, SkipZeros(t, 1))
         IN /\ c > 0 => Value(s) > Value(t)
            /\ c = 0 => Value(s) = Value(t)
            /\ Value(s) \in Nat /\ Value(t) \in Nat
<1> DEFINE k == SkipZeros(s, 1)
           l == SkipZeros(t, 1)
           m == Run(s, k)
           n == Run(t, l)
           c == CompareNumbers(s, k, t, l)
<1>1. PICK V : Counts(s, V) /\ Value(s) = V[Len(s)]
  BY ValueUnfolds
<1>2. PICK W : Counts(t, W) /\ Value(t) = W[Len(t)]
  BY ValueUnfolds
<1>3. Len(s) \in Nat /\ Len(t) \in Nat
      /\ (\A x \in 1..Len(s) : s[x] \in 48..57) /\ (\A x \in 1..Len(t) : t[x] \in 48..57)
  BY DEF Text, IsNumber, IsDigit
<1>4. /\ k \in 1..(Len(s) + 1) /\ m \in Nat /\ k + m = Len(s) + 1
      /\ V[k - 1] = 0 /\ \A x \in k..Len(s) : V[x] > 0
  BY <1>1, NumberIs
<1>5. /\ l \in 1..(Len(t) + 1) /\ n \in Nat /\ l + n = Len(t) + 1
      /\ W[l - 1] = 0
  BY <1>2, NumberIs
<1>6. k \in Position /\ l \in Position
  BY <1>3, <1>4, <1>5 DEF Position
<1>7. /\ m > n => c = 1
      /\ m < n => c = -1
      /\ m = n /\ SameDigits(s, k, t, l, n) => c = 0
      /\ m = n /\ ~SameDigits(s, k, t, l, n) =>
           \E f \in 0..(n - 1) : DifferAt(s, k, t, l, n, f) /\ c = s[k + f] - t[l + f]
  BY <1>6, NumbersAre
<1>8. c = 0 => m = n /\ SameDigits(s, k, t, l, n)
  BY <1>6, NumbersCompare
<1> HIDE DEF k, l, m, n, c
<1> DEFINE p == k - 1
           q == l - 1
<1>9. p \in 0..Len(s) /\ q \in 0..Len(t) /\ p + m = Len(s) /\ q + n = Len(t) /\ V[p] = 0 /\ W[q] = 0
      /\ p + 1 = k /\ q + 1 = l /\ p \in Nat /\ q \in Nat
  BY <1>3, <1>4, <1>5
<1> HIDE DEF p, q
<1>10. ASSUME c = 0 PROVE V[Len(s)] = W[Len(t)]
  <2>1. m = n
    BY <1>8, <1>10
  <2>2. SameDigits(s, p + 1, t, q + 1, m)
    BY <1>8, <1>9, <1>10
  <2>3. p + m <= Len(s) /\ q + m <= Len(t)
    BY <1>3, <1>9, <2>1
  <2>4. V[p + m] = W[q + m]
    <3>1. V[p] = W[q] /\ p \in 0..Len(s) /\ q \in 0..Len(t)
      BY <1>9
    <3>2. m \in Nat
      BY <1>4
    <3>3. QED
      BY <1>1, <1>2, <2>2, <2>3, <3>1, <3>2, LeadIsKept
  <2>5. QED
    BY <1>9, <2>1, <2>4
<1>11. ASSUME m > n PROVE V[Len(s)] > W[Len(t)]
  <2> DEFINE r == Len(s) - n
  <2>1. r \in 0..Len(s) /\ r \in k..Len(s) /\ r + n = Len(s) /\ q + n = Len(t)
    BY <1>3, <1>4, <1>5, <1>9, <1>11
  <2> HIDE DEF r
  <2>2. V[r] > W[q]
    BY <1>4, <1>9, <2>1
  <2>3. r + n <= Len(s) /\ q + n <= Len(t)
    BY <1>3, <2>1
  <2>4. V[r + n] > W[q + n]
    BY <1>1, <1>2, <1>5, <1>9, <2>1, <2>2, <2>3, LeadIsKept
  <2>5. QED
    BY <2>1, <2>4
<1>12. ASSUME m = n, c > 0 PROVE V[Len(s)] > W[Len(t)]
  <2>1. PICK f \in 0..(n - 1) : DifferAt(s, k, t, l, n, f) /\ c = s[k + f] - t[l + f]
    BY <1>7, <1>12
  <2>2. f \in Nat /\ f + 1 <= n /\ p + f <= Len(s) /\ q + f <= Len(t)
    BY <1>3, <1>5, <1>9, <1>12
  <2>3. SameDigits(s, p + 1, t, q + 1, f)
    BY <1>9, <2>1 DEF DifferAt, SameDigits
  <2>4. V[p + f] = W[q + f]
    <3>1. V[p] = W[q] /\ p \in 0..Len(s) /\ q \in 0..Len(t)
      BY <1>9
    <3>2. QED
      BY <1>1, <1>2, <2>2, <2>3, <3>1, LeadIsKept
  <2> DEFINE x == p + f
             y == q + f
             e == n - (f + 1)
  <2>5. /\ x + 1 = k + f /\ y + 1 = l + f /\ e \in Nat
        /\ x \in 0..Len(s) /\ x + 1 \in 1..Len(s) /\ x + 1 - 1 = x /\ x + 1 \in 0..Len(s)
        /\ y \in 0..Len(t) /\ y + 1 \in 1..Len(t) /\ y + 1 - 1 = y /\ y + 1 \in 0..Len(t)
        /\ x + 1 + e = Len(s) /\ y + 1 + e = Len(t)
    <3>1. /\ n \in Nat /\ f \in Nat /\ f + 1 <= n /\ p \in Nat /\ q \in Nat
          /\ p + 1 = k /\ q + 1 = l /\ p + n = Len(s) /\ q + n = Len(t)
      BY <1>5, <1>9, <1>12, <2>2
    <3>2. p + f + 1 = p + 1 + f /\ q + f + 1 = q + 1 + f /\ e \in Nat
      BY <3>1
    <3>3. p + f + 1 + e = p + n /\ q + f + 1 + e = q + n
      BY <3>1
    <3>4. \A i \in Nat, r \in Nat : LET h == i + 1 + r
                                    IN /\ i \in 0..h /\ i + 1 \in 1..h
                                       /\ i + 1 - 1 = i /\ i + 1 \in 0..h
      OBVIOUS
    <3>5. x \in Nat /\ y \in Nat /\ x + 1 + e = Len(s) /\ y + 1 + e = Len(t)
          /\ x + 1 = k + f /\ y + 1 = l + f
      BY <3>1, <3>2, <3>3
    <3> HIDE DEF x, y, e
    <3>6. QED
      BY <3>2, <3>4, <3>5
  <2>6. V[x] = W[y]
    BY <2>4
  <2> HIDE DEF x, y, e
  <2>7. /\ V[x + 1] = 10 * V[x] + (s[x + 1] - 48) /\ s[x + 1] \in 48..57 /\ V[x] \in Nat
        /\ W[y + 1] = 10 * W[y] + (t[y + 1] - 48) /\ t[y + 1] \in 48..57
    BY <1>1, <1>2, <1>3, <2>5 DEF Counts
  <2>8. s[x + 1] - t[y + 1] > 0
    BY <1>12, <2>1, <2>5
  <2>9. \A v \in Nat, d, g \in 48..57 : d - g > 0 => 10 * v + (d - 48) > 10 * v + (g - 48)
    OBVIOUS
  <2>10. V[x + 1] > W[y + 1]
    <3>1. 10 * V[x] + (s[x + 1] - 48) > 10 * V[x] + (t[y + 1] - 48)
      BY <2>7, <2>8, <2>9, Zenon
    <3>2. QED
      BY <2>6, <2>7, <3>1, Zenon
  <2>11. x + 1 + e <= Len(s) /\ y + 1 + e <= Len(t)
    BY <1>3, <2>5
  <2>12. V[x + 1 + e] > W[y + 1 + e]
    BY <1>1, <1>2, <2>5, <2>10, <2>11, LeadIsKept
  <2>13. QED
    BY <2>5, <2>12
<1>13. c > 0 => m > n \/ m = n
  BY <1>4, <1>5, <1>7
<1>14. Value(s) \in Nat /\ Value(t) \in Nat
  BY <1>1, <1>2, <1>3 DEF Counts
<1>15. QED
  BY <1>1, <1>2, <1>10, <1>11, <1>12, <1>13, <1>14 DEF c, k, l

\* And so gnu.Compare has nothing left to look at but those.
LEMMA CompareIsByValue ==
  ASSUME NEW s \in Text, NEW t \in Text, IsNumber(s), IsNumber(t)
  PROVE  Sign(Compare(s, t)) = Sign(Value(s) - Value(t))
<1> DEFINE k == SkipZeros(s, 1)
           l == SkipZeros(t, 1)
           c == CompareNumbers(s, k, t, l)
           d == CompareNumbers(t, l, s, k)
           x == Compare(s, t)
<1>1. /\ c > 0 => Value(s) > Value(t)
      /\ c = 0 => Value(s) = Value(t)
      /\ d > 0 => Value(t) > Value(s)
      /\ Value(s) \in Nat /\ Value(t) \in Nat
  BY NumbersByValue
<1>2. 1 \in Position
  BY DEF Position
<1>3. c \in Int /\ c = -d /\ d \in Int
  <2>1. k \in Position /\ l \in Position
    BY <1>2, SkipZerosIs
  <2> HIDE DEF k, l
  <2>2. QED
    BY <2>1, NumbersCompare
<1>4. ~OtherAt(s, 1) /\ ~OtherAt(t, 1)
  BY DEF OtherAt, IsNumber, Text
<1>5. ComparePart(s, 1, t, 1) = c
  BY <1>4 DEF ComparePart
<1>6. c # 0 => x = c
  <2> HIDE DEF c
  <2>1. QED
    BY <1>2, <1>5, AnswerIs DEF Compare
<1>7. c = 0 => x = 0
  <2>1. PICK V : Counts(s, V)
    BY ValueUnfolds
  <2>2. PICK W : Counts(t, W)
    BY ValueUnfolds
  <2>3. After(s, 1) = Len(s) + 1
    BY <1>4, <2>1, NumberIs DEF After
  <2>4. After(t, 1) = Len(t) + 1
    BY <1>4, <2>2, NumberIs DEF After
  <2> HIDE DEF c
  <2>5. c = 0 => VerRevCmp(s, t)[<<1, 1>>] = VerRevCmp(s, t)[<<After(s, 1), After(t, 1)>>]
    BY <1>2, <1>5, AnswerIs
  <2>6. VerRevCmp(s, t)[<<After(s, 1), After(t, 1)>>] = 0
    <3>1. After(s, 1) \in Position /\ After(t, 1) \in Position
          /\ After(s, 1) > Len(s) /\ After(t, 1) > Len(t)
      BY <2>3, <2>4 DEF Position, Text
    <3>2. QED
      BY <3>1, BehindTheEnds
  <2>7. QED
    BY <2>5, <2>6 DEF Compare
<1> HIDE DEF c, d, x
<1> DEFINE y == Value(s) - Value(t)
<1>8. y \in Int /\ (c > 0 => y > 0) /\ (c = 0 => y = 0) /\ (c < 0 => y < 0)
  BY <1>1, <1>3
<1> HIDE DEF y
<1>9. Sign(x) = Sign(y)
  BY <1>3, <1>6, <1>7, <1>8 DEF Sign
<1>10. QED
  BY <1>9 DEF x, y

\* gnu.Compare orders every set of texts without a NUL as CompareIsPreorder
\* says.
THEOREM GnuOrderIsPreorder == CompareIsPreorder
<1>1. SUFFICES ASSUME text \in Seq(1..255)
               PROVE  /\ \A a \in Texts :
                           /\ Compare(text, a) = -Compare(a, text)
                           /\ Compare(text, a) <= 0 =>
                                \A b \in Texts : Compare(a, b) <= 0 => Compare(text, b) <= 0
                           /\ IsNumber(text) /\ IsNumber(a) =>
                                Sign(Compare(text, a)) = Sign(Value(text) - Value(a))
                      /\ Compare(Append(text, 126), text) < 0
                      /\ Compare(Append(text, 97), text) > 0
  BY DEF CompareIsPreorder
<1>2. text \in Text /\ \A a \in Texts : a \in Text
  BY <1>1, TextsAssumption DEF Text
<1>3. 1 \in Position
  BY DEF Position
<1>4. \A a \in Texts : Compare(text, a) = -Compare(a, text)
  BY <1>2, <1>3, AnswersCompare DEF Compare
<1>5. \A a, b \in Texts : Compare(text, a) <= 0 /\ Compare(a, b) <= 0 => Compare(text, b) <= 0
  BY <1>2, <1>3, AnswersTransitive DEF Compare
<1>6. \A a \in Texts : IsNumber(text) /\ IsNumber(a) =>
                         Sign(Compare(text, a)) = Sign(Value(text) - Value(a))
  BY <1>2, CompareIsByValue
<1>7. Compare(Append(text, 126), text) = -1 /\ Compare(Append(text, 97), text) = 97
  <2>1. /\ 126 \in 1..255 /\ ~IsDigit(126) /\ Order(126) = -1
        /\ 97 \in 1..255 /\ ~IsDigit(97) /\ Order(97) = 97
    BY DEF IsDigit, IsAlpha, Order
  <2>2. QED
    BY <1>2, <2>1, EndDecides
<1>8. QED
  BY <1>4, <1>5, <1>6, <1>7

=============================================================================
