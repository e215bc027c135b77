------------------------------ MODULE RefOrder ------------------------------
(***************************************************************************)
(* How two refs of a repository compare, tags or commits: by the order of  *)
(* the tags they stand at (src/internal/vcs/compare.go), as far as the     *)
(* remote lists and sends them (src/internal/vcs/github_refs.go).          *)
(***************************************************************************)
EXTENDS Integers, FiniteSets

CONSTANT
  Commit      \* commits, numbers in the order of their hashes

ASSUME CommitAssumption == Commit \subseteq Int

VARIABLE
  repository  \* a remote

-----------------------------------------------------------------------------
(* githubRefs.  A remote has: heads, the commits of its branches; tags,    *)
(* from tag to object; peeled, the commits of its annotated tags, whose    *)
(* objects are not commits; above[c], the ancestors of commit c; time[c],  *)
(* when it was made; rank[t], how tags compare.                            *)

NoTag == "none"

\* What git answers with.
IsRemote(r) ==
  /\ IsFiniteSet(DOMAIN r.tags) /\ NoTag \notin DOMAIN r.tags
  /\ \A t \in DOMAIN r.tags :
       /\ r.rank[t] \in Int
       /\ IF t \in DOMAIN r.peeled THEN r.peeled[t] \in Commit ELSE r.tags[t] \in Commit
  /\ r.heads \subseteq Commit
  /\ \A c \in Commit : r.time[c] \in Int /\ r.above[c] \subseteq Commit
  /\ \A c \in Commit : \A d \in r.above[c] : r.above[d] \subseteq r.above[c]

\* load: ls-remote lists an annotated tag twice, and the line of its commit
\* stands whatever the order of the two.
LoadTags(remote) ==
  [t \in DOMAIN remote.tags |->
     IF t \in DOMAIN remote.peeled THEN remote.peeled[t] ELSE remote.tags[t]]

Tips(remote) == remote.heads \cup {LoadTags(remote)[t] : t \in DOMAIN remote.tags}

\* fetch: the tips come with all that they descend from.  No ref is made in the
\* bare repository, so that nothing else resolves, branch names included.
Fetched(remote) == Tips(remote) \cup UNION {remote.above[c] : c \in Tips(remote)}

\* What CompareFunc gets to see of the remote: its tags, the commits that
\* resolve (ref), and what is above them (ancestors).
View(remote) ==
  [tags  |-> LoadTags(remote),
   known |-> Fetched(remote),
   above |-> [c \in Fetched(remote) |-> remote.above[c]],
   time  |-> [c \in Fetched(remote) |-> remote.time[c]],
   rank  |-> remote.rank]

-----------------------------------------------------------------------------
(* repoRefs.CompareFunc, of such a view h.  A ref is a tag or a commit.    *)

TagsAt(h, c) == {t \in DOMAIN h.tags : h.tags[t] = c}

\* A tag of the highest rank, "" if there is none.  Go walks a map here, so
\* among equal tags it may be any of them.
Highest(h, tags) ==
  IF tags = {} THEN {NoTag}
  ELSE {t \in tags : \A u \in tags : h.rank[u] <= h.rank[t]}

\* revision: the tags on the commit, or else those of its ancestors.
ReachableTags(h, c) ==
  IF TagsAt(h, c) # {} THEN TagsAt(h, c)
  ELSE {t \in DOMAIN h.tags : h.tags[t] \in h.above[c]}

\* comparableRevisionOf: a tag is itself; a commit stands at
\* the highest tag on it, or else after the highest tag it descends from.
Comparable(h, ref) ==
  LET c == IF ref \in DOMAIN h.tags THEN h.tags[ref] ELSE ref
  IN IF ref \in DOMAIN h.tags
     THEN {[commit |-> c, base |-> ref, after |-> FALSE]}
     ELSE {[commit |-> c, base |-> t, after |-> t \notin TagsAt(h, c)] :
            t \in Highest(h, ReachableTags(h, c))}

CompareTags(h, t, u) == h.rank[t] - h.rank[u]

\* Variant: revisions on the same base compare by time only.
CompareRevisions_ByTime(h, a, b) ==
  CASE a.base = NoTag /\ b.base # NoTag -> -1
    [] a.base # NoTag /\ b.base = NoTag -> 1
    [] a.base # NoTag /\ b.base # NoTag /\ h.rank[a.base] # h.rank[b.base] ->
         CompareTags(h, a.base, b.base)
    [] OTHER -> h.time[a.commit] - h.time[b.commit]

\* compareRevisions.
CompareRevisions(h, a, b) ==
  CASE a.base = NoTag /\ b.base # NoTag -> -1
    [] a.base # NoTag /\ b.base = NoTag -> 1
    [] a.base # NoTag /\ b.base # NoTag /\ h.rank[a.base] # h.rank[b.base] ->
         CompareTags(h, a.base, b.base)
    [] OTHER ->
         CASE a.after /\ ~b.after -> 1
           [] ~a.after /\ b.after -> -1
           [] ~a.after /\ ~b.after -> 0
           [] OTHER -> IF h.time[a.commit] # h.time[b.commit]
                       THEN h.time[a.commit] - h.time[b.commit]
                       ELSE a.commit - b.commit

\* CompareFunc: equal refs, two tags, or two revisions; a ref that does not
\* resolve leaves it to the tag order.
CompareRefs(h, a, b) ==
  CASE a = b -> {0}
    [] a # b /\ {a, b} \subseteq DOMAIN h.tags -> {CompareTags(h, a, b)}
    [] a # b /\ ~({a, b} \subseteq DOMAIN h.tags \cup h.known) -> {CompareTags(h, a, b)}
    [] OTHER -> {CompareRevisions(h, x, y) : x \in Comparable(h, a), y \in Comparable(h, b)}

-----------------------------------------------------------------------------
\* CompareFunc gives one answer, whichever of equal tags it meets first, and
\* orders the tags of a repository and the commits that resolve as a total
\* preorder; a commit without a tag of its own comes after the tags it
\* descends from.
RefsArePreordered ==
  IsRemote(repository) =>
    LET h == View(repository)
        refs == DOMAIN h.tags \cup h.known
        answer(a, b) == CHOOSE r \in CompareRefs(h, a, b) : TRUE
    IN /\ \A a, b \in refs : CompareRefs(h, a, b) = {answer(a, b)}
       /\ \A a, b \in refs : answer(a, b) = -answer(b, a)
       /\ \A a, b, c \in refs : answer(a, b) <= 0 /\ answer(b, c) <= 0 => answer(a, c) <= 0
       /\ \A t \in DOMAIN h.tags, c \in h.known \ DOMAIN h.tags :
            h.tags[t] \in h.above[c] /\ TagsAt(h, c) = {} => answer(t, c) < 0

=============================================================================
