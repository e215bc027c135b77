----------------------------- MODULE GraphLock -----------------------------
(***************************************************************************)
(* What the module locks of Builder.Build promise, with no lock in sight:  *)
(* a Build waits, then has the whole of its dependency graph to itself     *)
(* until it is over.  Builds whose graphs share a module path are never    *)
(* inside together; builds with disjoint graphs may be ("Case 1" and       *)
(* "Case 2" of the comment in src/internal/build/build.go).  GraphBuild,   *)
(* which takes one lock file at a time, is shown to implement this.        *)
(***************************************************************************)
CONSTANTS
  Build,     \* the calls of Builder.Build
  Graph      \* Graph[b]: the module paths in the build list of b

VARIABLE stage   \* "waiting", "inside" or "over"

Inside == {b \in Build : stage[b] = "inside"}

Conflict(b, c) == Graph[b] \cap Graph[c] # {}

Init == stage = [b \in Build |-> "waiting"]

\* The whole graph is taken at once, when nobody inside uses a part of it.
Enter(b) ==
  /\ stage[b] = "waiting"
  /\ \A c \in Inside : ~Conflict(b, c)
  /\ stage' = [stage EXCEPT ![b] = "inside"]

\* The graph is given back, whatever the outcome of the build.
Leave(b) ==
  /\ stage[b] = "inside"
  /\ stage' = [stage EXCEPT ![b] = "over"]

\* A lock cannot be taken: the build never gets in.
GiveUp(b) ==
  /\ stage[b] = "waiting"
  /\ stage' = [stage EXCEPT ![b] = "over"]

\* A process dies, and all of its builds end together where they are.
Die(killed) ==
  stage' = [b \in Build |-> IF b \in killed THEN "over" ELSE stage[b]]

Next ==
  \/ \E b \in Build : Enter(b) \/ Leave(b) \/ GiveUp(b)
  \/ \E killed \in SUBSET Build : Die(killed)

\* When a build gets in is left to the lock implementation's own fairness.
Spec == Init /\ [][Next]_stage
=============================================================================
