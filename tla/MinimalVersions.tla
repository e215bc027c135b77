-------------------------- MODULE MinimalVersions --------------------------
(***************************************************************************)
(* buildList of src/internal/mvs/mvs.go for the callers that wait for it:  *)
(* what Required answers, and the visits of a RequirementGraph in one      *)
(* order.                                                                  *)
(***************************************************************************)
EXTENDS RequirementGraph

\* Required: the roots for the main module, nothing for "none".
Required(reqs, m) ==
  CASE m = reqs.main -> [err |-> FALSE, deps |-> reqs.roots]
    [] m # reqs.main /\ VersionOf(m) = NoVersion -> [err |-> FALSE, deps |-> <<>>]
    [] OTHER -> reqs.need[m]

\* override: the same Reqs with another list for the target.
Override(reqs, list) == [reqs EXCEPT !.roots = list]

RECURSIVE VisitAll(_, _, _, _)
VisitAll(reqs, bl, todo, up) ==
  IF todo = {} THEN bl
  ELSE LET m == CHOOSE x \in todo : TRUE
           after == Visit(reqs, bl, m, Required(reqs, m), up)
       IN VisitAll(reqs, after,
            (todo \cup ToSet(after.graph.required[m]))
               \ DOMAIN after.graph.required, up)

BuildListWith(reqs, up) ==
  Conclude(VisitAll(reqs, NewVisits(reqs, <<reqs.main>>), {reqs.main}, up))

BuildList(reqs) == BuildListWith(reqs, NoUpgrade)

=============================================================================
