----------------------------- MODULE BuildOrder -----------------------------
(***************************************************************************)
(* The pure part of Builder.Build: the order in which the modules of an    *)
(* MVS build list are built (constructBuildList) and the dependencies      *)
(* handed to each one's OnBuild (resolveModTransitiveDeps), both in        *)
(* src/internal/build/build.go, over the direct dependencies that          *)
(* modules.Load fills in (src/internal/modules/load.go).                   *)
(*                                                                         *)
(* Both walk with a recursive closure, visit.  Its calls are a stack here, *)
(* and one round of its loop is a step.                                    *)
(***************************************************************************)
EXTENDS Naturals, SequencesExt

CONSTANTS
  Path,       \* module paths
  Input,      \* build lists, the main module first, with direct dependencies
  Nobody      \* the caller of visit in constructBuildList

ASSUME InputAssumption ==
  /\ Nobody \notin Path
  /\ \A g \in Input :
       /\ g.targets \in Seq(Path) /\ IsInjective(g.targets)
       /\ g.direct \in [ToSet(g.targets) -> Seq(Path)]

VARIABLES
  targets,    \* the build list
  direct,     \* direct[p]: what the selected version of p requires
  caller,     \* the module whose dependencies are wanted, or Nobody
  visited,    \* the paths that visit was called for
  order,      \* the modules whose calls have returned, in that order
  path,       \* the calls that have not; the first is the caller's own loop
  next        \* next[p]: where the loop of p is

input == <<targets, direct>>
orderVars == <<input, caller, visited, order, path, next>>

-----------------------------------------------------------------------------
Listed == ToSet(targets)

\* Variant: the main module has its own requirements like any other.
Deps_Direct(p) ==
  CASE p = Nobody -> IF targets = <<>> THEN <<>> ELSE <<Head(targets)>>
    [] OTHER -> direct[p]

\* What a loop goes over.  Load gives the main module the whole rest of the
\* list as dependencies, any other module its own requirements.
Deps(p) ==
  CASE p = Nobody -> IF targets = <<>> THEN <<>> ELSE <<Head(targets)>>
    [] p # Nobody /\ p = Head(targets) -> Tail(targets)
    [] OTHER -> direct[p]

\* A walk for module p, with the paths of seen visited.
StartWalk(p, seen) ==
  /\ caller' = p
  /\ visited' = seen
  /\ order' = <<>>
  /\ path' = <<p>>
  /\ next' = [q \in Listed \cup {Nobody} |-> 1]

\* Build starts with constructBuildList.
Init ==
  \E g \in Input :
    /\ targets = g.targets /\ direct = g.direct
    /\ caller = Nobody
    /\ visited = {}
    /\ order = <<>>
    /\ path = <<Nobody>>
    /\ next = [q \in ToSet(g.targets) \cup {Nobody} |-> 1]

\* The loop on top of the stack, and where it is.
Top == Last(path)
Now == Deps(Top)[next[Top]]

Looping == path # <<>> /\ next[Top] <= Len(Deps(Top))

\* The next dependency has been visited, or is not in byPath.
Skip ==
  /\ Looping
  /\ Now \notin Listed \ visited
  /\ next' = [next EXCEPT ![Top] = @ + 1]
  /\ UNCHANGED <<input, caller, visited, order, path>>

\* The next dependency is visited.
Visit ==
  /\ Looping
  /\ Now \in Listed \ visited
  /\ visited' = visited \cup {Now}
  /\ path' = Append(path, Now)
  /\ next' = [next EXCEPT ![Top] = @ + 1]
  /\ UNCHANGED <<input, caller, order>>

\* A loop is over; visit adds its module to the order, the caller does not.
Return ==
  /\ path # <<>>
  /\ next[Top] > Len(Deps(Top))
  /\ order' = IF Len(path) = 1 THEN order ELSE Append(order, Top)
  /\ path' = Front(path)
  /\ UNCHANGED <<input, caller, visited, next>>

Finished == path = <<>>

\* Variant: mod itself is not among the visited.
ResolveModTransitiveDeps_Anew(mod) ==
  /\ Finished
  /\ StartWalk(mod, {})
  /\ UNCHANGED input

\* Build calls resolveModTransitiveDeps once for each module.
ResolveModTransitiveDeps(mod) ==
  /\ Finished
  /\ StartWalk(mod, {mod})
  /\ UNCHANGED input

Next == Skip \/ Visit \/ Return \/ \E mod \in Listed : ResolveModTransitiveDeps(mod)

Spec == Init /\ [][Next]_orderVars

-----------------------------------------------------------------------------
(* What the answers are, against the dependencies themselves. *)

Needs(p) == ToSet(Deps(p)) \cap Listed

Closed(S) == \A p \in S : Needs(p) \subseteq S

\* What p depends on, directly or not: the least closed set with its own
\* dependencies.
Below(p) ==
  {q \in Listed : \A S \in SUBSET Listed : Needs(p) \subseteq S /\ Closed(S) => q \in S}

Acyclic == \A p \in Listed : p \notin Below(p)

\* No module comes before one that it depends on.
DepsFirst == \A i, j \in DOMAIN order : i < j => order[j] \notin Below(order[i])

\* The build order has every module of the build list once, those that no
\* selected version requires too, and the main module last: what Build locks
\* and builds is the whole of the list.  On an acyclic graph every module
\* comes after all it depends on, however early a shorter path reaches it.
OrderIsTopological ==
  Finished /\ caller = Nobody =>
    /\ IsInjective(order)
    /\ ToSet(order) = Listed
    /\ targets # <<>> => Last(order) = Head(targets)
    /\ Acyclic => DepsFirst

\* OnBuild gets everything that its module depends on, once each and never
\* the module itself, whatever the cycles; on an acyclic graph in an order
\* to link in reverse, and all of it is built by then.
DepsGivenComplete ==
  Finished /\ caller \in Listed =>
    /\ IsInjective(order)
    /\ ToSet(order) = Below(caller) \ {caller}
    /\ Acyclic => DepsFirst

=============================================================================
