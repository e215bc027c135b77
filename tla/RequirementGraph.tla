-------------------------- MODULE RequirementGraph --------------------------
(***************************************************************************)
(* The incremental requirement graph of src/internal/mvs/graph.go and what *)
(* the visits of buildList (src/internal/mvs/mvs.go) do to it, over the    *)
(* requirements of the module loader (src/internal/modules/mvs.go).        *)
(*                                                                         *)
(* A module version is a pair <<path, version>>; both are numbers, so that *)
(* path order is <.  A Reqs is a record: main, roots (what main requires), *)
(* need[m] (whether Required(m) fails, and its list), latest and known     *)
(* (what Upgrade and Previous answer) and rank (the comparator of a path:  *)
(* versions of the same rank compare equal).                               *)
(*                                                                         *)
(* The loops of the code over a list are recursive functions of the number *)
(* of its elements seen so far.                                            *)
(***************************************************************************)
EXTENDS Integers, Sequences, SequencesExt

CONSTANTS Path, Version

NoVersion == 0                     \* "none"
Mod == Path \X (Version \cup {NoVersion})

ASSUME PathAssumption == IsFiniteSet(Path) /\ Path \subseteq Nat
ASSUME VersionAssumption == IsFiniteSet(Version) /\ NoVersion \notin Version

PathOf(m) == m[1]
VersionOf(m) == m[2]

-----------------------------------------------------------------------------
(* Comparisons of versions of a path. *)

\* The comparison Load passes on: "none" is below every version.
CompareKnown(reqs, p, v, w) ==
  LET level(x) == IF x = NoVersion THEN 0 ELSE reqs.rank[p][x] IN
  CASE level(v) < level(w) -> -1
    [] level(v) > level(w) -> 1
    [] OTHER -> 0

\* The main module's version is above all others of its path.
CmpVersion(reqs, p, v, w) ==
  LET isMain(x) == <<p, x>> = reqs.main IN
  CASE isMain(v) /\ isMain(w) -> 0
    [] isMain(w) /\ ~isMain(v) -> -1
    [] isMain(v) /\ ~isMain(w) -> 1
    [] OTHER -> CompareKnown(reqs, p, v, w)

MaxVersion(reqs, p, v, w) == IF CmpVersion(reqs, p, v, w) < 0 THEN w ELSE v

\* buildList rebuilds a comparison from Max.
Cmp(reqs, p, v, w) ==
  CASE MaxVersion(reqs, p, v, w) # v -> -1
    [] MaxVersion(reqs, p, v, w) = v /\ MaxVersion(reqs, p, w, v) # w -> 1
    [] OTHER -> 0

-----------------------------------------------------------------------------
(* The incremental graph.  reach is the domain of isRoot. *)

\* Variant: the first version seen of a path stays selected.
Raise_First(reqs, selected, dep) ==
  IF selected[PathOf(dep)] = NoVersion
  THEN [selected EXCEPT ![PathOf(dep)] = VersionOf(dep)]
  ELSE selected

\* Select dep if it compares above what is selected for its path.
Raise(reqs, selected, dep) ==
  IF Cmp(reqs, PathOf(dep), selected[PathOf(dep)], VersionOf(dep)) < 0
  THEN [selected EXCEPT ![PathOf(dep)] = VersionOf(dep)]
  ELSE selected

\* Raised[n]: what is selected after the first n of deps.
Raised(reqs, selected, deps) ==
  LET raised[n \in 0..Len(deps)] ==
        IF n = 0 THEN selected ELSE LET before == raised[n - 1] IN Raise(reqs, before, deps[n])
  IN raised

RaiseAll(reqs, selected, deps) == Raised(reqs, selected, deps)[Len(deps)]

NoneSelected == [p \in Path |-> NoVersion]

NewGraph(reqs, roots) ==
  [roots |-> roots,
   required |-> [m \in {} |-> <<>>],
   reach |-> ToSet(roots),
   selected |-> RaiseAll(reqs, NoneSelected, roots)]

\* Require panics on a module that nothing reaches or that is set already.
RequirePanics(g, m) == m \notin g.reach \/ m \in DOMAIN g.required

Require(reqs, g, m, deps) ==
  [roots |-> g.roots,
   required |-> [x \in DOMAIN g.required \cup {m} |-> IF x = m THEN deps ELSE g.required[x]],
   reach |-> g.reach \cup ToSet(deps),
   selected |-> RaiseAll(reqs, g.selected, deps)]

RequiredBy(g, m) == IF m \in DOMAIN g.required THEN g.required[m] ELSE <<>>

\* What is selected for the paths of the roots, in their order, once each.
RootsListed(g) ==
  LET listed[n \in 0..Len(g.roots)] ==
        IF n = 0 THEN <<>>
        ELSE LET before == listed[n - 1]
                 p == PathOf(g.roots[n])
             IN IF g.selected[p] = NoVersion \/ <<p, g.selected[p]>> \in ToSet(before)
                THEN before ELSE Append(before, <<p, g.selected[p]>>)
  IN listed

\* sortWith; no path is twice in the list, so versions do not matter.
SortWith(paths) ==
  [k \in 1..Cardinality(paths) |->
     CHOOSE p \in paths : Cardinality({q \in paths : q < p}) = k - 1]

\* The other paths that have a version selected.
OtherPaths(g) ==
  {p \in Path \ {PathOf(r) : r \in ToSet(g.roots)} : g.selected[p] # NoVersion}

GraphBuildList(g) ==
  LET others == SortWith(OtherPaths(g))
  IN RootsListed(g)[Len(g.roots)]
       \o [i \in DOMAIN others |-> <<others[i], g.selected[others[i]]>>]

-----------------------------------------------------------------------------
(* FindPath.  A search has a queue and trails: trail[m] is the path to m   *)
(* through the module that first required it.                              *)

\* Variant: depth first.
Enqueue_Front(search, m, r) ==
  IF r \in DOMAIN search.trail THEN search
  ELSE [queue |-> <<r>> \o search.queue,
        trail |-> [x \in DOMAIN search.trail \cup {r} |->
                     IF x = r THEN Append(search.trail[m], r) ELSE search.trail[x]]]

\* m requires r: unless it was met before, r joins the queue.
Enqueue(search, m, r) ==
  IF r \in DOMAIN search.trail THEN search
  ELSE [queue |-> Append(search.queue, r),
        trail |-> [x \in DOMAIN search.trail \cup {r} |->
                     IF x = r THEN Append(search.trail[m], r) ELSE search.trail[x]]]

\* Expanded[n]: the head m is off the queue, the first n of deps are seen.
Expanded(search, m, deps) ==
  LET expanded[n \in 0..Len(deps)] ==
        IF n = 0 THEN [search EXCEPT !.queue = Tail(@)]
        ELSE LET before == expanded[n - 1] IN Enqueue(before, m, deps[n])
  IN expanded

\* One turn of the loop; the search stops at a wanted module.
SearchOn(g, Wanted, search) ==
  IF search.queue = <<>> \/ Head(search.queue) \in Wanted THEN search
  ELSE LET m == Head(search.queue)
           deps == RequiredBy(g, m)
       IN Expanded(search, m, deps)[Len(deps)]

\* A module leaves the queue in each turn, and joins it once.
SearchTurns(g) == Cardinality(Mod) + Len(g.roots)

\* Searched[n]: the search after n turns, as a set of one.
Searched(g, Wanted) ==
  LET searched[n \in 0..SearchTurns(g)] ==
        IF n = 0 THEN {[queue |-> g.roots, trail |-> [r \in ToSet(g.roots) |-> <<r>>]]}
        ELSE {SearchOn(g, Wanted, search) : search \in searched[n - 1]}
  IN searched

FindPath(g, Wanted) ==
  LET end == CHOOSE search \in Searched(g, Wanted)[SearchTurns(g)] : TRUE
  IN IF end.queue = <<>> THEN <<>> ELSE end.trail[Head(end.queue)]

-----------------------------------------------------------------------------
(* buildList.  bl is what the visits share: the graph, the failed modules  *)
(* and the upgrades.  upgrade[m] is what the upgrade function says of m.   *)

NoUpgrade == [m \in Mod |-> m]

\* The locked part of a visit: m needs r (Required's answer) and up[m].
Visit(reqs, bl, m, r, up) ==
  LET deps == IF up[m] # m THEN <<up[m]>> \o r.deps ELSE r.deps
  IN [graph |-> Require(reqs, bl.graph, m, deps),
      errs |-> IF r.err THEN bl.errs \cup {m} ELSE bl.errs]

NewVisits(reqs, targets) == [graph |-> NewGraph(reqs, targets), errs |-> {}]

\* The answer once every module is visited: the path to a failed module, or
\* the build list.
Conclude(bl) ==
  IF bl.errs # {}
  THEN [err |-> TRUE, list |-> FindPath(bl.graph, bl.errs)]
  ELSE [err |-> FALSE, list |-> GraphBuildList(bl.graph)]

=============================================================================
