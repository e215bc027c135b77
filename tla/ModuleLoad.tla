----------------------------- MODULE ModuleLoad -----------------------------
(***************************************************************************)
(* One call of modules.Load (src/internal/modules/load.go): the main       *)
(* module's version and requirements, then mvs.BuildList, whose visits run *)
(* in parallel on a work set (src/internal/mvs/mvs.go, par/work.go) and    *)
(* load the formula of each module version they meet, then the modules of  *)
(* the build list with their direct dependencies.                          *)
(*                                                                         *)
(* world is what the call finds outside: the formula repository and the    *)
(* tags of the modules' own repositories.  It does not change meanwhile.   *)
(***************************************************************************)
EXTENDS RequirementGraph, WorkSet

CONSTANTS
  World,      \* the worlds a call can find
  Caller,     \* the goroutine that calls Do, a runner itself
  Blank       \* the version "" of a requirement without one

ASSUME CallerAssumption == Caller \in Runner
ASSUME ItemsAreModules == Item = Mod

VARIABLES
  world,      \* the formula repository and the tags
  main,       \* the main module with its version, and its requirements
  phase,      \* where the caller is, and how the call ended
  step,       \* step[r]: where runner r is in the callback of buildList
  need,       \* need[r]: what Required answered to r
  left,       \* left[r]: the requirements r has still to add
  graph,      \* the graph of Load, filled by onLoad
  cached,     \* the keys of depCache
  bl,         \* the graph and the errors of buildList
  answer      \* what Load returns

stepVars == <<step, need, left>>
outside == <<world, main>>
loadVars == <<outside, phase, stepVars, graph, cached, bl, answer>>
vars == <<workVars, loadVars>>

-----------------------------------------------------------------------------
(* The world.  broken: the paths whose formula directory or comparator     *)
(* cannot be loaded; rank: the comparators; from[p]: the fromVer of each   *)
(* formula of p; filtered: the formulas whose filter refuses the matrix;   *)
(* asks: what their onRequire asks for; table: the versions.json tables.   *)

Compares(w, p, v, u) == w.rank[p][v] - w.rank[p][u]

\* The fromVer of the formulas that apply to m.
Applicable(w, m) ==
  {f \in w.from[PathOf(m)] : Compares(w, PathOf(m), f, VersionOf(m)) <= 0}

HasFormula(w, m) == PathOf(m) \notin w.broken /\ Applicable(w, m) # {}

\* findMaxFromVer: the highest of them, the first met among equals.
MaxFromVer(w, m) ==
  LET fs == Applicable(w, m)
      best == {f \in fs : \A g \in fs : Compares(w, PathOf(m), g, f) <= 0}
  IN CHOOSE f \in best : \A g \in best : f <= g

\* latestVersion: the highest tag, or the head of the default branch.
LatestVersion(w, p) ==
  LET best == {t \in w.tags[p] : \A u \in w.tags[p] : Compares(w, p, u, t) <= 0}
  IN IF w.tags[p] = {} THEN w.head[p]
     ELSE CHOOSE t \in best : \A u \in best : t <= u

\* The version pinned for a requirement of m that came without one.
Pinned(w, m, d) ==
  LET entries == SelectSeq(w.table[m], LAMBDA e : PathOf(e) = PathOf(d))
  IN IF VersionOf(d) # Blank THEN <<d>>
     ELSE IF entries = <<>> THEN <<>> ELSE <<Head(entries)>>

\* The filter of the formula, and what its onRequire asks for.
Supports(w, m) == <<PathOf(m), MaxFromVer(w, m)>> \notin w.filtered
OnRequire(w, m) == w.asks[PathOf(m)][MaxFromVer(w, m)]

\* resolveDeps: what onRequire asks for, with versions from the table, or
\* else the table.
ResolveDeps(w, m) ==
  LET asked == OnRequire(w, m)
      filled == FlattenSeq([i \in DOMAIN asked |-> Pinned(w, m, asked[i])])
  IN IF filled # <<>> THEN filled
     ELSE SelectSeq(w.table[m], LAMBDA e : VersionOf(e) # Blank)

\* loadDeps: fails without a formula for m, or when its filter refuses.
LoadDeps(w, m) ==
  IF HasFormula(w, m) /\ Supports(w, m)
  THEN [err |-> FALSE, deps |-> ResolveDeps(w, m)]
  ELSE [err |-> TRUE, deps |-> <<>>]

\* The main module, with a version.
Main(w) ==
  IF VersionOf(w.asked) = Blank /\ PathOf(w.asked) \notin w.broken
  THEN <<PathOf(w.asked), LatestVersion(w, PathOf(w.asked))>> ELSE w.asked

\* Ranks are above that of "none", and neither the main module nor what a
\* formula requires has "none" for its version: it is no tag and no commit.
ASSUME WorldAssumption ==
  \A w \in World :
    /\ w.rank \in [Path -> [Version -> Nat \ {0}]]
    /\ Main(w) \in Path \X Version
    /\ \A m \in Path \X Version : LoadDeps(w, m).deps \in Seq(Path \X Version)

\* mvsReqs of the call; the requirements come through onLoad.
Reqs == [main |-> main.mod, roots |-> main.deps, rank |-> world.rank]

-----------------------------------------------------------------------------
(* The comparator of a path that cannot be loaded panics; "none" and the   *)
(* main module are settled without it.                                     *)

\* Variant: "none" is given to the comparator too.
ComparePanics_None(selected, d) == PathOf(d) \in world.broken

ComparePanics(selected, d) ==
  /\ PathOf(d) \in world.broken
  /\ NoVersion \notin {selected[PathOf(d)], VersionOf(d)}

RaisePanics(selected, deps) ==
  \E i \in DOMAIN deps :
    ComparePanics(Raised(Reqs, selected, deps)[i - 1], deps[i])

\* "refused": failed before Do; "mistake": the panics of buildList and of
\* graph.Require.
Ended == {"refused", "failed", "loaded", "comparePanic", "mistake"}

Init ==
  /\ world \in World
  /\ LET m == Main(world)
         r == LoadDeps(world, m)
     IN main = [mod |-> m, err |-> r.err, deps |-> r.deps]
  /\ WorkInit({main.mod})
  /\ phase = "start"
  /\ step = [r \in Runner |-> "out"]
  /\ need = [r \in Runner |-> [err |-> FALSE, deps |-> <<>>]]
  /\ left = [r \in Runner |-> <<>>]
  /\ graph = NewGraph(Reqs, <<>>)
  /\ cached = {}
  /\ bl = NewVisits(Reqs, <<main.mod>>)
  /\ answer = [list |-> <<>>, deps |-> <<>>]

-----------------------------------------------------------------------------
(* The caller, before and after Do. *)

\* The main module cannot be loaded, or its tags cannot be listed.
StartFails ==
  /\ phase = "start"
  /\ main.err \/ VersionOf(world.asked) = Blank
  /\ phase' = "refused"
  /\ UNCHANGED <<workVars, outside, stepVars, graph, cached, bl, answer>>

\* NewGraph on the main module's requirements, then Do.
Start ==
  /\ phase = "start"
  /\ ~main.err
  /\ IF RaisePanics(NoneSelected, Reqs.roots)
     THEN phase' = "comparePanic" /\ UNCHANGED graph
     ELSE phase' = "walk" /\ graph' = NewGraph(Reqs, Reqs.roots)
  /\ UNCHANGED <<workVars, outside, stepVars, cached, bl, answer>>

\* Do has returned: the path to an error, or the build list.
Collect ==
  /\ phase = "walk"
  /\ at[Caller] = "returned"
  /\ LET c == Conclude(bl) IN
     /\ answer' = [answer EXCEPT !.list = c.list]
     /\ phase' = CASE c.err -> "failed"
                   [] ~c.err /\ Head(c.list) # Reqs.main -> "mistake"
                   [] OTHER -> "convert"
  /\ UNCHANGED <<workVars, outside, stepVars, graph, cached, bl>>

\* All others for the main module, what it required for any other.
DirectDeps(m) ==
  IF m = Reqs.main THEN Tail(answer.list) ELSE RequiredBy(graph, m)

\* convertToModules: each module needs a formula.
ConvertToModules(mods) == \A m \in mods : HasFormula(world, m)

\* On the build list and on each module's dependencies.
Convert ==
  /\ phase = "convert"
  /\ LET list == answer.list
         all == ToSet(list) \cup UNION {ToSet(DirectDeps(m)) : m \in ToSet(list)}
     IN IF ConvertToModules(all)
        THEN /\ phase' = "loaded"
             /\ answer' = [answer EXCEPT !.deps = [m \in ToSet(list) |-> DirectDeps(m)]]
        ELSE phase' = "failed" /\ answer' = [answer EXCEPT !.list = <<>>]
  /\ UNCHANGED <<workVars, outside, stepVars, graph, cached, bl>>

-----------------------------------------------------------------------------
(* The callback of buildList, in runner r. *)

Goto(r, s) == step' = [step EXCEPT ![r] = s]

\* A runner between two calls of the callback; it may outlive Do.
Between(r) ==
  /\ phase \in {"walk", "convert", "failed", "loaded"}
  /\ Loop(r)
  /\ step' = IF at'[r] = "run" THEN [step EXCEPT ![r] = "required"] ELSE step
  /\ UNCHANGED <<outside, phase, need, left, graph, cached, bl, answer>>

\* Required: the main module, "none" and what depCache holds need no load;
\* for the others onLoad reads the formula.
CallRequired(r) ==
  /\ phase = "walk"
  /\ step[r] = "required"
  /\ LET m == item[r]
         known == m = Reqs.main \/ VersionOf(m) = NoVersion \/ m \in cached
         answered == CASE m = Reqs.main -> [err |-> FALSE, deps |-> Reqs.roots]
                       [] m # Reqs.main /\ known -> [err |-> FALSE, deps |-> RequiredBy(graph, m)]
                       [] OTHER -> LoadDeps(world, m)
     IN /\ need' = [need EXCEPT ![r] = answered]
        /\ Goto(r, IF known \/ answered.err THEN "record" ELSE "require")
  /\ UNCHANGED <<workVars, outside, phase, left, graph, cached, bl, answer>>

\* What graph.Require does to the call: nothing, or a panic.
RequireOutcome(g, m, deps) ==
  CASE RequirePanics(g, m) -> "mistake"
    [] ~RequirePanics(g, m) /\ RaisePanics(g.selected, deps) -> "comparePanic"
    [] OTHER -> "walk"

\* onLoad: graph.Require under graphMu, and depCache.  What this graph has
\* selected is never read, it only makes the comparator run.
GraphRequire(r) ==
  /\ phase = "walk"
  /\ step[r] = "require"
  /\ phase' = RequireOutcome(graph, item[r], need[r].deps)
  /\ IF phase' = "walk"
     THEN /\ graph' = Require(Reqs, graph, item[r], need[r].deps)
          /\ cached' = cached \cup {item[r]}
          /\ Goto(r, "record")
     ELSE UNCHANGED <<graph, cached, step>>
  /\ UNCHANGED <<workVars, outside, need, left, bl, answer>>

\* The part under buildList's mu.
Record(r) ==
  /\ phase = "walk"
  /\ step[r] = "record"
  /\ phase' = RequireOutcome(bl.graph, item[r], need[r].deps)
  /\ IF phase' = "walk"
     THEN /\ bl' = Visit(Reqs, bl, item[r], need[r], NoUpgrade)
          /\ left' = [left EXCEPT ![r] = need[r].deps]
          /\ Goto(r, "add")
     ELSE UNCHANGED <<bl, left, step>>
  /\ UNCHANGED <<workVars, outside, need, graph, cached, answer>>

AddNext(r) ==
  /\ phase = "walk"
  /\ step[r] = "add"
  /\ left[r] # <<>>
  /\ Add(r, Head(left[r]))
  /\ left' = [left EXCEPT ![r] = Tail(@)]
  /\ UNCHANGED <<outside, phase, step, need, graph, cached, bl, answer>>

CallbackReturns(r) ==
  /\ phase = "walk"
  /\ step[r] = "add"
  /\ left[r] = <<>>
  /\ Return(r)
  /\ Goto(r, "out")
  /\ UNCHANGED <<outside, phase, need, left, graph, cached, bl, answer>>

Runs(r) ==
  \/ Between(r) \/ CallRequired(r) \/ GraphRequire(r) \/ Record(r)
  \/ AddNext(r) \/ CallbackReturns(r)

Calls == StartFails \/ Start \/ Collect \/ Convert

Terminated == phase \in Ended /\ UNCHANGED vars

Next == Calls \/ (\E r \in Runner : Runs(r)) \/ Terminated

\* Some goroutine that can take a step does; no more is needed, because a
\* runner that waits is asleep and takes no steps.
Fairness == WF_vars(Calls \/ \E r \in Runner : Runs(r))

Spec == Init /\ [][Next]_vars /\ Fairness

-----------------------------------------------------------------------------
(* What Load answers, against the requirements themselves. *)

Needs(w, m) == LoadDeps(w, m).deps
Fails(w, m) == LoadDeps(w, m).err

\* Within(w)[n]: what the main module reaches in n requirements.
Within(w) ==
  LET near[n \in 0..Cardinality(Mod)] ==
        IF n = 0 THEN {Main(w)}
        ELSE LET before == near[n - 1]
             IN before \cup UNION {ToSet(Needs(w, m)) : m \in before}
  IN near
Reached == Within(world)[Cardinality(Mod)]

Answered == phase \in {"convert", "loaded"}

\* BuildList (mvs.go:80-89): the main module, then the highest version that
\* anything reached requires of each path, sorted by path, whatever the
\* order in which the runners visited.
ListIsMinimal ==
  Answered =>
    LET chosen == ToSet(answer.list) IN
    /\ Head(answer.list) = Reqs.main
    /\ \A i, j \in 2..Len(answer.list) :
         i < j => PathOf(answer.list[i]) < PathOf(answer.list[j])
    /\ {PathOf(m) : m \in chosen} = {PathOf(m) : m \in Reached}
    /\ chosen \subseteq Reached
    /\ \A m \in chosen \ {Reqs.main}, n \in Reached :
         PathOf(n) = PathOf(m) =>
           Compares(world, PathOf(m), VersionOf(n), VersionOf(m)) <= 0

\* A version that cannot be loaded fails the call, selected or not, and the
\* error names a shortest chain of requirements to such a version.
ErrorIsNearest ==
  /\ Answered => \A m \in Reached : ~Fails(world, m)
  /\ phase = "failed" =>
       LET chain == answer.list IN
       /\ chain # <<>>
       /\ chain[1] = Reqs.main
       /\ \A i \in 1..(Len(chain) - 1) : chain[i + 1] \in ToSet(Needs(world, chain[i]))
       /\ Fails(world, Last(chain))
       /\ \A m \in Within(world)[Len(chain) - 2] : ~Fails(world, m)

\* compareModuleVersion "should not have errors" (load.go:98): the panic in a
\* runner needs a path without a loadable formula that two requirements name;
\* named once, it is an error of the call.  The graph's and the build list's
\* own panics never happen: every module is required once, after something
\* reached it, and the main module's version stays selected whatever is
\* required of its path.
PanicNeedsTwoOfMissing ==
  /\ phase # "mistake"
  /\ phase = "comparePanic" =>
       \E p \in world.broken :
         \E m, n \in Reached : \E i \in DOMAIN Needs(world, m), j \in DOMAIN Needs(world, n) :
           /\ <<m, i>> # <<n, j>>
           /\ PathOf(Needs(world, m)[i]) = p
           /\ PathOf(Needs(world, n)[j]) = p

\* Load answers or panics, and leaves no runner behind when it answers.
LoadEnds ==
  <>(/\ phase \in Ended
     /\ phase \in {"failed", "loaded"} => \A r \in Runner : at[r] = "returned")

=============================================================================
