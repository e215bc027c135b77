---------------------------- MODULE VersionEdits ----------------------------
(***************************************************************************)
(* The operations of src/internal/mvs/mvs.go that edit a build list: Req,  *)
(* UpgradeAll, Upgrade and Downgrade.  The program itself only calls       *)
(* BuildList; the package exports these.                                   *)
(***************************************************************************)
EXTENDS MinimalVersions, TLC

\* The elements of a list in the order they first occur in.
FirstOnly(list) ==
  FoldLeft(LAMBDA acc, e : IF Contains(acc, e) THEN acc ELSE Append(acc, e),
           <<>>, list)

\* A list of module versions as a function from path to version.
AsMap(list) ==
  [p \in {PathOf(m) : m \in ToSet(list)} |->
     VersionOf(list[CHOOSE i \in DOMAIN list : PathOf(list[i]) = p])]

ByPath(mods) == SetToSortSeq(mods, LAMBDA m, n : PathOf(m) < PathOf(n))

-----------------------------------------------------------------------------
(* Req. *)

\* walk, first form: st.order is the post-order of what the list reaches.
RECURSIVE PostOrder(_, _, _)
PostOrder(reqs, st, m) ==
  IF m \in st.cached THEN st
  ELSE LET deps == Required(reqs, m).deps
           below == FoldLeft(LAMBDA s, d : PostOrder(reqs, s, d),
                             [st EXCEPT !.cached = @ \cup {m}], deps)
       IN [below EXCEPT !.order = Append(@, m)]

\* walk, second form: what m implies joins have.  The main module's entry
\* in reqCache is nil.
RECURSIVE Implied(_, _, _)
Implied(reqs, have, m) ==
  IF m \in have THEN have
  ELSE FoldLeft(LAMBDA h, d : Implied(reqs, h, d), have \cup {m},
         IF m = reqs.main THEN <<>> ELSE Required(reqs, m).deps)

\* List m, and have what it implies.
Keep(reqs, st, m) ==
  [min |-> Append(st.min, m), have |-> Implied(reqs, st.have, m)]

\* Variant: forward instead of reverse post-order.
Req_Forward(reqs, base) ==
  LET list == BuildList(reqs).list
      max == AsMap(list)
      order == FoldLeft(LAMBDA st, m : PostOrder(reqs, st, m),
                 [cached |-> {reqs.main}, order |-> <<>>], list).order
      based == FoldLeft(LAMBDA st, p : Keep(reqs, st, <<p, max[p]>>),
                 [min |-> <<>>, have |-> {}], FirstOnly(base))
      all == FoldLeft(LAMBDA st, m : IF max[PathOf(m)] = VersionOf(m) /\ m \notin st.have
                                     THEN Keep(reqs, st, m) ELSE st,
               based, order)
  IN ByPath(ToSet(all.min))

\* The base paths, then, in reverse post-order, the selected versions that
\* nothing listed implies.
Req(reqs, base) ==
  LET list == BuildList(reqs).list
      max == AsMap(list)
      order == FoldLeft(LAMBDA st, m : PostOrder(reqs, st, m),
                 [cached |-> {reqs.main}, order |-> <<>>], list).order
      based == FoldLeft(LAMBDA st, p : Keep(reqs, st, <<p, max[p]>>),
                 [min |-> <<>>, have |-> {}], FirstOnly(base))
      all == FoldLeft(LAMBDA st, m : IF max[PathOf(m)] = VersionOf(m) /\ m \notin st.have
                                     THEN Keep(reqs, st, m) ELSE st,
               based, Reverse(order))
  IN ByPath(ToSet(all.min))

-----------------------------------------------------------------------------
(* UpgradeAll and Upgrade. *)

UpgradeAll(reqs) ==
  BuildListWith(reqs, [m \in Mod |-> IF PathOf(m) = PathOf(reqs.main) THEN reqs.main
                                     ELSE <<PathOf(m), reqs.latest[PathOf(m)]>>])

\* The highest version asked of a path that is in wanted.
Asked(reqs, wanted, p) ==
  LET of == SelectSeq(wanted, LAMBDA u : PathOf(u) = p)
  IN FoldLeft(LAMBDA v, u : MaxVersion(reqs, p, v, VersionOf(u)),
              VersionOf(Head(of)), Tail(of))

\* Variant: a path the target does not list yet is not added to its list.
Upgrade_ListedOnly(reqs, wanted) ==
  BuildListWith(reqs,
    [m \in Mod |-> IF \E u \in ToSet(wanted) : PathOf(u) = PathOf(m)
                   THEN <<PathOf(m), Asked(reqs, wanted, PathOf(m))>> ELSE m])

Upgrade(reqs, wanted) ==
  LET listed == {PathOf(m) : m \in ToSet(reqs.roots)}
      new == SelectSeq(wanted, LAMBDA u : PathOf(u) \notin listed)
      list == reqs.roots \o [i \in DOMAIN new |-> <<PathOf(new[i]), NoVersion>>]
  IN BuildListWith(Override(reqs, list),
       [m \in Mod |-> IF \E u \in ToSet(wanted) : PathOf(u) = PathOf(m)
                      THEN <<PathOf(m), Asked(reqs, wanted, PathOf(m))>> ELSE m])

-----------------------------------------------------------------------------
(* Downgrade.  st holds added, excluded and rdeps, as pairs <<m, by>>.     *)

\* The version each path may not exceed.
Ceiling(reqs, list, lower) ==
  FoldLeft(LAMBDA max, d :
             IF \/ PathOf(d) \notin DOMAIN max
                \/ MaxVersion(reqs, PathOf(d), max[PathOf(d)], VersionOf(d)) # VersionOf(d)
             THEN (PathOf(d) :> VersionOf(d)) @@ max ELSE max,
           AsMap(list), lower)

\* Variant: what requires an excluded module is not excluded with it.
Exclude_Alone(st, m) == [st EXCEPT !.excluded = @ \cup {m}]

\* m is out, and with it all that requires it.
RECURSIVE Exclude(_, _)
Exclude(st, m) ==
  IF m \in st.excluded THEN st
  ELSE FoldLeft(LAMBDA s, by : Exclude(s, by),
                [st EXCEPT !.excluded = @ \cup {m}],
                SetToSeq({d[2] : d \in {e \in st.rdeps : e[1] = m}}))

RECURSIVE Consider(_, _, _, _)
RECURSIVE ConsiderDeps(_, _, _, _, _)

\* add: m is excluded when it exceeds the ceiling, cannot be loaded, or
\* requires an excluded module.
Consider(reqs, max, st, m) ==
  LET p == PathOf(m)
      seen == [st EXCEPT !.added = @ \cup {m}]
      tooHigh == p \in DOMAIN max /\ MaxVersion(reqs, p, VersionOf(m), max[p]) # max[p]
      r == Required(reqs, m)
  IN CASE m \in st.added -> st
       [] m \notin st.added /\ (tooHigh \/ r.err) -> Exclude(seen, m)
       [] OTHER -> ConsiderDeps(reqs, max, seen, m, r.deps)

ConsiderDeps(reqs, max, st, m, deps) ==
  IF deps = <<>> THEN st
  ELSE LET d == Head(deps)
           after == Consider(reqs, max, st, d)
       IN IF d \in after.excluded THEN Exclude(after, m)
          ELSE ConsiderDeps(reqs, max, [after EXCEPT !.rdeps = @ \cup {<<d, m>>}],
                            m, Tail(deps))

\* Previous: the known version right below m's, or "none".
Previous(reqs, m) ==
  LET p == PathOf(m)
      below == {v \in reqs.known[p] : CompareKnown(reqs, p, v, VersionOf(m)) < 0}
  IN <<p, IF below = {} THEN NoVersion
          ELSE CHOOSE v \in below : \A w \in below : CompareKnown(reqs, p, w, v) <= 0>>

\* Step from r down to a version that is not excluded; a ceiling that
\* Previous skips is put back in its place.
RECURSIVE StepDown(_, _, _, _)
StepDown(reqs, max, st, r) ==
  IF r \notin st.excluded THEN [st |-> st, mod |-> r]
  ELSE LET p == PathOf(r)
           prev == Previous(reqs, r)
           skipped == /\ MaxVersion(reqs, p, max[p], VersionOf(r)) # max[p]
                      /\ MaxVersion(reqs, p, VersionOf(prev), max[p]) # VersionOf(prev)
           next == IF skipped THEN <<p, max[p]>> ELSE prev
       IN IF VersionOf(next) = NoVersion THEN [st |-> st, mod |-> next]
          ELSE StepDown(reqs, max, Consider(reqs, max, st, next), next)

\* The list with each module stepped down, the dropped ones left out.
Lowered(reqs, max, list) ==
  FoldLeft(LAMBDA acc, r :
             LET s == StepDown(reqs, max, Consider(reqs, max, acc.st, r), r)
             IN [st |-> s.st,
                 list |-> IF VersionOf(s.mod) = NoVersion THEN acc.list
                          ELSE Append(acc.list, s.mod)],
           [st |-> [added |-> {}, excluded |-> {}, rdeps |-> {}],
            list |-> <<reqs.main>>],
           list).list

\* The versions that a build list has for the paths of list.
Reselect(list, actual) ==
  LET present == SelectSeq(list, LAMBDA m : \E a \in ToSet(actual) : PathOf(a) = PathOf(m))
  IN [i \in DOMAIN present |-> CHOOSE a \in ToSet(actual) : PathOf(a) = PathOf(present[i])]

\* The list lowered is only a guess: MVS selects, and what it selects of the
\* paths in list is what the target then lists.
Rebuild(reqs, list, actual) ==
  IF actual.err THEN actual ELSE BuildList(Override(reqs, Reselect(list, actual.list)))

DowngradeFrom(reqs, list, lower) ==
  Rebuild(reqs, list, BuildList(Override(reqs, Lowered(reqs, Ceiling(reqs, list, lower), list))))

Downgrade(reqs, lower) ==
  LET before == BuildList(reqs)
  IN IF before.err THEN before ELSE DowngradeFrom(reqs, Tail(before.list), lower)

=============================================================================
