---------------------------- MODULE MCGraphBuild ----------------------------
(***************************************************************************)
(* Small instances of GraphBuild for TLC.  A request names its process, its *)
(* matrix, the build list in the order of constructBuildList, and what each *)
(* of its modules gets from resolveModTransitiveDeps (see BuildOrder).      *)
(***************************************************************************)
EXTENDS GraphBuild, TLC

CONSTANTS b1, b2, b3, p1, p2, linux, darwin

Request(process, matrix, order, deps) ==
  [process |-> process, matrix |-> matrix, order |-> order, deps |-> deps]

BuildsOf(request) == [b \in Build |-> request[b].order]
DepsIn(request) == [b \in Build |-> request[b].deps]
ProcessIn(request) == [b \in Build |-> request[b].process]
VariantIn(request) == [b \in Build |-> [p \in Path |-> request[b].matrix]]

-----------------------------------------------------------------------------
(* libpng (2) and freetype (3) both need zlib (1), in one process; another  *)
(* process builds zlib for a matrix in which zlib needs libpng.             *)

OverlapRequest ==
  b1 :> Request(p1, linux, <<1, 2>>, 1 :> {} @@ 2 :> {1}) @@
  b2 :> Request(p1, linux, <<1, 3>>, 1 :> {} @@ 3 :> {1}) @@
  b3 :> Request(p2, darwin, <<2, 1>>, 2 :> {} @@ 1 :> {2})

StraySettings == {<<"own", "unset">>, <<"other", "altered">>}

OverlapBuildList == BuildsOf(OverlapRequest)
OverlapDeps == DepsIn(OverlapRequest)
OverlapProcessOf == ProcessIn(OverlapRequest)
OverlapVariantOf == VariantIn(OverlapRequest)

-----------------------------------------------------------------------------
(* Two builds of disjoint graphs in one process.                            *)

DisjointRequest ==
  b1 :> Request(p1, linux, <<1>>, 1 :> {}) @@
  b2 :> Request(p1, linux, <<2>>, 2 :> {})

DisjointBuildList == BuildsOf(DisjointRequest)
DisjointDeps == DepsIn(DisjointRequest)
DisjointProcessOf == ProcessIn(DisjointRequest)
DisjointVariantOf == VariantIn(DisjointRequest)
=============================================================================
