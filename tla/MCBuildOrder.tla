---------------------------- MODULE MCBuildOrder ----------------------------
(***************************************************************************)
(* The pure algorithms on bounded inputs, which TLC enumerates.            *)
(*                                                                         *)
(* BuildOrder: every dependency graph of four modules.  The build list is  *)
(* <<1, 2, 3, 4>> with the main module 1; a module can be in it because of *)
(* a version that was not selected, so the selected ones need not reach it. *)
(*                                                                         *)
(* VersionEdits: requirement graphs over versions, grown one requirement   *)
(* at a time.  Module 1 is the main module, in version 1; the others have  *)
(* versions 1..3, of which Previous and latest know all but 2.             *)
(*                                                                         *)
(* VersionOrder: short version texts.  RefOrder: repositories of three     *)
(* commits.                                                                *)
(*                                                                         *)
(* BuildMatrix: command lines of a few arguments.                          *)
(***************************************************************************)
EXTENDS BuildOrder, VersionOrder, RefOrder, BuildMatrix, TLC

CONSTANTS
  MaxEdges,   \* the number of requirements between versions
  Tags        \* tags of a repository

VARIABLES
  edges,      \* who requires which version
  bad         \* the versions whose requirements cannot be loaded

E == INSTANCE VersionEdits WITH Path <- 1..3, Version <- 1..3

-----------------------------------------------------------------------------
(* Build lists with their dependencies: every order of each list, but the  *)
(* main module's, which is not read.                                       *)

Module == 1..4
NoPath == 0

Lists(S) == UNION {{s \in [1..n -> S] : IsInjective(s)} : n \in 0..Cardinality(S)}

Graphs ==
  {[targets |-> <<1, 2, 3, 4>>, direct |-> <<<<>>, a, b, c>>] :
     a \in Lists({1, 3, 4}), b \in Lists({1, 2, 4}), c \in Lists({1, 2, 3})}

-----------------------------------------------------------------------------
(* Versions and their requirements. *)

Start == <<1, 1>>
Candidates == {2, 3} \X (1..3)

RequiredBy(m) == SetToSortSeq({e[2] : e \in {f \in edges : f[1] = m}},
                        LAMBDA c, d : c[1] < d[1] \/ (c[1] = d[1] /\ c[2] < d[2]))

VersionReqs ==
  [main |-> Start, roots |-> RequiredBy(Start),
   need |-> [m \in E!Mod |-> [err |-> m \in bad, deps |-> IF m \in bad THEN <<>> ELSE RequiredBy(m)]],
   latest |-> [p \in 1..3 |-> 3], known |-> [p \in 1..3 |-> {1, 3}],
   rank |-> [p \in 1..3 |-> [v \in 1..3 |-> v]]]

-----------------------------------------------------------------------------
(* Remotes: commits 1..3, each the child of an earlier one or of none; two  *)
(* tags that may compare equal, of commits or of tag objects; a branch or  *)
(* none; and commit times in any order.                                    *)

Repositories ==
  {[tags |-> [t \in DOMAIN tg |-> IF annotated THEN 9 ELSE tg[t]],
    peeled |-> IF annotated THEN tg ELSE <<>>,
    heads |-> hs, rank |-> rk, time |-> tm,
    above |-> [c \in 1..3 |-> CASE c = 1 -> {}
                                [] c = 2 -> IF p2 THEN {1} ELSE {}
                                [] c = 3 -> IF p3 THEN {2} \cup (IF p2 THEN {1} ELSE {}) ELSE {1}]]
     : tg \in UNION {[T -> 1..3] : T \in SUBSET Tags}, annotated \in BOOLEAN,
       hs \in {{}, {2}, {3}}, rk \in [Tags -> 1..2],
       tm \in {<<1, 2, 3>>, <<3, 2, 1>>, <<1, 1, 2>>}, p2 \in BOOLEAN, p3 \in BOOLEAN}

Hashes == 1..3
NoRemote == [tags |-> NoTag :> 1]

-----------------------------------------------------------------------------
\* "~", "-", "0", "1", "2", "a".
Bytes == {126, 45, 48, 49, 50, 97}
ShortTexts == UNION {[1..n -> Bytes] : n \in 0..2} \cup {<<49, 48, 49>>, <<49, 48, 48>>, <<48, 48, 49>>}
NoText == <<0>>

-----------------------------------------------------------------------------
(* Command lines: dimensions as flags of their own, --require and --option, *)
(* a flag of the command, and one without a value.                          *)

Dimensions == <<"arch", "libc", "os", "shared", "ssl">>
Words == {"a", "b", "linux", "amd64", "-"}
Machine == [os |-> <<"linux">>, arch |-> <<"amd64">>]

Gives(flag, names, values) == {[flag |-> flag, name |-> n, value |-> v] : n \in names, v \in values}
Arguments ==
  Gives("unknown", {"arch", "libc", "os", "ssl"}, {<<"a">>, <<"b">>})
    \cup Gives("option", {"os", "shared", "ssl"}, {<<"a">>, <<"b">>})
    \cup Gives("option", {"ssl"}, {<<"a", "-", "b">>})
    \cup Gives("require", {"os"}, {<<"b">>})
    \cup Gives("known", {""}, {<<"a">>})
    \cup Gives("unknown", {"os"}, {<<>>})

ShortLines == UNION {[1..n -> Arguments] : n \in 0..2}
NoLine == <<[flag |-> "none", name |-> "", value |-> <<>>]>>

NoInput == edges = {} /\ bad = {} /\ text = NoText /\ repository = NoRemote /\ args = NoLine
others == <<edges, bad, text, repository, args>>

\* The other algorithms look at states in which no walk has begun, on one graph.
AtRest == visited = {} /\ path = <<Nobody>> /\ direct = <<<<>>, <<>>, <<>>, <<>>>>

MCInit ==
  /\ Init
  /\ edges = {}
  /\ bad \in {{}, {<<2, 1>>}}
  /\ bad # {} => AtRest
  /\ text = NoText
  /\ repository = NoRemote
  /\ args = NoLine

Blank == AtRest /\ NoInput

Walk == NoInput /\ Next /\ UNCHANGED others

\* Version m requires d too.
RequireVersion(m, d) ==
  /\ AtRest /\ text = NoText /\ repository = NoRemote /\ args = NoLine
  /\ Cardinality(edges) < MaxEdges
  /\ m # d
  /\ m = Start \/ \E e \in edges : e[2] = m
  /\ edges' = edges \cup {<<m, d>>}
  /\ UNCHANGED <<orderVars, bad, text, repository, args>>

GiveText ==
  /\ Blank
  /\ text' \in Texts
  /\ UNCHANGED <<orderVars, edges, bad, repository, args>>

GiveRepository ==
  /\ Blank
  /\ repository' \in Repositories
  /\ UNCHANGED <<orderVars, edges, bad, text, args>>

GiveArgument ==
  /\ AtRest /\ edges = {} /\ bad = {} /\ text = NoText /\ repository = NoRemote
  /\ \/ args = NoLine /\ args' = <<>>
     \/ /\ args # NoLine /\ Len(args) < 3
        /\ \E a \in Arguments : args' = Append(args, a)
  /\ UNCHANGED <<orderVars, edges, bad, text, repository>>

MCNext ==
  \/ Walk
  \/ GiveArgument
  \/ GiveText \/ GiveRepository
  \/ \E m \in Candidates \cup {Start}, d \in Candidates : RequireVersion(m, d)

MCSpec == MCInit /\ [][MCNext]_<<orderVars, others>>

-----------------------------------------------------------------------------
(* Edits of a build list.  Invariants look at the states that are inputs   *)
(* of theirs.                                                              *)

Loads == ~E!BuildList(VersionReqs).err

\* Req lists a base path and enough else for the same build list, and no
\* more: without any entry that is not in base the list changes.
ReqIsMinimal ==
  edges # {} /\ Loads =>
    LET list == E!BuildList(VersionReqs).list
        With(roots) == E!BuildList(E!Override(VersionReqs, roots)).list
    IN \A b \in {<<>>} \cup {<<list[i][1]>> : i \in 2..Len(list)} :
         LET r == E!Req(VersionReqs, b) IN
         /\ With(r) = list
         /\ \A q \in Range(b) : \E m \in Range(r) : m[1] = q
         /\ \A i \in DOMAIN r : r[i][1] \notin Range(b) => With(RemoveAt(r, i)) # list

\* version[p] in a build list, 0 for a path it does not have.
Chosen(list, p) == IF p \in DOMAIN E!AsMap(list) THEN E!AsMap(list)[p] ELSE 0

\* Upgrade and UpgradeAll reach what they were asked for and lower nothing.
UpgradeReaches ==
  edges # {} /\ Loads /\ bad = {} =>
    LET list == E!BuildList(VersionReqs).list
        all == E!UpgradeAll(VersionReqs).list
        before(p) == Chosen(list, p)
    IN /\ \A p \in {2, 3} : before(p) # 0 => Chosen(all, p) = 3
       /\ \A u \in Candidates, w \in Candidates :
            LET up == E!Upgrade(VersionReqs, <<u, w>>).list IN
            /\ Chosen(up, u[1]) >= u[2] /\ Chosen(up, w[1]) >= w[2]
            /\ \A p \in {2, 3} : Chosen(up, p) >= before(p)

\* down is a fair answer to lowering the list to d.
Within(list, d, down) ==
  /\ ~down.err
  /\ Chosen(down.list, d[1]) <= d[2]
  /\ Chosen(list, d[1]) >= d[2] /\ RequiredBy(d) = <<>> /\ d \notin bad =>
       Chosen(down.list, d[1]) = d[2]
  /\ \A p \in {2, 3} \ {d[1]} : Chosen(down.list, p) <= Chosen(list, p)

\* After Downgrade no path is above what was asked, nothing else went up or
\* came in, and a version that was asked for and requires nothing is taken,
\* also one that Previous does not know.
DowngradeWithin ==
  edges # {} /\ Loads =>
    \A d \in Candidates \cup {<<2, 0>>, <<3, 0>>} :
      Within(E!BuildList(VersionReqs).list, d, E!Downgrade(VersionReqs, <<d>>))

=============================================================================
