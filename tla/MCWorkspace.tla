---------------------------- MODULE MCWorkspace ----------------------------
(***************************************************************************)
(* Commands on two versions of module a and one of module b, run together. *)
(***************************************************************************)
EXTENDS Workspace

CONSTANTS a1, a2, b1, A, B, c1, c2, c3

MCPathOf == [k \in {a1, a2, b1} |-> IF k = b1 THEN B ELSE A]

Make(keys, mods) == [kind |-> "make", keys |-> keys, mods |-> mods]
Install(keys) == [kind |-> "install", keys |-> keys, mods |-> <<>>]

Nothing == [kind |-> "nothing", keys |-> <<>>, mods |-> <<>>]

Three(x, y, z) == [c \in {c1, c2, c3} |-> CASE c = c1 -> x [] c = c2 -> y [] OTHER -> z]
Pair(x, y) == Three(x, y, Nothing)

MCPlan ==
  {Pair(Make(<<a1>>, <<>>), Make(<<a1>>, <<>>)),
   Pair(Make(<<b1, a1>>, <<>>), Make(<<a2>>, <<>>)),
   Pair(Make(<<b1, a1>>, <<>>), Install(<<b1>>)),
   Pair(Install(<<b1, a1>>), Install(<<a1>>)),
   Pair(Install(<<b1, a1>>), Install(<<a2>>)),
   Three(Make(<<a1>>, <<>>), Install(<<a1>>), Make(<<a2>>, <<>>)),
   Three(Make(<<a1>>, <<>>), Make(<<a1>>, <<>>), Install(<<a2>>)),
   Three(Make(<<a1>>, <<>>), Make(<<a2>>, <<>>), Make(<<a1>>, <<>>)),
   Pair(Make(<<a1>>, <<A, B>>), Make(<<b1>>, <<B>>))}

=============================================================================
