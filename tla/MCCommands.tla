----------------------------- MODULE MCCommands -----------------------------
(***************************************************************************)
(* Two builds of one llard, with their hooks calling the broker.           *)
(***************************************************************************)
EXTENDS Commands

CONSTANTS g1, g2, r1, r2, host

Builds(x, y) == [g \in {g1, g2} |-> IF g = g1 THEN x ELSE y]
MCPlan == {Builds("default", "native"), Builds("custom", "native")}

MCSettings ==
  [g \in {g1, g2} |->
     IF g = g1 THEN {<<"CC", g1>>, <<"PKG_CONFIG_PATH", g1>>, <<"CFLAGS", r1>>}
     ELSE {<<"CC", g2>>}]

MCProcessEnv == [v \in Var |-> IF v = "PKG_CONFIG_PATH" THEN host ELSE Unset]

Cmd(name, options, root) == [name |-> name, options |-> options, root |-> root]
Cross ==
  {Cmd("configure", {}, NoRoot), Cmd("configure", {"--host"}, NoRoot),
   Cmd("cmake", {}, NoRoot), Cmd("cmake", {}, r2), Cmd("cmake", {"--build"}, NoRoot),
   Cmd("cmake", {"--toolchain"}, NoRoot), Cmd("pkg-config", {}, NoRoot),
   Cmd("cc", {}, NoRoot)}

MCOffered == [g \in {g1, g2} |-> IF g = g1 THEN Cross ELSE {Cmd("cc", {}, NoRoot)}]
MCMaxSteps == [g \in {g1, g2} |-> IF g = g1 THEN 3 ELSE 2]

=============================================================================
