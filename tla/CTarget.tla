------------------------------ MODULE CTarget ------------------------------
(***************************************************************************)
(* What a cross-compilation target makes of a command of a formula:        *)
(* Target.Use (src/internal/crosscompile/c/target.go) and the choice that  *)
(* customTarget makes between two of them                                  *)
(* (src/internal/crosscompile/crosscompile.go).                            *)
(*                                                                         *)
(* A command has a name, the options that matter here, the sysroot among   *)
(* its arguments and an environment.  Each tool has one name: gcc and      *)
(* clang go for cc, and so on.  A toolchain is known by its sysroot.       *)
(***************************************************************************)
EXTENDS Naturals

CONSTANTS Unset, NoRoot

\* A variable may be set to nothing.
ASSUME UnsetAssumption == Unset # ""

ToolNames == [cc |-> "CC", cxx |-> "CXX", ld |-> "LD", ar |-> "AR",
              ranlib |-> "RANLIB", nm |-> "NM", strip |-> "STRIP"]
Tools == {ToolNames[n] : n \in DOMAIN ToolNames}

Var == Tools \cup {"CFLAGS", "PKG_CONFIG_PATH", "PKG_CONFIG_LIBDIR"}

isCMakeConfigure(cmd) == "--build" \notin cmd.options
hasCMakeToolchain(cmd) == "--toolchain" \in cmd.options

NeedsFile(cmd) == cmd.name = "cmake" /\ isCMakeConfigure(cmd) /\ ~hasCMakeToolchain(cmd)

\* configure, cmake and pkg-config look for libraries on their own.
Searches(cmd) == cmd.name \in {"configure", "pkg-config"} \/ NeedsFile(cmd)

\* The last of the flags wins, and arguments come after the environment.
commandSysroot(cmd) ==
  IF cmd.root # NoRoot THEN cmd.root
  ELSE IF cmd.env["CFLAGS"] = Unset THEN NoRoot ELSE cmd.env["CFLAGS"]

setMissingEnv(env, key, value) ==
  IF env[key] = Unset THEN [env EXCEPT ![key] = value] ELSE env

\* pkg-config must not look further than PKG_CONFIG_PATH; without a sysroot
\* nothing changes.
pkgConfigPatch(sysroot, env) ==
  IF sysroot = NoRoot THEN env
  ELSE setMissingEnv(env, "PKG_CONFIG_LIBDIR",
         IF env["PKG_CONFIG_PATH"] = Unset THEN "" ELSE env["PKG_CONFIG_PATH"])

autotoolsEnv(sysroot, env) ==
  pkgConfigPatch(sysroot,
    [v \in Var |-> IF v \in Tools /\ env[v] = Unset THEN <<v, sysroot>> ELSE env[v]])

\* The panic of Use: configure cannot be read for its options.
MayPanic(cmd) == cmd.name = "configure" /\ "--host" \notin cmd.options

\* The command that Target.Use leaves: runs is the tool that runs in its
\* place, file whether it names the toolchain file, alters whether the patch
\* has an environment.
Use(sysroot, cmd) ==
  [runs   |-> IF cmd.name \in DOMAIN ToolNames THEN <<ToolNames[cmd.name], sysroot>>
              ELSE <<cmd.name, NoRoot>>,
   file   |-> NeedsFile(cmd),
   alters |-> cmd.name = "configure" \/ (Searches(cmd) /\ sysroot # NoRoot),
   env    |-> IF cmd.name = "configure" THEN autotoolsEnv(sysroot, cmd.env)
              ELSE IF Searches(cmd) THEN pkgConfigPatch(sysroot, cmd.env) ELSE cmd.env]

\* Variant: a command without a sysroot goes to the bootstrap target always.
Chosen_ByCommand(target, cmd) ==
  IF commandSysroot(cmd) = NoRoot THEN "bootstrap" ELSE "configured"

\* Which of its two targets a custom target uses: the first command with a
\* sysroot settles it.
Chosen(target, cmd) ==
  IF commandSysroot(cmd) = NoRoot /\ target.configured = NoRoot
  THEN "bootstrap" ELSE "configured"

=============================================================================
