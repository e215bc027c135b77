--------------------------- MODULE Commands_proofs ---------------------------
(***************************************************************************)
(* Theorems about Commands for any number of goroutines, any builds, hooks *)
(* and settings.                                                           *)
(***************************************************************************)
EXTENDS Commands, TLAPS

Slot == Goroutine \X {"scope", "cmd"}

IsFunction(f, S) == f = [x \in S |-> f[x]]

CommandsTypeOK ==
  /\ kind \in [Goroutine -> {"native", "default", "custom"}]
  /\ pc \in [Goroutine -> {"build", "hook", "rewrite", "leaving", "over"}]
  /\ phase \in [Goroutine -> {"libc", "main"}]
  /\ IsFunction(failed, Goroutine)
  /\ IsFunction(slices, Slot)
  /\ IsFunction(scope, Goroutine)
  /\ IsFunction(request, Goroutine)
  /\ IsFunction(cmd, Goroutine)
  /\ IsFunction(meant, Goroutine)
  /\ IsFunction(first, Goroutine)
  /\ IsFunction(target, Goroutine)
  /\ \A g \in Goroutine : target[g] = [configured |-> target[g].configured]
  /\ dirs \subseteq Goroutine \X {"bootstrap", "configured"}

Running(g) == pc[g] \in {"hook", "rewrite"}

\* A scope is its goroutine's own, and has what the hook has set, nothing
\* else; a command in the rewriting starts from that, or from the process
\* environment where that is empty.
ScopeIsOwn ==
  \A g \in Goroutine :
    /\ scope[g] \in {Nil, <<g, "scope">>}
    /\ Running(g) => Contents(scope[g]) = meant[g] /\ IsFunction(meant[g], Var)
    /\ pc[g] = "rewrite" =>
         request[g].env = Expected(meant[g]) /\ request[g].name \notin Tools

\* A command has a slice of its goroutine's own, or none: then it runs in the
\* environment of the process.
CommandIsOwn ==
  \A g \in Goroutine : cmd[g] # Nil =>
    /\ cmd[g].slice \in {Nil, <<g, "cmd">>}
    /\ Running(g) \/ pc[g] = "leaving"

\* The sysroot that a build has settled on is the one of its first command
\* that had one, or that the default libc was built into.
Settled ==
  \A g \in Goroutine :
    /\ kind[g] = "custom" => target[g].configured = first[g]
    /\ kind[g] = "default" => first[g] = IF phase[g] = "main" THEN Sysroot ELSE NoRoot
    /\ phase[g] = "libc" => kind[g] = "default"

Inv ==
  /\ CommandsTypeOK
  /\ ScopeIsOwn
  /\ CommandIsOwn
  /\ Settled
  /\ CommandKeepsSettings
  /\ OneSysroot
  /\ ToolchainFilesLive

-----------------------------------------------------------------------------
(* What a target does to a command. *)

LEMMA SetMissing ==
  ASSUME NEW env, IsFunction(env, Var), NEW key \in Var, NEW value
  PROVE  /\ IsFunction(setMissingEnv(env, key, value), Var)
         /\ setMissingEnv(env, key, value)[key] =
              IF env[key] = Unset THEN value ELSE env[key]
         /\ \A v \in Var \ {key} : setMissingEnv(env, key, value)[v] = env[v]
BY DEF IsFunction, setMissingEnv

\* Variable v of the new environment is the old one's, or a target has filled
\* it in.
Filled(env, new, v) ==
  \/ new[v] = env[v]
  \/ v \in Tools \cup {"PKG_CONFIG_LIBDIR"} /\ env[v] = Unset

LEMMA PkgConfigKeeps ==
  ASSUME NEW root, NEW env, IsFunction(env, Var)
  PROVE  /\ \A v \in Var : Filled(env, pkgConfigPatch(root, env), v)
         /\ root # NoRoot => pkgConfigPatch(root, env)["PKG_CONFIG_LIBDIR"] # Unset
<1> DEFINE path == IF env["PKG_CONFIG_PATH"] = Unset THEN "" ELSE env["PKG_CONFIG_PATH"]
<1>1. path # Unset
  BY UnsetAssumption
<1> HIDE DEF path
<1>2. "PKG_CONFIG_LIBDIR" \in Var
  BY DEF Var
<1>3. CASE root = NoRoot
  BY <1>3 DEF pkgConfigPatch, Filled
<1>4. CASE root # NoRoot
  <2>1. pkgConfigPatch(root, env) = setMissingEnv(env, "PKG_CONFIG_LIBDIR", path)
    BY <1>4 DEF pkgConfigPatch, path
  <2>2. QED
    BY <1>1, <1>2, <2>1, SetMissing DEF Filled
<1>5. QED
  BY <1>3, <1>4

LEMMA AutotoolsKeeps ==
  ASSUME NEW root, NEW env, IsFunction(env, Var)
  PROVE  /\ \A v \in Var : Filled(env, autotoolsEnv(root, env), v)
         /\ root # NoRoot => autotoolsEnv(root, env)["PKG_CONFIG_LIBDIR"] # Unset
<1> DEFINE tools == [v \in Var |-> IF v \in Tools /\ env[v] = Unset THEN <<v, root>> ELSE env[v]]
<1>1. IsFunction(tools, Var) /\ \A v \in Var : Filled(env, tools, v)
  BY DEF IsFunction, Filled
<1>2. autotoolsEnv(root, env) = pkgConfigPatch(root, tools)
  BY DEF autotoolsEnv
<1> HIDE DEF tools
<1>3. \A v \in Var : Filled(tools, pkgConfigPatch(root, tools), v)
  BY <1>1, PkgConfigKeeps
<1>4. \A v \in Var : Filled(env, pkgConfigPatch(root, tools), v)
  BY <1>1, <1>3 DEF Filled
<1>5. QED
  BY <1>1, <1>2, <1>4, PkgConfigKeeps

\* A target leaves what the formula has set, adds only what is missing of its
\* own variables, and takes care of what searches for libraries and of the
\* tools it has.
LEMMA UseKeeps ==
  ASSUME NEW root, NEW c, IsFunction(c.env, Var)
  PROVE  \A v \in Var : Filled(c.env, Use(root, c).env, v)
<1>1. Use(root, c).env =
        IF c.name = "configure" THEN autotoolsEnv(root, c.env)
        ELSE IF Searches(c) THEN pkgConfigPatch(root, c.env) ELSE c.env
  BY DEF Use
<1>2. \A v \in Var : Filled(c.env, c.env, v)
  BY DEF Filled
<1>3. QED
  BY <1>1, <1>2, PkgConfigKeeps, AutotoolsKeeps

LEMMA UseForSysroot ==
  ASSUME NEW root, NEW c, IsFunction(c.env, Var), root # NoRoot, c.name \notin Tools
  PROVE  /\ Use(root, c).runs[1] \in Tools => Use(root, c).runs[2] = root
         /\ Searches(c) =>
              Use(root, c).alters /\ Use(root, c).env["PKG_CONFIG_LIBDIR"] # Unset
<1>1. Searches(c) => Use(root, c).alters /\ Use(root, c).env["PKG_CONFIG_LIBDIR"] # Unset
  BY PkgConfigKeeps, AutotoolsKeeps DEF Use
<1>2. Use(root, c).runs \in {<<c.name, NoRoot>>, <<ToolNames[c.name], root>>}
  BY DEF Use
<1>3. QED
  BY <1>1, <1>2

-----------------------------------------------------------------------------
(* What a hook sets goes to the slice of its own scope and is what it meant. *)

Sets(g, e) ==
  /\ IsFunction(e, Var)
  /\ pc[g] = "hook"
  /\ scope' = [scope EXCEPT ![g] = <<g, "scope">>]
  /\ slices' = [slices EXCEPT ![<<g, "scope">>] = e]
  /\ meant' = [meant EXCEPT ![g] = e]
  /\ UNCHANGED <<pc, failed, reading, request, cmd, building>>

LEMMA SettingSets ==
  ASSUME Inv, NEW g \in Goroutine, Setenv(g) \/ Unsetenv(g) \/ Clearenv(g)
  PROVE  \E e : Sets(g, e)
<1>1. (pc[g] = "hook") =>
        Contents(scope[g]) = meant[g] /\ IsFunction(meant[g], Var)
  BY DEF Inv, ScopeIsOwn, Running
<1>2. scope[g] \in {Nil, <<g, "scope">>}
  BY DEF Inv, ScopeIsOwn
<1>3. meant = [h \in Goroutine |-> meant[h]]
  BY DEF Inv, CommandsTypeOK, IsFunction
<1>4. CASE Setenv(g)
  <2>1. PICK s \in Settings[g] : LET change(env) == [env EXCEPT ![s[1]] = s[2]] IN Changes(g, change)
    BY <1>4 DEF Setenv
  <2>2. Sets(g, [meant[g] EXCEPT ![s[1]] = s[2]])
    BY <1>1, <1>2, <1>3, <2>1 DEF Changes, Calls, Sets, IsFunction, building
  <2>3. QED
    BY <2>2
<1>5. CASE Unsetenv(g)
  <2>1. PICK s \in Settings[g] : LET change(env) == [env EXCEPT ![s[1]] = Unset] IN Changes(g, change)
    BY <1>5 DEF Unsetenv
  <2>2. Sets(g, [meant[g] EXCEPT ![s[1]] = Unset])
    BY <1>1, <1>2, <1>3, <2>1 DEF Changes, Calls, Sets, IsFunction, building
  <2>3. QED
    BY <2>2
<1>6. CASE Clearenv(g)
  <2>1. Sets(g, Unaware)
    BY <1>1, <1>2, <1>3, <1>6 DEF Clearenv, Changes, Calls, Sets, IsFunction, Unaware, building
  <2>2. QED
    BY <2>1
<1>7. QED
  BY <1>4, <1>5, <1>6

\* What the clone of the scope's slice stands for is what the hook meant.
LEMMA ClonedIsExpected ==
  ASSUME Inv, NEW g \in Goroutine, Running(g)
  PROVE  /\ Cloned(g) = Expected(meant[g])
         /\ Inherits(g) => Expected(meant[g]) = ProcessEnv
<1>1. Contents(scope[g]) = meant[g]
  BY DEF Inv, ScopeIsOwn
<1>2. CASE scope[g] = Nil
  BY <1>1, <1>2 DEF Cloned, Inherits, Contents, Expected
<1>3. CASE scope[g] # Nil
  BY <1>1, <1>3 DEF Cloned, Inherits, Contents, Expected
<1>4. QED
  BY <1>2, <1>3

-----------------------------------------------------------------------------
(* Every action keeps the invariant. *)

LEMMA CommandsInitInv == Init => Inv
<1> SUFFICES ASSUME Init PROVE Inv
  OBVIOUS
<1> USE DEF Init
<1>1. CommandsTypeOK
  BY PlanAssumption DEF CommandsTypeOK, IsFunction, Slot
<1>2. ScopeIsOwn /\ CommandIsOwn
  BY DEF ScopeIsOwn, CommandIsOwn, Running
<1>3. Settled
  BY <1>1 DEF Settled, CommandsTypeOK
<1>4. CommandKeepsSettings /\ OneSysroot /\ ToolchainFilesLive
  BY DEF CommandKeepsSettings, OneSysroot, ToolchainFilesLive
<1>5. QED
  BY <1>1, <1>2, <1>3, <1>4 DEF Inv

LEMMA DoInv == ASSUME Inv, NEW g \in Goroutine, Do(g) PROVE Inv'
<1> USE DEF Inv, Do, To, building
<1>1. CommandsTypeOK'
  BY DEF CommandsTypeOK, IsFunction, Slot
<1>2. ScopeIsOwn'
  BY EnvAssumption DEF ScopeIsOwn, CommandsTypeOK, IsFunction, Running, Contents
<1>3. CommandIsOwn'
  BY DEF CommandIsOwn, CommandsTypeOK, IsFunction, Running
<1>4. Settled' /\ CommandKeepsSettings' /\ OneSysroot'
  BY DEF Settled, CommandKeepsSettings, OneSysroot, Contents, Middleware
<1>5. ToolchainFilesLive'
  BY DEF ToolchainFilesLive, CommandsTypeOK, IsFunction
<1>6. QED
  BY <1>1, <1>2, <1>3, <1>4, <1>5

LEMMA SetsInv == ASSUME Inv, NEW g \in Goroutine, NEW e, Sets(g, e) PROVE Inv'
<1> USE DEF Inv, Sets, building
<1>0. <<g, "scope">> \in Slot /\ <<g, "scope">> # Nil
  BY EnvAssumption DEF Slot
<1>1. CommandsTypeOK'
  BY DEF CommandsTypeOK, IsFunction
<1>2. \A h \in Goroutine :
        /\ scope'[h] = IF h = g THEN <<g, "scope">> ELSE scope[h]
        /\ meant'[h] = IF h = g THEN e ELSE meant[h]
        /\ slices'[<<h, "scope">>] = IF h = g THEN e ELSE slices[<<h, "scope">>]
        /\ slices'[<<h, "cmd">>] = slices[<<h, "cmd">>]
  BY <1>0 DEF CommandsTypeOK, IsFunction, Slot
<1>3. ScopeIsOwn'
  BY <1>0, <1>2 DEF ScopeIsOwn, Running, Contents
<1>4. CommandIsOwn'
  BY DEF CommandIsOwn, Running
<1>5. Settled' /\ ToolchainFilesLive'
  BY DEF Settled, ToolchainFilesLive
<1>6. \A h \in Goroutine : cmd[h] # Nil => Contents(cmd[h].slice)' = Contents(cmd[h].slice)
  BY <1>2 DEF CommandIsOwn, Contents
<1>7. CommandKeepsSettings' /\ OneSysroot'
  BY <1>6 DEF CommandKeepsSettings, OneSysroot, Middleware
<1>8. QED
  BY <1>1, <1>3, <1>4, <1>5, <1>7

LEMMA HookReturnsInv == ASSUME Inv, NEW g \in Goroutine, HookReturns(g) PROVE Inv'
<1> USE DEF Inv, HookReturns, To, building, slicing
<1>1. CommandsTypeOK'
  BY DEF CommandsTypeOK, IsFunction
<1>2. ScopeIsOwn' /\ CommandIsOwn'
  BY DEF ScopeIsOwn, CommandIsOwn, CommandsTypeOK, IsFunction, Running, Contents
<1>3. Settled' /\ CommandKeepsSettings' /\ OneSysroot'
  BY DEF Settled, CommandKeepsSettings, OneSysroot, Contents, Middleware
<1>4. ToolchainFilesLive'
  BY DEF ToolchainFilesLive, CommandsTypeOK, IsFunction
<1>5. QED
  BY <1>1, <1>2, <1>3, <1>4

LEMMA RewriteInv == ASSUME Inv, NEW g \in Goroutine, Rewrite(g) PROVE Inv'
<1> USE DEF Inv, Rewrite, Calls, To, building, slicing
<1>1. CommandsTypeOK'
  BY DEF CommandsTypeOK, IsFunction
<1>2. ScopeIsOwn' /\ CommandIsOwn'
  <2>1. PICK c \in Offered[g] :
          request' = [request EXCEPT ![g] =
            [name |-> c.name, options |-> c.options, root |-> c.root,
             env |-> Cloned(g)]]
    OBVIOUS
  <2>2. /\ request'[g].env = Cloned(g) /\ request'[g].name \notin Tools
        /\ \A h \in Goroutine \ {g} : request'[h] = request[h]
    BY <2>1, OfferedAssumption DEF CommandsTypeOK, IsFunction
  <2>3. /\ pc[g] = "hook" /\ pc'[g] = "rewrite"
        /\ \A h \in Goroutine \ {g} : pc'[h] = pc[h]
    BY DEF CommandsTypeOK, IsFunction
  <2>4. QED
    BY <2>2, <2>3, ClonedIsExpected DEF ScopeIsOwn, CommandIsOwn, Running, Contents
<1>3. Settled' /\ CommandKeepsSettings' /\ OneSysroot'
  BY DEF Settled, CommandKeepsSettings, OneSysroot, Contents, Middleware
<1>4. ToolchainFilesLive'
  BY DEF ToolchainFilesLive, CommandsTypeOK, IsFunction
<1>5. QED
  BY <1>1, <1>2, <1>3, <1>4

LEMMA UsePanicsInv == ASSUME Inv, NEW g \in Goroutine, UsePanics(g) PROVE Inv'
<1> USE DEF Inv, UsePanics, To, building, slicing
<1>1. CommandsTypeOK'
  BY DEF CommandsTypeOK, IsFunction
<1>2. ScopeIsOwn' /\ CommandIsOwn'
  BY DEF ScopeIsOwn, CommandIsOwn, CommandsTypeOK, IsFunction, Running, Contents
<1>3. Settled' /\ CommandKeepsSettings' /\ OneSysroot'
  BY DEF Settled, CommandKeepsSettings, OneSysroot, Contents, Middleware
<1>4. ToolchainFilesLive'
  BY DEF ToolchainFilesLive, CommandsTypeOK, IsFunction
<1>5. QED
  BY <1>1, <1>2, <1>3, <1>4

LEMMA RunsInv == ASSUME Inv, NEW g \in Goroutine, Runs(g) PROVE Inv'
<1> USE DEF Inv, Runs, To, building
<1>1. <<g, "cmd">> \in Slot
  BY DEF Slot
<1>2. CommandsTypeOK'
  <2>1. CASE pc' = pc /\ failed' = failed
    BY <2>1 DEF CommandsTypeOK, IsFunction
  <2>2. CASE pc' = [pc EXCEPT ![g] = "leaving"] /\ failed' = [failed EXCEPT ![g] = TRUE]
    BY <2>2 DEF CommandsTypeOK, IsFunction
  <2>3. QED
    BY <2>1, <2>2
<1>3. \A h \in Goroutine :
        /\ cmd'[h] = IF h = g THEN Nil ELSE cmd[h]
        /\ h # g => pc'[h] = pc[h] /\ slices'[<<h, "cmd">>] = slices[<<h, "cmd">>]
        /\ slices'[<<h, "scope">>] = slices[<<h, "scope">>]
  BY <1>1 DEF CommandsTypeOK, IsFunction, Slot
<1>4. pc'[g] \in {"hook", "leaving"}
  BY DEF CommandsTypeOK, IsFunction
<1>5. \A h \in Goroutine : (Running(h)' => Running(h)) /\ (pc'[h] = "rewrite" => pc[h] = "rewrite")
  BY <1>3, <1>4 DEF Running
<1>6. \A h \in Goroutine : Contents(scope[h])' = Contents(scope[h])
  BY <1>3 DEF ScopeIsOwn, Contents
<1>7. ScopeIsOwn'
  BY <1>5, <1>6 DEF ScopeIsOwn
<1>8. CommandIsOwn'
  BY <1>3 DEF CommandIsOwn, Running
<1>9. Settled'
  BY DEF Settled
<1>10. \A h \in Goroutine : cmd'[h] # Nil =>
        cmd'[h] = cmd[h] /\ Contents(cmd[h].slice)' = Contents(cmd[h].slice)
  BY <1>3 DEF CommandIsOwn, Contents
<1>11. CommandKeepsSettings' /\ OneSysroot'
  BY <1>10 DEF CommandKeepsSettings, OneSysroot, Middleware
<1>12. ToolchainFilesLive'
  BY <1>3, <1>4 DEF ToolchainFilesLive, CommandsTypeOK
<1>13. QED
  BY <1>2, <1>7, <1>8, <1>9, <1>11, <1>12

\* A Do that ends takes its scope and its command with it, and a build that
\* ends, or changes its target, the directories.
LEMMA DoEndsInv == ASSUME Inv, NEW g \in Goroutine, DoEnds(g) PROVE Inv'
<1> USE DEF Inv
<1>1. /\ pc[g] = "leaving"
      /\ scope' = [scope EXCEPT ![g] = Nil]
      /\ cmd' = [cmd EXCEPT ![g] = Nil]
      /\ meant' = [meant EXCEPT ![g] = Unaware]
      /\ slices' = [slices EXCEPT ![<<g, "scope">>] = Unaware, ![<<g, "cmd">>] = Unaware]
      /\ UNCHANGED <<failed, reading, request, kind, target>>
  BY DEF DoEnds
<1>2. /\ \/ pc' = [pc EXCEPT ![g] = "build"]
         \/ pc' = [pc EXCEPT ![g] = "over"] /\ dirs' = {d \in dirs : d[1] # g}
      /\ dirs' = {d \in dirs : d[1] # g} \/ dirs' = dirs
      /\ \/ /\ phase[g] = "libc"
            /\ phase' = [phase EXCEPT ![g] = "main"]
            /\ first' = [first EXCEPT ![g] = Sysroot]
         \/ phase' = phase /\ first' = first
  BY DEF DoEnds, SysrootBuilt, NextModule, BuildOver, Close, To
<1>3. /\ pc'[g] \in {"build", "over"}
      /\ pc'[g] = "over" => dirs' = {d \in dirs : d[1] # g}
      /\ \A h \in Goroutine \ {g} : pc'[h] = pc[h]
      /\ pc' \in [Goroutine -> {"build", "hook", "rewrite", "leaving", "over"}]
  BY <1>2 DEF CommandsTypeOK
<1>4. <<g, "scope">> \in Slot /\ <<g, "cmd">> \in Slot
  BY DEF Slot
<1>5. \A h \in Goroutine \ {g} :
        /\ scope'[h] = scope[h] /\ cmd'[h] = cmd[h] /\ meant'[h] = meant[h]
        /\ slices'[<<h, "scope">>] = slices[<<h, "scope">>]
        /\ slices'[<<h, "cmd">>] = slices[<<h, "cmd">>]
  BY <1>1 DEF CommandsTypeOK, IsFunction, Slot
<1>6. scope'[g] = Nil /\ cmd'[g] = Nil
  BY <1>1 DEF CommandsTypeOK, IsFunction
<1>7. CommandsTypeOK'
  <2>1. dirs' \subseteq Goroutine \X {"bootstrap", "configured"}
    BY <1>2 DEF CommandsTypeOK
  <2>2. phase' \in [Goroutine -> {"libc", "main"}] /\ IsFunction(first', Goroutine)
    BY <1>2 DEF CommandsTypeOK, IsFunction
  <2>3. /\ IsFunction(slices', Slot) /\ IsFunction(scope', Goroutine)
        /\ IsFunction(cmd', Goroutine) /\ IsFunction(meant', Goroutine)
    BY <1>1 DEF CommandsTypeOK, IsFunction
  <2>4. QED
    BY <1>1, <1>3, <2>1, <2>2, <2>3 DEF CommandsTypeOK, IsFunction
<1>8. \A h \in Goroutine \ {g} :
        /\ Contents(scope[h])' = Contents(scope[h])
        /\ cmd[h] # Nil => Contents(cmd[h].slice)' = Contents(cmd[h].slice)
  <2> SUFFICES ASSUME NEW h \in Goroutine \ {g}
               PROVE  /\ Contents(scope[h])' = Contents(scope[h])
                      /\ cmd[h] # Nil => Contents(cmd[h].slice)' = Contents(cmd[h].slice)
    OBVIOUS
  <2>1. /\ scope[h] \in {Nil, <<h, "scope">>}
        /\ cmd[h] # Nil => cmd[h].slice \in {Nil, <<h, "cmd">>}
    BY DEF ScopeIsOwn, CommandIsOwn
  <2>2. /\ scope'[h] = scope[h] /\ cmd'[h] = cmd[h]
        /\ slices'[<<h, "scope">>] = slices[<<h, "scope">>]
        /\ slices'[<<h, "cmd">>] = slices[<<h, "cmd">>]
    BY <1>5
  <2>3. QED
    BY <2>1, <2>2 DEF Contents
<1>9. ScopeIsOwn' /\ CommandIsOwn'
  BY <1>1, <1>3, <1>5, <1>6, <1>8 DEF ScopeIsOwn, CommandIsOwn, Running
<1>10. \A h \in Goroutine \ {g} : phase'[h] = phase[h] /\ first'[h] = first[h]
  BY <1>2 DEF CommandsTypeOK, IsFunction
<1>11. Settled'
  <2>1. CASE phase' = phase /\ first' = first
    BY <1>1, <2>1 DEF Settled
  <2>2. CASE /\ phase[g] = "libc"
             /\ phase' = [phase EXCEPT ![g] = "main"]
             /\ first' = [first EXCEPT ![g] = Sysroot]
    <3>1. phase'[g] = "main" /\ first'[g] = Sysroot /\ kind[g] = "default"
      BY <2>2 DEF CommandsTypeOK, IsFunction, Settled
    <3>2. QED
      BY <1>1, <1>10, <3>1 DEF Settled
  <2>3. QED
    BY <1>2, <2>1, <2>2
<1>12. CommandKeepsSettings' /\ OneSysroot'
  BY <1>1, <1>5, <1>6, <1>8, <1>10 DEF CommandKeepsSettings, OneSysroot, Middleware
<1>13. ToolchainFilesLive'
  <2>1. \A d \in dirs' : d \in dirs /\ d[1] \in Goroutine
    BY <1>2 DEF CommandsTypeOK
  <2>2. \A h \in Goroutine \ {g} : \A f : <<h, f>> \in dirs => <<h, f>> \in dirs'
    BY <1>2
  <2>3. QED
    BY <1>3, <1>5, <1>6, <2>1, <2>2 DEF ToolchainFilesLive
<1>14. QED
  BY <1>7, <1>9, <1>11, <1>12, <1>13

-----------------------------------------------------------------------------
(* A command that comes out of the rewriting. *)

Settling(g) ==
  IF kind[g] = "custom" /\ first[g] = NoRoot THEN commandSysroot(request[g]) ELSE first[g]

\* The middleware gives a command the sysroot that the build has settled on,
\* which may be this command's.
LEMMA RootIsSettled ==
  ASSUME Inv, NEW g \in Goroutine, Middleware(g)
  PROVE  /\ Settling(g) # NoRoot => Using(g) = "configured" /\ Root(g) = Settling(g)
         /\ Settles(g) => Root(g) = Settling(g)
         /\ kind[g] = "custom" /\ ~Settles(g) => target[g].configured = Settling(g)
         /\ Using(g) \in {"bootstrap", "configured"}
<1> USE DEF Inv, Settling, Settled, Middleware
<1>1. CASE kind[g] = "custom"
  <2>1. target[g].configured = first[g]
    BY <1>1
  <2>2. Using(g) = IF commandSysroot(request[g]) = NoRoot /\ first[g] = NoRoot
                   THEN "bootstrap" ELSE "configured"
    BY <1>1, <2>1 DEF Using, Chosen
  <2>3. Settles(g) <=> (Using(g) = "configured" /\ first[g] = NoRoot)
    BY <1>1, <2>1 DEF Settles
  <2>4. Using(g) = "configured" =>
          Root(g) = IF Settles(g) THEN commandSysroot(request[g]) ELSE first[g]
    BY <1>1, <2>1 DEF Root
  <2>5. QED
    BY <1>1, <2>1, <2>2, <2>3, <2>4
<1>2. CASE kind[g] = "default"
  <2>1. /\ Using(g) = IF phase[g] = "libc" THEN "bootstrap" ELSE "configured"
        /\ ~Settles(g)
    BY <1>2 DEF Using, Settles
  <2>2. Using(g) = "configured" => Root(g) = Sysroot
    BY <1>2, <2>1 DEF Root
  <2>3. QED
    BY <1>2, <2>1, <2>2 DEF CommandsTypeOK
<1>3. QED
  BY <1>1, <1>2 DEF CommandsTypeOK

LEMMA RewrittenKeeps ==
  ASSUME Inv, NEW g \in Goroutine, pc[g] = "rewrite"
  PROVE  \A v \in Var :
           \/ Rewritten(g).env[v] = Expected(meant[g])[v]
           \/ Middleware(g) /\ Filled(Expected(meant[g]), Rewritten(g).env, v)
<1>1. request[g].env = Expected(meant[g]) /\ IsFunction(meant[g], Var)
  BY DEF Inv, ScopeIsOwn, Running
<1>2. IsFunction(Expected(meant[g]), Var)
  BY <1>1, EnvAssumption DEF Expected, IsFunction
<1>3. CASE Middleware(g)
  <2>1. Rewritten(g) = Use(Root(g), request[g])
    BY <1>3 DEF Rewritten
  <2>2. QED
    BY <1>1, <1>2, <1>3, <2>1, UseKeeps
<1>4. CASE ~Middleware(g)
  BY <1>1, <1>4 DEF Rewritten
<1>5. QED
  BY <1>3, <1>4

\* Where nothing gives it an environment, a command has no slice and runs in
\* that of the process.
LEMMA PatchedCommand ==
  ASSUME Inv, NEW g \in Goroutine, Patched(g)
  PROVE  /\ cmd'[g].slice \in {Nil, <<g, "cmd">>}
         /\ cmd'[g].slice = Nil => ~Rewritten(g).alters
         /\ Contents(cmd[g].slice)' =
              IF cmd'[g].slice = Nil THEN Expected(meant[g]) ELSE Rewritten(g).env
<1>1. /\ pc[g] = "rewrite"
      /\ cmd' = [cmd EXCEPT ![g] =
           [searches |-> Searches(request[g]), runs |-> Rewritten(g).runs,
            slice |-> Slice(g, Rewritten(g)),
            file |-> IF Rewritten(g).file THEN Using(g) ELSE "none", meant |-> meant[g]]]
      /\ slices' = IF Slice(g, Rewritten(g)) = <<g, "cmd">>
                   THEN [slices EXCEPT ![<<g, "cmd">>] = Rewritten(g).env] ELSE slices
  BY DEF Patched
<1>2. cmd'[g].slice = Slice(g, Rewritten(g))
  BY <1>1 DEF Inv, CommandsTypeOK, IsFunction
<1>3. /\ Slice(g, Rewritten(g)) \in {Nil, <<g, "cmd">>}
      /\ Slice(g, Rewritten(g)) = Nil => ~Rewritten(g).alters /\ Inherits(g)
  BY EnvAssumption DEF Slice
<1>4. Slice(g, Rewritten(g)) = <<g, "cmd">> => slices'[<<g, "cmd">>] = Rewritten(g).env
  BY <1>1 DEF Inv, CommandsTypeOK, IsFunction, Slot
<1>5. Inherits(g) => Expected(meant[g]) = ProcessEnv
  BY <1>1, ClonedIsExpected DEF Running
<1>6. QED
  BY <1>2, <1>3, <1>4, <1>5, EnvAssumption DEF Contents

LEMMA PatchedInv == ASSUME Inv, NEW g \in Goroutine, Patched(g) PROVE Inv'
<1> DEFINE new == Rewritten(g)
           made == [searches |-> Searches(request[g]), runs |-> new.runs, slice |-> Slice(g, new),
                    file |-> IF new.file THEN Using(g) ELSE "none", meant |-> meant[g]]
<1> USE DEF Inv
<1>1. /\ pc[g] = "rewrite"
      /\ slices' = IF Slice(g, new) = <<g, "cmd">>
                   THEN [slices EXCEPT ![<<g, "cmd">>] = new.env] ELSE slices
      /\ cmd' = [cmd EXCEPT ![g] = made]
      /\ dirs' = IF new.file THEN dirs \cup {<<g, Using(g)>>} ELSE dirs
  BY DEF Patched
<1>2. /\ target' = IF Middleware(g) /\ Settles(g)
                   THEN [target EXCEPT ![g].configured = Root(g)] ELSE target
      /\ first' = IF kind[g] = "custom" /\ first[g] = NoRoot
                  THEN [first EXCEPT ![g] = commandSysroot(request[g])] ELSE first
      /\ request' = [request EXCEPT ![g] = Nil]
      /\ pc' = [pc EXCEPT ![g] = "hook"]
      /\ UNCHANGED <<failed, scope, meant, kind, phase>>
  BY DEF Patched, To
<1> HIDE DEF new
<1>3. /\ made.searches = Searches(request[g]) /\ made.runs = new.runs
      /\ made.file = IF new.file THEN Using(g) ELSE "none"
      /\ made.meant = meant[g]
  OBVIOUS
<1> HIDE DEF made
<1>4. cmd'[g] = made /\ \A h \in Goroutine \ {g} : cmd'[h] = cmd[h]
  BY <1>1 DEF CommandsTypeOK, IsFunction
<1>5. \A h \in Goroutine :
        /\ slices'[<<h, "scope">>] = slices[<<h, "scope">>]
        /\ h # g => slices'[<<h, "cmd">>] = slices[<<h, "cmd">>]
  BY <1>1 DEF CommandsTypeOK, IsFunction, Slot
<1>6. pc'[g] = "hook" /\ \A h \in Goroutine \ {g} : pc'[h] = pc[h]
  BY <1>2 DEF CommandsTypeOK
<1>7. first'[g] = Settling(g) /\ \A h \in Goroutine \ {g} : first'[h] = first[h]
  BY <1>2 DEF CommandsTypeOK, IsFunction, Settling
<1>8. \A h \in Goroutine \ {g} : target'[h] = target[h]
  BY <1>2 DEF CommandsTypeOK, IsFunction
<1>9. new.file => Middleware(g) /\ Using(g) \in {"bootstrap", "configured"}
  BY RootIsSettled DEF Rewritten, new
<1>10. CommandsTypeOK'
  <2>1. IsFunction(slices', Slot) /\ IsFunction(cmd', Goroutine) /\ IsFunction(first', Goroutine)
    BY <1>1, <1>2 DEF CommandsTypeOK, IsFunction
  <2>2. dirs' \subseteq Goroutine \X {"bootstrap", "configured"}
    BY <1>1, <1>9 DEF CommandsTypeOK
  <2>3. /\ IsFunction(target', Goroutine)
        /\ \A h \in Goroutine : target'[h] = [configured |-> target'[h].configured]
    BY <1>2 DEF CommandsTypeOK, IsFunction
  <2>4. pc' \in [Goroutine -> {"build", "hook", "rewrite", "leaving", "over"}]
    BY <1>2 DEF CommandsTypeOK
  <2>5. IsFunction(request', Goroutine)
    BY <1>2 DEF CommandsTypeOK, IsFunction
  <2>6. QED
    BY <1>2, <2>1, <2>2, <2>3, <2>4, <2>5 DEF CommandsTypeOK
<1>11. \A h \in Goroutine : Contents(scope[h])' = Contents(scope[h])
  BY <1>2, <1>5 DEF ScopeIsOwn, Contents
<1>12. ScopeIsOwn'
  <2>1. \A h \in Goroutine \ {g} : request'[h] = request[h]
    BY <1>2 DEF CommandsTypeOK, IsFunction
  <2>2. QED
    BY <1>1, <1>2, <1>6, <1>11, <2>1 DEF ScopeIsOwn, Running
<1>13. CommandIsOwn'
  BY <1>4, <1>6, PatchedCommand DEF CommandIsOwn, Running
<1>14. Settled'
  <2>1. kind[g] = "custom" => target'[g].configured = Settling(g)
    BY <1>2, RootIsSettled DEF CommandsTypeOK, IsFunction, Middleware
  <2>2. kind[g] = "default" => first'[g] = first[g]
    BY <1>7 DEF Settling
  <2>3. QED
    BY <1>2, <1>7, <1>8, <2>1, <2>2 DEF Settled
<1>15. \A h \in Goroutine \ {g} :
         cmd[h] # Nil => Contents(cmd[h].slice)' = Contents(cmd[h].slice)
  <2> SUFFICES ASSUME NEW h \in Goroutine \ {g}, cmd[h] # Nil
               PROVE  Contents(cmd[h].slice)' = Contents(cmd[h].slice)
    OBVIOUS
  <2>1. cmd[h].slice \in {Nil, <<h, "cmd">>}
    BY DEF CommandIsOwn
  <2>2. QED
    BY <1>4, <1>5, <2>1 DEF Contents
<1>16. CommandKeepsSettings'
  <2>1. \A v \in Var :
          \/ Contents(cmd[g].slice)'[v] = Expected(made.meant)[v]
          \/ Middleware(g) /\ Filled(Expected(made.meant), Contents(cmd[g].slice)', v)
    BY <1>1, <1>3, RewrittenKeeps, PatchedCommand DEF new
  <2>2. QED
    BY <1>2, <1>4, <1>15, <2>1 DEF CommandKeepsSettings, Filled, Middleware
<1>17. OneSysroot'
  <2>1. ASSUME Middleware(g), Settling(g) # NoRoot
        PROVE  /\ made.runs[1] \in Tools => made.runs[2] = Settling(g)
               /\ made.searches => Contents(cmd[g].slice)'["PKG_CONFIG_LIBDIR"] # Unset
               /\ made.file # "bootstrap"
    <3>1. Using(g) = "configured" /\ new = Use(Settling(g), request[g])
      BY <2>1, RootIsSettled DEF Rewritten, new
    <3>2. IsFunction(request[g].env, Var) /\ request[g].name \notin Tools
      BY <1>1, EnvAssumption DEF ScopeIsOwn, Running, Expected, IsFunction
    <3>3. /\ new.runs[1] \in Tools => new.runs[2] = Settling(g)
          /\ Searches(request[g]) => new.alters /\ new.env["PKG_CONFIG_LIBDIR"] # Unset
      BY <2>1, <3>1, <3>2, UseForSysroot
    <3>4. QED
      BY <1>3, <1>4, <3>1, <3>3, PatchedCommand DEF new
  <2>2. Middleware(g)' = Middleware(g) /\ \A h \in Goroutine : Middleware(h)' = Middleware(h)
    BY <1>2 DEF Middleware
  <2>3. QED
    BY <1>4, <1>7, <1>15, <2>1, <2>2 DEF OneSysroot
<1>18. ToolchainFilesLive'
  <2>1. made.file # "none" => <<g, made.file>> \in dirs'
    BY <1>1, <1>3
  <2>2. \A d \in dirs' : d \in dirs \/ d[1] = g
    BY <1>1
  <2>3. dirs \subseteq dirs' /\ \A d \in dirs : d[1] \in Goroutine
    BY <1>1 DEF CommandsTypeOK
  <2>4. QED
    BY <1>4, <1>6, <2>1, <2>2, <2>3 DEF ToolchainFilesLive
<1>19. QED
  BY <1>10, <1>12, <1>13, <1>14, <1>16, <1>17, <1>18

LEMMA CommandsStutterInv == Inv /\ UNCHANGED vars => Inv'
BY DEF vars, slicing, building, Inv, CommandsTypeOK, ScopeIsOwn, CommandIsOwn, Settled,
       CommandKeepsSettings, OneSysroot, ToolchainFilesLive, Running, Contents, Middleware

-----------------------------------------------------------------------------
(* The theorems.                                                            *)

\* In every state of every run the invariant holds: environments are not
\* shared, a build has one sysroot, and toolchain files are where commands
\* look for them.
THEOREM CommandsInvariance == Spec => []Inv
<1>1. Inv /\ [Next]_vars => Inv'
  <2> SUFFICES ASSUME Inv, Next PROVE Inv'
    BY CommandsStutterInv
  <2>1. PICK g \in Goroutine :
          \/ Do(g) \/ Setenv(g) \/ Unsetenv(g) \/ Clearenv(g) \/ HookReturns(g) \/ DoEnds(g)
          \/ Rewrite(g) \/ Patched(g) \/ UsePanics(g) \/ Runs(g)
    BY DEF Next
  <2>2. CASE Setenv(g) \/ Unsetenv(g) \/ Clearenv(g)
    BY <2>2, SettingSets, SetsInv
  <2>3. CASE Do(g) \/ HookReturns(g) \/ DoEnds(g)
    BY <2>3, DoInv, HookReturnsInv, DoEndsInv
  <2>4. CASE Rewrite(g) \/ Patched(g) \/ UsePanics(g) \/ Runs(g)
    BY <2>4, RewriteInv, PatchedInv, UsePanicsInv, RunsInv
  <2>5. QED
    BY <2>1, <2>2, <2>3, <2>4
<1>2. QED
  BY CommandsInitInv, <1>1, PTL DEF Spec

\* However many hooks run and whatever they set meanwhile, a command keeps the
\* environment that its hook meant for it, to the variable, but for what its
\* target adds - and but for one that is empty, in the place of which rewrite
\* and apply give it the process's (execbroker.go:250-303 and Target.Use).
THEOREM CommandsKeepSettings == Spec => []CommandKeepsSettings
<1>1. Inv => CommandKeepsSettings
  BY DEF Inv
<1>2. QED
  BY CommandsInvariance, <1>1, PTL

\* Once a build has a sysroot, no command of it is made for another one or
\* for the host (customTarget.Use and the default target).
THEOREM BuildsHaveOneSysroot == Spec => []OneSysroot
<1>1. Inv => OneSysroot
  BY DEF Inv
<1>2. QED
  BY CommandsInvariance, <1>1, PTL

\* A toolchain file is there for as long as a command names it, and is gone
\* when its build is over (Target.Close).
THEOREM FilesLive == Spec => []ToolchainFilesLive
<1>1. Inv => ToolchainFilesLive
  BY DEF Inv
<1>2. QED
  BY CommandsInvariance, <1>1, PTL
=============================================================================
