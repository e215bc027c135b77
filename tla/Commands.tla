------------------------------ MODULE Commands ------------------------------
(***************************************************************************)
(* The commands of formula hooks and the environment they run in           *)
(* (src/internal/execbroker/execbroker.go): a scope for each goroutine     *)
(* that runs a hook, and under it the target of its build as a middleware  *)
(* (src/internal/build/target.go).  The builds of one llard run at the     *)
(* same time, each in a goroutine of its own.                              *)
(*                                                                         *)
(* Environments are slices: two holders of one slice would see each        *)
(* other's changes, so who has which is part of the state; nil is a slice  *)
(* of its own, for the environment of the process.  Only rewrite           *)
(* holds scopeMu longer than a step, for reading, while Use runs; Use      *)
(* never calls the broker.  The restoring of the process environment when  *)
(* a Build is over is in GraphBuild.                                       *)
(***************************************************************************)
EXTENDS CTarget, FiniteSets

CONSTANTS
  Goroutine,
  Nil,          \* no slice, no command
  Plan,         \* the builds that run together: native, default or custom
  Offered,      \* Offered[g]: the commands hooks make, without their environment
  Settings,     \* Settings[g]: the variables and values that hooks set
  ProcessEnv,
  Sysroot,      \* where the default libc formula puts its sysroot
  MaxSteps      \* bound: MaxSteps[g]: the broker calls and further modules of
                \* the build of g

ASSUME PlanAssumption == Plan \subseteq [Goroutine -> {"native", "default", "custom"}]

\* Hooks call a tool by its name, not by the one that stands for the target's.
ASSUME OfferedAssumption == \A g \in Goroutine : \A c \in Offered[g] : c.name \notin Tools

ASSUME EnvAssumption ==
  /\ ProcessEnv = [v \in Var |-> ProcessEnv[v]]
  /\ Nil \notin Goroutine \X {"scope", "cmd"}

VARIABLES
  kind,      \* kind[g]: the build that g runs
  pc,        \* pc[g]
  steps,     \* steps[g]: what counts towards the bound
  failed,    \* failed[g]: whether the hook has failed
  phase,     \* phase[g]: "libc", the default sysroot's build, or "main"
  reading,   \* the goroutines that hold scopeMu for reading
  slices,    \* slices[id]: the contents of an environment slice
  scope,     \* scope[g]: the slice of g's scope, or Nil
  request,   \* request[g]: the command that is being rewritten
  cmd,       \* cmd[g]: the exec.Cmd that the hook holds
  target,    \* target[g]: the sysroot that customTarget has settled on
  dirs,      \* the temporary directories of toolchain files
  meant,     \* history: meant[g]: the environment as the hook has set it
  first      \* history: first[g]: the first sysroot in the commands of a build

slicing == <<slices, scope, cmd, meant>>
building == <<kind, phase, target, dirs, first>>
vars == <<pc, steps, failed, reading, request, slicing, building>>

Unaware == [v \in Var |-> Unset]

Init ==
  /\ kind \in Plan
  /\ pc = [g \in Goroutine |-> "build"]
  /\ steps = [g \in Goroutine |-> 0]
  /\ failed = [g \in Goroutine |-> FALSE]
  /\ phase = [g \in Goroutine |-> IF kind[g] = "default" THEN "libc" ELSE "main"]
  /\ reading = {}
  /\ slices = [id \in Goroutine \X {"scope", "cmd"} |-> Unaware]
  /\ scope = [g \in Goroutine |-> Nil]
  /\ request = [g \in Goroutine |-> Nil]
  /\ cmd = [g \in Goroutine |-> Nil]
  /\ target = [g \in Goroutine |-> [configured |-> NoRoot]]
  /\ dirs = {}
  /\ meant = [g \in Goroutine |-> Unaware]
  /\ first = [g \in Goroutine |-> NoRoot]

To(g, l) == pc' = [pc EXCEPT ![g] = l]
Contents(slice) == IF slice = Nil THEN ProcessEnv ELSE slices[slice]

\* scopeMu.Lock.
Exclusive == reading = {}

\* A call of the broker by the hook of g.
Calls(g) ==
  /\ pc[g] = "hook" /\ steps[g] < MaxSteps[g]
  /\ steps' = [steps EXCEPT ![g] = @ + 1]

-----------------------------------------------------------------------------
(* Do, and the hook that it runs.                                           *)

Do(g) ==
  /\ pc[g] = "build" /\ Exclusive
  /\ scope' = [scope EXCEPT ![g] = Nil]
  /\ meant' = [meant EXCEPT ![g] = ProcessEnv]
  /\ To(g, "hook")
  /\ UNCHANGED <<steps, failed, reading, request, slices, cmd, building>>

\* Setenv, Unsetenv and Clearenv: the first change copies the process
\* environment, later ones are made in place.
Changes(g, change(_)) ==
  /\ Calls(g) /\ Exclusive
  /\ scope' = [scope EXCEPT ![g] = <<g, "scope">>]
  /\ LET slice == IF scope[g] = Nil THEN <<g, "scope">> ELSE scope[g]
     IN slices' = [slices EXCEPT ![slice] = change(Contents(scope[g]))]
  /\ meant' = [meant EXCEPT ![g] = change(@)]
  /\ UNCHANGED <<pc, failed, reading, request, cmd, building>>

Setenv(g) ==
  \E s \in Settings[g] : LET change(env) == [env EXCEPT ![s[1]] = s[2]] IN Changes(g, change)

Unsetenv(g) ==
  \E s \in Settings[g] : LET change(env) == [env EXCEPT ![s[1]] = Unset] IN Changes(g, change)

\* The slice that is left is empty, not nil.
Clearenv(g) == LET change(env) == Unaware IN Changes(g, change)

\* The hook returns, panics or reports errors; then Do takes its scope back.
HookReturns(g) ==
  /\ pc[g] = "hook"
  /\ To(g, "leaving")
  /\ UNCHANGED <<steps, failed, reading, request, slicing, building>>

\* Variant: the target's temporary directories are left.
Close_Bootstrap(g) == dirs' = dirs \ {<<g, "bootstrap">>}

Close(g) == dirs' = {d \in dirs : d[1] # g}

\* The build of the default libc is followed by the build that needs it: the
\* target it had is closed, another one made for the sysroot.
SysrootBuilt(g) ==
  /\ phase[g] = "libc" /\ ~failed[g]
  /\ Close(g)
  /\ phase' = [phase EXCEPT ![g] = "main"]
  /\ first' = [first EXCEPT ![g] = Sysroot]
  /\ To(g, "build")
  /\ steps' = steps

\* Another module of the same build.
NextModule(g) ==
  /\ ~failed[g] /\ steps[g] < MaxSteps[g]
  /\ steps' = [steps EXCEPT ![g] = @ + 1]
  /\ To(g, "build")
  /\ UNCHANGED <<phase, dirs, first>>

BuildOver(g) ==
  /\ phase[g] = "main" \/ failed[g]
  /\ Close(g)
  /\ To(g, "over")
  /\ UNCHANGED <<steps, phase, first>>

DoEnds(g) ==
  /\ pc[g] = "leaving" /\ Exclusive
  /\ scope' = [scope EXCEPT ![g] = Nil]
  /\ cmd' = [cmd EXCEPT ![g] = Nil]
  /\ meant' = [meant EXCEPT ![g] = Unaware]
  /\ SysrootBuilt(g) \/ NextModule(g) \/ BuildOver(g)
  /\ slices' = [slices EXCEPT ![<<g, "scope">>] = Unaware, ![<<g, "cmd">>] = Unaware]
  /\ UNCHANGED <<failed, reading, request, kind, target>>

-----------------------------------------------------------------------------
(* Command, CommandContext and Run: rewrite, then apply.                    *)

\* The clone of the scope's slice is nil: nothing has been set, or nothing is
\* left of what was.
Inherits(g) == scope[g] = Nil \/ slices[scope[g]] = Unaware

\* The environment that a command starts from.  A target is given that of the
\* process where the clone is nil, and so is a command without a target.
Cloned(g) == IF Inherits(g) THEN ProcessEnv ELSE slices[scope[g]]

Rewrite(g) ==
  /\ Calls(g)
  /\ \E c \in Offered[g] :
       request' = [request EXCEPT ![g] =
         [name |-> c.name, options |-> c.options, root |-> c.root,
          env |-> Cloned(g)]]
  /\ reading' = reading \cup {g}
  /\ To(g, "rewrite")
  /\ UNCHANGED <<failed, slicing, building>>

Middleware(g) == kind[g] # "native"

\* The target in use: bootstrap, or the one that is configured for a sysroot.
Using(g) ==
  CASE kind[g] = "custom" -> Chosen(target[g], request[g])
    [] phase[g] = "libc" -> "bootstrap"
    [] OTHER -> "configured"

Settles(g) == kind[g] = "custom" /\ Using(g) = "configured" /\ target[g].configured = NoRoot

Root(g) ==
  CASE Using(g) = "bootstrap" -> NoRoot
    [] kind[g] = "default" -> Sysroot
    [] Settles(g) -> commandSysroot(request[g])
    [] OTHER -> target[g].configured

Rewritten(g) ==
  IF Middleware(g) THEN Use(Root(g), request[g])
  ELSE [runs |-> <<request[g].name, NoRoot>>, file |-> FALSE, alters |-> FALSE,
        env |-> request[g].env]

\* Variant: the command gets the scope's own slice.
Slice_Shared(g, new) == IF new.alters THEN <<g, "cmd">> ELSE scope[g]

\* The slice of the command: the target's, a copy of the scope's, or nil.
Slice(g, new) == IF new.alters \/ ~Inherits(g) THEN <<g, "cmd">> ELSE Nil

\* Variant: the lock is kept where there is no middleware.
Unlock_WithMiddleware(g) == reading' = IF Middleware(g) THEN reading \ {g} ELSE reading

Unlock(g) == reading' = reading \ {g}

Patched(g) ==
  /\ pc[g] = "rewrite"
  /\ LET new == Rewritten(g) IN
       /\ slices' = IF Slice(g, new) = <<g, "cmd">>
                    THEN [slices EXCEPT ![<<g, "cmd">>] = new.env] ELSE slices
       /\ cmd' = [cmd EXCEPT ![g] =
            [searches |-> Searches(request[g]), runs |-> new.runs, slice |-> Slice(g, new),
             file |-> IF new.file THEN Using(g) ELSE "none", meant |-> meant[g]]]
       /\ dirs' = IF new.file THEN dirs \cup {<<g, Using(g)>>} ELSE dirs
  /\ target' = IF Middleware(g) /\ Settles(g)
               THEN [target EXCEPT ![g].configured = Root(g)] ELSE target
  /\ first' = IF kind[g] = "custom" /\ first[g] = NoRoot
              THEN [first EXCEPT ![g] = commandSysroot(request[g])] ELSE first
  /\ request' = [request EXCEPT ![g] = Nil]
  /\ Unlock(g)
  /\ To(g, "hook")
  /\ UNCHANGED <<steps, failed, scope, meant, kind, phase>>

\* Use panics: flags that a custom target cannot parse or no toolchain for the
\* sysroot in them, no directory for the toolchain file, no configure script.
\* Nothing unlocks scopeMu on the way out.
UsePanics(g) ==
  /\ pc[g] = "rewrite" /\ Middleware(g)
  /\ \/ kind[g] = "custom"
     \/ NeedsFile(request[g]) /\ <<g, Using(g)>> \notin dirs
     \/ MayPanic(request[g])
  /\ failed' = [failed EXCEPT ![g] = TRUE]
  /\ request' = [request EXCEPT ![g] = Nil]
  /\ To(g, "leaving")
  /\ UNCHANGED <<steps, reading, slicing, building>>

\* The command runs; when it fails, the hook does.
Runs(g) ==
  /\ pc[g] = "hook" /\ cmd[g] # Nil
  /\ cmd' = [cmd EXCEPT ![g] = Nil]
  /\ slices' = [slices EXCEPT ![<<g, "cmd">>] = Unaware]
  /\ \/ pc' = pc /\ failed' = failed
     \/ To(g, "leaving") /\ failed' = [failed EXCEPT ![g] = TRUE]
  /\ UNCHANGED <<steps, reading, request, scope, meant, building>>

-----------------------------------------------------------------------------
Next ==
  \E g \in Goroutine :
    \/ Do(g) \/ Setenv(g) \/ Unsetenv(g) \/ Clearenv(g) \/ HookReturns(g) \/ DoEnds(g)
    \/ Rewrite(g) \/ Patched(g) \/ UsePanics(g) \/ Runs(g)

\* Goroutines run on; hooks make a bounded number of calls.
Spec == Init /\ [][Next]_vars /\ WF_vars(Next)

-----------------------------------------------------------------------------
\* The environment a command should have when its hook meant env.  Where the
\* hook has cleared everything it is the process's, not the empty one that
\* execbroker.go:152 promises ("Clearenv removes all variables from the active
\* command scope").
Expected(env) == IF env = Unaware THEN ProcessEnv ELSE env

\* A command has the environment that its own hook had set up when it was
\* made, variable by variable and those it had removed included: no other
\* goroutine's, no later one.  Only what is missing may have been added by the
\* target, for its tools and for pkg-config ("Explicit Formula settings are
\* preserved", target.go:107).
CommandKeepsSettings ==
  \A g \in Goroutine : cmd[g] # Nil =>
    \A v \in Var :
      \/ Contents(cmd[g].slice)[v] = Expected(cmd[g].meant)[v]
      \/ /\ Middleware(g) /\ v \in Tools \cup {"PKG_CONFIG_LIBDIR"}
         /\ Expected(cmd[g].meant)[v] = Unset

\* From the first sysroot on, every command of a build is for that sysroot:
\* tools are run with it, and what searches for libraries does not search
\* the host's.
OneSysroot ==
  \A g \in Goroutine : cmd[g] # Nil /\ Middleware(g) /\ first[g] # NoRoot =>
    /\ cmd[g].runs[1] \in Tools => cmd[g].runs[2] = first[g]
    /\ cmd[g].searches => Contents(cmd[g].slice)["PKG_CONFIG_LIBDIR"] # Unset
    /\ cmd[g].file # "bootstrap"

\* A command that names a toolchain file finds it, and no build leaves one
\* behind.
ToolchainFilesLive ==
  /\ \A g \in Goroutine : cmd[g] # Nil /\ cmd[g].file # "none" => <<g, cmd[g].file>> \in dirs
  /\ \A d \in dirs : pc[d[1]] # "over"

\* Hooks end, with success or with an error - unless a middleware panics:
\* the panic is recovered as the hook's error, but scopeMu stays locked and
\* neither this hook nor any other of the process ever gets past Do.
Stuck == \E g \in reading : Middleware(g) /\ failed[g] /\ pc[g] = "leaving"
HooksReturn == \A g \in Goroutine : <>(pc[g] = "over" \/ Stuck)

=============================================================================
