----------------------------- MODULE GraphBuild -----------------------------
(***************************************************************************)
(* Concurrent calls of Builder.Build (src/internal/build/build.go) with    *)
(* the local build cache (src/internal/build/cache.go): goroutines of one  *)
(* process and separate processes that share a workspace directory and a   *)
(* formula store.                                                          *)
(*                                                                         *)
(* A Build locks every module path of its build list in sorted order,      *)
(* saves the environment of its process, then handles the modules in build *)
(* order: look in the cache; on a hit reuse the entry, on a miss run       *)
(* OnBuild into the install directory and rewrite .cache.json.  It ends by *)
(* restoring the environment and releasing the locks.                      *)
(***************************************************************************)
EXTENDS Naturals, Sequences, FiniteSetsExt

CONSTANTS
  Build,       \* the calls of Builder.Build
  Process,     \* the processes they run in
  PathCount,   \* the number of module paths
  Variant,     \* the "version-matrix" keys of cache entries
  None,        \* the holder of a free lock
  BuildList,   \* BuildList[b]: what constructBuildList returns, as paths
  Deps,        \* Deps[b][p]: what resolveModTransitiveDeps returns for p
  VariantOf,   \* VariantOf[b][p]: the version of p selected in b, and the matrix
  ProcessOf,   \* ProcessOf[b]: the process that makes the call
  Testing,     \* the calls with RunTest whose root module has an OnTest
  Leaky,       \* the calls with a hook that may start a goroutine which calls
               \* the broker's Setenv or Unsetenv
  Settings     \* the variables and values that such goroutines set

\* The module paths, numbered in the order of sort.Strings.
Path == 1..PathCount

\* The paths of the build list of b: one lock file each.
Graph == [b \in Build |-> Range(BuildList[b])]

ASSUME PathAssumption == PathCount \in Nat

ASSUME BuildAssumption ==
  /\ None \notin Build
  /\ BuildList \in [Build -> Seq(Path)]
  /\ VariantOf \in [Build -> [Path -> Variant]]
  /\ ProcessOf \in [Build -> Process]
  /\ Testing \subseteq Build
  /\ Leaky \subseteq Build

\* "own" stands for the variables that a process is started with, "other" for
\* those that only a formula sets.
Variable == {"own", "other"}

ASSUME SettingsAssumption == Settings \subseteq Variable \X {"unset", "altered"}

\* constructBuildList visits a path once, so no path is listed twice.
ASSUME DistinctAssumption ==
  \A b \in Build : \A i, j \in 1..Len(BuildList[b]) :
    BuildList[b][i] = BuildList[b][j] => i = j

\* On an acyclic graph its post-order puts dependencies first.
ASSUME OrderAssumption ==
  \A b \in Build : \A i \in 1..Len(BuildList[b]) :
    Deps[b][BuildList[b][i]] \subseteq {BuildList[b][j] : j \in 1..(i-1)}

VARIABLES
  pc,        \* pc[b]: the step of Build that b is at
  pos,       \* pos[b]: how many modules of its build list b has handled
  lookup,    \* lookup[b]: what cache.Get said of the module b is at
  loaded,    \* loaded[b]: the entries b read from .cache.json in Put
  outcome,   \* outcome[b]: "none" while b has not failed nor succeeded
  holder,    \* holder[p]: the build that holds the lock file of p, or None
  entries,   \* entries[p]: the keys in .cache.json of p ({} if unreadable)
  tree,      \* tree[p][v]: the install directory of p for v
  env,       \* env[r]: the environment of process r
  saved,     \* saved[b]: the environment that b saved and has not yet restored
  strays,    \* the builds that have a goroutine of one of their hooks running
  escaped    \* history: the processes in which a stray has set a variable while
             \* no build was between saving and restoring the environment

buildVars == <<pc, pos, lookup, loaded, outcome>>
diskVars == <<entries, tree>>
strayVars == <<strays, escaped>>
envVars == <<env, saved, strayVars>>
vars == <<buildVars, holder, diskVars, envVars>>

-----------------------------------------------------------------------------
(* State. *)

\* Where b is between the last lock taken and the first lock released.
Working ==
  {"saveEnv", "get", "prepare", "onBuild", "onTest", "putLoad",
   "putTruncate", "putWrite", "clearEnv", "setEnv"}

Over == {"done", "crashed"}

\* "partial": an OnBuild is writing the directory, or failed half-way;
\* "built": the last OnBuild that wrote there returned without an error.
TreeState == {"absent", "partial", "built"}

EnvState == [Variable -> {"unset", "original", "altered"}]
Original == [v \in Variable |-> IF v = "own" THEN "original" ELSE "unset"]
Empty == [v \in Variable |-> "unset"]

Held(b) == {p \in Path : holder[p] = b}

\* Variant: only the root is locked, its dependencies are left to others.
ToLock_RootOnly(b) == {BuildList[b][Len(BuildList[b])]} \ Held(b)

\* The paths b has still to lock.
ToLock(b) == Graph[b] \ Held(b)

\* The module b is at and the key of its artifact.
Current(b) == BuildList[b][pos[b] + 1]
Key(b) == VariantOf[b][Current(b)]

\* runTest applies to the root only, and the root comes last.
TestThis(b) == b \in Testing /\ pos[b] + 1 = Len(BuildList[b])

TypeOK ==
  /\ pc \in [Build -> Working \cup Over \cup {"lock", "unlock"}]
  /\ pos \in [Build -> Nat]
  /\ \A b \in Build : pos[b] <= Len(BuildList[b])
  /\ lookup \in [Build -> {"hit", "miss"}]
  /\ loaded \in [Build -> SUBSET Variant]
  /\ outcome \in [Build -> {"none", "ok", "err"}]
  /\ holder \in [Path -> Build \cup {None}]
  /\ entries \in [Path -> SUBSET Variant]
  /\ tree \in [Path -> [Variant -> TreeState]]
  /\ env \in [Process -> EnvState]
  /\ saved \in [Build -> EnvState]
  /\ strays \subseteq Build
  /\ escaped \subseteq Process

Init ==
  /\ pc = [b \in Build |-> "lock"]
  /\ pos = [b \in Build |-> 0]
  /\ lookup = [b \in Build |-> "miss"]
  /\ loaded = [b \in Build |-> {}]
  /\ outcome = [b \in Build |-> "none"]
  /\ holder = [p \in Path |-> None]
  /\ entries = [p \in Path |-> {}]
  /\ tree = [p \in Path |-> [v \in Variant |-> "absent"]]
  /\ env = [r \in Process |-> Original]
  /\ saved = [b \in Build |-> Empty]
  /\ strays = {}
  /\ escaped = {}

-----------------------------------------------------------------------------
(* The locks: sorted order in, reverse order out. *)

Goto(b, step) == pc' = [pc EXCEPT ![b] = step]

\* Variant: the locks are taken in build order, unsorted.
AcquireLock_BuildOrder(b) ==
  LET next == BuildList[b][Cardinality(Held(b)) + 1] IN
  /\ pc[b] = "lock"
  /\ ToLock(b) # {}
  /\ holder[next] = None
  /\ holder' = [holder EXCEPT ![next] = b]
  /\ UNCHANGED <<buildVars, diskVars, envVars>>

\* Variant: the lock is not exclusive, the last one to ask has it.
AcquireLock_Shared(b) ==
  /\ pc[b] = "lock"
  /\ ToLock(b) # {}
  /\ holder' = [holder EXCEPT ![Min(ToLock(b))] = b]
  /\ UNCHANGED <<buildVars, diskVars, envVars>>

\* LockModule on the next path of the sorted list, once it is free.
AcquireLock(b) ==
  /\ pc[b] = "lock"
  /\ ToLock(b) # {}
  /\ holder[Min(ToLock(b))] = None
  /\ holder' = [holder EXCEPT ![Min(ToLock(b))] = b]
  /\ UNCHANGED <<buildVars, diskVars, envVars>>

\* LockModule fails (the lock file cannot be opened): release and return.
LockFails(b) ==
  /\ pc[b] = "lock"
  /\ ToLock(b) # {}
  /\ Goto(b, "unlock")
  /\ outcome' = [outcome EXCEPT ![b] = "err"]
  /\ UNCHANGED <<pos, lookup, loaded, holder, diskVars, envVars>>

AllLocked(b) ==
  /\ pc[b] = "lock"
  /\ ToLock(b) = {}
  /\ Goto(b, "saveEnv")
  /\ UNCHANGED <<pos, lookup, loaded, outcome, holder, diskVars, envVars>>

\* The unlock functions run last to first; the sorted order makes that
\* the greatest path still held.
ReleaseLock(b) ==
  /\ pc[b] = "unlock"
  /\ Held(b) # {}
  /\ holder' = [holder EXCEPT ![Max(Held(b))] = None]
  /\ UNCHANGED <<buildVars, diskVars, envVars>>

Return(b) ==
  /\ pc[b] = "unlock"
  /\ Held(b) = {}
  /\ Goto(b, "done")
  /\ UNCHANGED <<pos, lookup, loaded, outcome, holder, diskVars, envVars>>

-----------------------------------------------------------------------------
(* The environment of the process: os.Environ before the loop, and the     *)
(* deferred os.Clearenv and os.Setenv loop, which run before the unlocks.  *)

SaveEnv(b) ==
  /\ pc[b] = "saveEnv"
  /\ saved' = [saved EXCEPT ![b] = env[ProcessOf[b]]]
  /\ Goto(b, "get")
  /\ UNCHANGED <<pos, lookup, loaded, outcome, holder, diskVars, env, strayVars>>

ClearEnv(b) ==
  /\ pc[b] = "clearEnv"
  /\ env' = [env EXCEPT ![ProcessOf[b]] = Empty]
  /\ Goto(b, "setEnv")
  /\ UNCHANGED <<pos, lookup, loaded, outcome, holder, diskVars, saved, strayVars>>

\* The loop, in one step: a variable that was not saved stays as it is.
RestoreEnv(b) ==
  /\ pc[b] = "setEnv"
  /\ env' = [env EXCEPT ![ProcessOf[b]] =
        [v \in Variable |-> IF saved[b][v] = "unset" THEN @[v] ELSE saved[b][v]]]
  /\ saved' = [saved EXCEPT ![b] = Empty]
  /\ Goto(b, "unlock")
  /\ UNCHANGED <<pos, lookup, loaded, outcome, holder, diskVars, strayVars>>

-----------------------------------------------------------------------------
(* One module after the other. *)

\* The loop of Build over the build list is at its end.
AllBuilt(b) ==
  /\ pc[b] = "get"
  /\ pos[b] = Len(BuildList[b])
  /\ outcome' = [outcome EXCEPT ![b] = "ok"]
  /\ Goto(b, "clearEnv")
  /\ UNCHANGED <<pos, lookup, loaded, holder, diskVars, envVars>>

\* localCache.Get of the module b is at.
Found(b) == Key(b) \in entries[Current(b)]

\* cache.Get; a hit with no OnTest to run skips the checkout and the hooks.
CacheGet(b) ==
  /\ pc[b] = "get"
  /\ pos[b] < Len(BuildList[b])
  /\ lookup' = [lookup EXCEPT ![b] = IF Found(b) THEN "hit" ELSE "miss"]
  /\ \/ /\ Found(b) /\ ~TestThis(b)
        /\ pos' = [pos EXCEPT ![b] = @ + 1]
        /\ UNCHANGED pc
     \/ /\ ~Found(b) \/ TestThis(b)
        /\ Goto(b, "prepare")
        /\ UNCHANGED pos
  /\ UNCHANGED <<loaded, outcome, holder, diskVars, envVars>>

\* The source checkout and MkdirAll on the install directory; on a miss
\* OnBuild starts to write there.
Prepare(b) ==
  /\ pc[b] = "prepare"
  /\ \/ /\ lookup[b] = "hit"
        /\ Goto(b, "onTest")
        /\ tree' = [tree EXCEPT ![Current(b)][Key(b)] =
                      IF @ = "absent" THEN "partial" ELSE @]
     \/ /\ lookup[b] = "miss"
        /\ Goto(b, "onBuild")
        /\ tree' = [tree EXCEPT ![Current(b)][Key(b)] = "partial"]
  /\ UNCHANGED <<pos, lookup, loaded, outcome, holder, entries, envVars>>

\* OnBuild returns without an error.
OnBuild(b) ==
  /\ pc[b] = "onBuild"
  /\ tree' = [tree EXCEPT ![Current(b)][Key(b)] = "built"]
  /\ Goto(b, IF TestThis(b) THEN "onTest" ELSE "putLoad")
  /\ UNCHANGED <<pos, lookup, loaded, outcome, holder, entries, envVars>>

\* OnTest passes: only a module that was just built is put in the cache.
OnTest(b) ==
  /\ pc[b] = "onTest"
  /\ \/ lookup[b] = "hit" /\ Goto(b, "get") /\ pos' = [pos EXCEPT ![b] = @ + 1]
     \/ lookup[b] = "miss" /\ Goto(b, "putLoad") /\ UNCHANGED pos
  /\ UNCHANGED <<lookup, loaded, outcome, holder, diskVars, envVars>>

\* localCache.Put reads .cache.json; a file it cannot read counts as empty.
PutLoad(b) ==
  /\ pc[b] = "putLoad"
  /\ loaded' = [loaded EXCEPT ![b] = entries[Current(b)]]
  /\ Goto(b, "putTruncate")
  /\ UNCHANGED <<pos, lookup, outcome, holder, diskVars, envVars>>

\* os.WriteFile truncates the file before it writes.
PutTruncate(b) ==
  /\ pc[b] = "putTruncate"
  /\ entries' = [entries EXCEPT ![Current(b)] = {}]
  /\ Goto(b, "putWrite")
  /\ UNCHANGED <<pos, lookup, loaded, outcome, holder, tree, envVars>>

PutWrite(b) ==
  /\ pc[b] = "putWrite"
  /\ entries' = [entries EXCEPT ![Current(b)] = loaded[b] \cup {Key(b)}]
  /\ Goto(b, "get")
  /\ pos' = [pos EXCEPT ![b] = @ + 1]
  /\ UNCHANGED <<lookup, loaded, outcome, holder, tree, envVars>>

\* Variant: the Errs of OnBuild are not looked at, the build goes on to Put.
Fails_ErrsIgnored(b) ==
  /\ pc[b] = "onBuild"
  /\ Goto(b, "putLoad")
  /\ UNCHANGED <<pos, lookup, loaded, outcome, holder, diskVars, envVars>>

\* Variant: the loop goes on with the next module after an error.
Fails_NextModule(b) ==
  /\ pc[b] \in {"prepare", "onBuild", "onTest", "putTruncate", "putWrite"}
  /\ pos' = [pos EXCEPT ![b] = @ + 1]
  /\ Goto(b, "get")
  /\ UNCHANGED <<lookup, loaded, outcome, holder, diskVars, envVars>>

\* Variant: an error returns without the deferred restore.
Fails_NoRestore(b) ==
  /\ pc[b] \in {"prepare", "onBuild", "onTest", "putTruncate", "putWrite"}
  /\ outcome' = [outcome EXCEPT ![b] = "err"]
  /\ Goto(b, "unlock")
  /\ UNCHANGED <<pos, lookup, loaded, holder, diskVars, envVars>>

\* An error return: the checkout, OnBuild, OnTest, or writing .cache.json.
\* Nothing cleans the install directory or the truncated file.
Fails(b) ==
  /\ pc[b] \in {"prepare", "onBuild", "onTest", "putTruncate", "putWrite"}
  /\ outcome' = [outcome EXCEPT ![b] = "err"]
  /\ Goto(b, "clearEnv")
  /\ UNCHANGED <<pos, lookup, loaded, holder, diskVars, envVars>>

-----------------------------------------------------------------------------
(* A goroutine that a hook starts has no scope of its own in execbroker:   *)
(* what it sets goes to the environment of the process, and nobody waits   *)
(* for it.                                                                 *)

StartStray(b) ==
  /\ pc[b] \in {"onBuild", "onTest"} /\ b \in Leaky
  /\ strays' = strays \cup {b}
  /\ UNCHANGED <<buildVars, holder, diskVars, env, saved, escaped>>

\* A build of process r is to clear the environment and restore what it saved.
Undoing(r) ==
  \E b \in Build : ProcessOf[b] = r /\ pc[b] \in Working \ {"saveEnv", "setEnv"}

\* At any time, after the hook, the restore and the unlocks too.
StraySets(b) ==
  /\ b \in strays
  /\ \E s \in Settings : env' = [env EXCEPT ![ProcessOf[b]][s[1]] = s[2]]
  /\ escaped' = IF Undoing(ProcessOf[b]) THEN escaped ELSE escaped \cup {ProcessOf[b]}
  /\ UNCHANGED <<buildVars, holder, diskVars, saved, strays>>

StrayEnds(b) ==
  /\ b \in strays
  /\ strays' = strays \ {b}
  /\ UNCHANGED <<buildVars, holder, diskVars, env, saved, escaped>>

StrayStep(b) == StartStray(b) \/ StraySets(b) \/ StrayEnds(b)

-----------------------------------------------------------------------------
\* The process dies: its calls end where they are, the kernel drops its
\* file locks, and its environment is gone.
Crash(r) ==
  LET killed == {b \in Build : ProcessOf[b] = r /\ pc[b] \notin Over} IN
  /\ killed # {}
  /\ pc' = [b \in Build |-> IF b \in killed THEN "crashed" ELSE pc[b]]
  /\ holder' = [p \in Path |-> IF holder[p] \in killed THEN None ELSE holder[p]]
  /\ env' = [env EXCEPT ![r] = Empty]
  /\ saved' = [b \in Build |-> IF b \in killed THEN Empty ELSE saved[b]]
  /\ strays' = {b \in strays : ProcessOf[b] # r}
  /\ UNCHANGED <<pos, lookup, loaded, outcome, diskVars, escaped>>

Take(b) == AcquireLock(b) \/ AllLocked(b)
LockStep(b) == Take(b) \/ LockFails(b)
UnlockStep(b) == ReleaseLock(b) \/ Return(b)
EnvStep(b) == SaveEnv(b) \/ ClearEnv(b) \/ RestoreEnv(b)
Handle(b) ==
  \/ AllBuilt(b) \/ CacheGet(b) \/ Prepare(b) \/ OnBuild(b) \/ OnTest(b)
  \/ PutLoad(b) \/ PutTruncate(b) \/ PutWrite(b)
ModuleStep(b) == Handle(b) \/ Fails(b)

Step(b) == LockStep(b) \/ UnlockStep(b) \/ EnvStep(b) \/ ModuleStep(b)

Next == (\E b \in Build : Step(b) \/ StrayStep(b)) \/ (\E r \in Process : Crash(r))

\* The steps of b that need no error to happen.
Advance(b) == Take(b) \/ UnlockStep(b) \/ EnvStep(b) \/ Handle(b)

\* The Go scheduler runs every call, flock wakes a waiter of a free lock,
\* and hooks and commands return.  Nothing has to fail: a call that waits
\* for a lock is not helped by an error.  Each call runs once, so a lock is
\* taken finitely often and weak fairness is enough.
Fairness == \A b \in Build : WF_vars(Advance(b))

Spec == Init /\ [][Next]_vars /\ Fairness

-----------------------------------------------------------------------------
(* Properties. *)

\* Two builds whose graphs share a path are never both at work: the later
\* one waits for the whole of the earlier Build, not for a module of it.
GraphExclusive ==
  \A b, c \in Build :
    b # c /\ pc[b] \in Working /\ pc[c] \in Working
      => Graph[b] \cap Graph[c] = {}

\* The locks cannot end in a circle of builds that wait for each other: when
\* some build is not over, some build has a step other than waiting.
NoCircularWait ==
  (\E b \in Build : pc[b] \notin Over)
    => \E b \in Build :
         /\ pc[b] \notin Over
         /\ pc[b] = "lock" /\ ToLock(b) # {} => holder[Min(ToLock(b))] = None

\* A cache hit means that the install directory holds the result of an
\* OnBuild that returned without an error, after any failure or crash.
EntryMeansBuilt ==
  \A p \in Path : \A v \in entries[p] : tree[p][v] = "built"

\* While OnBuild or OnTest of a module runs, the install directory of every
\* dependency given to it is complete.
DepsReady ==
  \A b \in Build : pc[b] \in {"onBuild", "onTest"} =>
    \A q \in Deps[b][Current(b)] : tree[q][VariantOf[b][q]] = "built"

\* What Put read from .cache.json is still what the file has when Put
\* rewrites it: builds of other versions and matrices lose no entry.
PutNotStale ==
  \A b \in Build : pc[b] = "putTruncate" => loaded[b] = entries[Current(b)]

\* A build that reports success has every artifact of its graph in place.
SuccessComplete ==
  \A b \in Build : outcome[b] = "ok" /\ pc[b] \in {"clearEnv", "setEnv"} =>
    \A p \in Graph[b] : tree[p][VariantOf[b][p]] = "built"

\* No step of any process touches an install directory that a build at work
\* has built or reused: a dependent keeps reading it until Build returns.
GraphStable ==
  [][\A b \in Build : pc[b] \in Working =>
       \A i \in 1..pos[b] : LET p == BuildList[b][i] IN
         UNCHANGED tree[p][VariantOf[b][p]]]_vars

\* No build of process r is between os.Environ and the end of the restore.
EnvQuiet(r) ==
  \A b \in Build : ProcessOf[b] = r =>
    pc[b] \in {"lock", "saveEnv", "unlock", "done"}

\* Build leaves the environment of the process as it found it.
EnvRestored ==
  \A r \in Process : EnvQuiet(r) => env[r] = Original

\* The same for a process whose builds all overlap, whatever goroutines of
\* hooks set while a build was there to undo it, their own or the next: the
\* environment is restored before the locks are released, so the graphs guard
\* it too.  What they set at another time - before a build saves it, after the
\* Clearenv, when all is over - stays, and is taken for the environment by the
\* builds to come.
OverlapEnvRestored ==
  \A r \in Process :
    /\ EnvQuiet(r) /\ r \notin escaped
    /\ \A b, c \in Build : ProcessOf[b] = r /\ ProcessOf[c] = r
                             => Graph[b] \cap Graph[c] # {}
    => env[r] = Original

\* Every call returns, or dies with its process.
EveryBuildEnds == \A b \in Build : <>(pc[b] \in Over)

\* The locks taken one by one implement the graph taken at once.
Whole == INSTANCE GraphLock WITH
  stage <- [b \in Build |->
              IF pc[b] \in Working THEN "inside"
              ELSE IF pc[b] = "lock" THEN "waiting"
              ELSE "over"]

GraphTakenAtOnce == Whole!Spec
-----------------------------------------------------------------------------
(* The inductive invariant behind the theorems of GraphBuild_proofs.        *)

\* Where a build is inside the loop body, at a module of its list.
AtModule ==
  {"prepare", "onBuild", "onTest", "putLoad", "putTruncate", "putWrite"}

InLoop == \A b \in Build : pc[b] \in AtModule => pos[b] < Len(BuildList[b])

\* A lock is held by a build that is not over, for a path of its graph.
HoldersLive ==
  \A p \in Path, b \in Build :
    holder[p] = b => p \in Graph[b] /\ pc[b] \notin Over

\* A build at work holds its whole graph.
WorkingHoldAll ==
  \A b \in Build : pc[b] \in Working => \A p \in Graph[b] : holder[p] = b

\* A build that still takes locks holds those before the next one, no other.
LockedPrefix ==
  \A b \in Build : pc[b] = "lock" =>
    \A p \in Held(b), q \in Graph[b] : q < p => holder[q] = b

LockInv == HoldersLive /\ WorkingHoldAll /\ LockedPrefix

\* The entry of the module at hand, during the hooks and Put.
LookupCurrent(b) ==
  /\ pc[b] \in {"prepare", "onTest"} /\ lookup[b] = "hit" => Found(b)
  /\ pc[b] \in AtModule /\ lookup[b] = "miss" => ~Found(b)
  /\ pc[b] \in AtModule \ {"prepare", "onTest"} => lookup[b] = "miss"

\* What is about to be published, or tested, was built.
CurrentBuilt(b) ==
  pc[b] \in {"onTest", "putLoad", "putTruncate", "putWrite"} =>
    tree[Current(b)][Key(b)] = "built"

\* What Put read is current, and stands for built directories.
LoadedBuilt(b) ==
  /\ pc[b] = "putTruncate" => loaded[b] = entries[Current(b)]
  /\ pc[b] \in {"putTruncate", "putWrite"} =>
       \A v \in loaded[b] : tree[Current(b)][v] = "built"

\* The modules already handled are in place.
HandledBuilt(b) ==
  pc[b] \in Working =>
    \A i \in 1..pos[b] :
      tree[BuildList[b][i]][VariantOf[b][BuildList[b][i]]] = "built"

\* Nothing is handled before the locks are held, success means everything is.
Progress(b) ==
  /\ pc[b] \in {"lock", "saveEnv"} => pos[b] = 0
  /\ pc[b] \in AtModule \cup {"lock", "saveEnv", "get"} => outcome[b] = "none"
  /\ outcome[b] = "ok" => pos[b] = Len(BuildList[b])

BuildInv(b) ==
  /\ LookupCurrent(b) /\ CurrentBuilt(b) /\ LoadedBuilt(b)
  /\ HandledBuilt(b) /\ Progress(b)

DataInv == EntryMeansBuilt /\ \A b \in Build : BuildInv(b)

Inv == TypeOK /\ InLoop /\ LockInv /\ DataInv
=============================================================================
