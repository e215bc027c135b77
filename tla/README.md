# Verification of LLAR

LLAR builds modules of native code from *formulas*: scripts with an `OnBuild`
hook, optionally an `OnTest` and an `OnRequire` hook.  The `llar` command builds
or installs a module with its dependencies, `llard` does so over HTTP and
publishes the results to an object store (Kodo).  This directory holds TLA+
models of the parts of the program where processes, goroutines, servers and
failures meet, the TLC configurations that check them, and TLAPS proofs.

    tlc -config MCGraphBuild_overlap.cfg MCGraphBuild     # and so on
    tlapm GraphBuild_proofs.tla                           # and the other *_proofs

`PROJECT.json` lists the components, the runs, for each definition the source
lines it stands for, the hazards with the properties that cover them, and for
each checked property a *mutant*: the operators named `X_Something` are variants
of `X` with a plausible bug, and a property is only kept if such a bug breaks it.

## Inventory

| Component | State | Operations | Hard behaviours | What makes it correct |
|---|---|---|---|---|
| Builder (`internal/build/build.go`) | module locks held, saved environment, results so far | `Build`: order, lock, save, per module get / build / test / put, restore, unlock | many calls in one process and in several; any step fails; the process dies | no deadlock, no directory replaced under a reader, no hit on a half-built directory, environment restored |
| Build order (same file) | none | `constructBuildList`, `resolveModTransitiveDeps` | diamonds, cycles, modules no selected version requires | complete, no duplicates, dependencies first |
| Local cache (`internal/build/cache.go`) | `.cache.json` per module path | `Get`, `Put` (load, change, rewrite) | concurrent read-modify-write, truncation, crash | no lost entry, an entry means a built directory |
| llard cache (`cmd/llard/main.go`) | local entry and directory, remote object and record | `Get` gated on the record, `Put` remote first | servers racing; deletion; eviction; crash between two stores | one artifact for all, answers complete and current |
| Kodo cache and records (`internal/build/cache/kodo.go`, `internal/artifact`) | object, its metadata | insert-only upload, `SetMetadata`, checked restore | lost replies, the object replaced between lookup and download | what is restored is what was recorded |
| HTTP handler (`internal/build/http/http.go`) | map of fanouts, singleflight group, writers | `do`, `fanout.add`, `Write`, `infoWriter` | join and leave at any moment, cancellation, slow clients | every request answered, no late output, own cancellation only |
| MVS (`internal/mvs`) | requirement graph, selected versions | `BuildList`, `Req`, `Upgrade`, `Downgrade`, `Graph` | cycles, several versions of one path, parallel traversal | the least version of each path that satisfies all requirements |
| Work set (`internal/mvs/par`) | todo list, added set, waiting and running counts | `Add`, `Do`, runner | lost wake-up, termination while others still add | each item once, `Do` returns exactly when all are done |
| Module loading (`internal/modules`) | module and requirement caches | `Load`, `resolveDeps`, `onLoad` | formulas of versions that are not selected run too | build list from MVS, dependencies filled in |
| Formula store (`internal/formula/repo`) | formula tree, `.sync.lock`, one `.lock` per module | `ModuleFS`, `LockModule` | one process syncs while another reads | a formula is read from one revision |
| File locks (`internal/lockedfile`) | flock on a file, in-process mutex | `Mutex.Lock`, `Close` | threads and processes, death of the holder | exclusive, released by death |
| Command broker (`internal/execbroker`) | scope per goroutine | `Do`, `Getenv` to `Environ`, rewriting | nested scopes, goroutines started by hooks | scopes nest and never leak |
| `llar make` (`cmd/llar/internal/make.go`) | as the llard cache, read-only remote | client read-through cache | remote unreachable or damaged | falls back to a build |
| Build matrix (`formula/classfile.go`, `matrix_flags.go`) | none | `extractMatrixFlags`, `parseRequest`, `Combinations`, `injectMatrix` | two programs derive the same key on their own | one key per matrix, the same for client and server |
| `llar install` (`install.go`) | install directories, `.cache.json` | request, download, install | takes no module locks | the same promises as a build |
| Version comparison (`x/gnu`, `internal/vcs/compare.go`, `github_refs.go`) | the tags of a remote, a bare copy of its commits | `compare`, `CompareFunc`, `load`, `fetch` | non-numeric parts; annotated tags, untagged commits, equal tags | a total preorder |
| Cross compilation (`internal/crosscompile`) | the target a build has settled on, its temporary files | `Load`, `Use`, `Close` | a build inside a build request, panics in a middleware | one sysroot for a build, no command refers to removed files |
| Archives (`internal/artifact/archiver`) | files | `Pack`, `Unpack` | an archive that breaks off | what is unpacked in part is not taken for the whole |
| Uploads, metadata, interpreter glue, `x/*` helpers | files, network | I/O and formats | out of a model checker's reach | |

How they interact.  `llar make`, `llar test` and `llard` call `modules.Load` (which
reads formulas through the formula store and runs MVS), then `Builder.Build`.
Build takes the module locks of the formula store, asks its cache (the local
one, the client's, or llard's), and runs hooks inside an `execbroker` scope.
All processes on a machine share the workspace directory and the formula
store; all llard servers share the Kodo bucket.  Inside llard, requests for the
same key share one build; requests with different keys are separate builds in
one process, and so share its environment.

## Modules

| Module | Models | Lines |
|---|---|---|
| `GraphLock` | what the module locks of Build promise (abstract specification) | comment in `build.go` |
| `GraphBuild` | concurrent calls of Builder.Build with the local cache and the process environment | `build.go`, `cache.go` |
| `GraphBuild_proofs` | theorems about GraphBuild | |
| `MCGraphBuild` | instances of GraphBuild | |
| `BuildOrder`, `MCBuildOrder` | build order and transitive dependencies; the bounded inputs of all pure algorithms | `build.go`, `load.go` |
| `WorkSet` | `par.Work`: runners, mutex, condition variable, counters | `par/work.go` |
| `WorkPromise` | what a work set promises (abstract specification) | comments in `work.go` |
| `WorkSet_proofs` | theorems about WorkSet | |
| `RequirementGraph` | requirement graphs, version selection, the error path, as operators | `mvs.go`, `graph.go`, `modules/mvs.go` |
| `MinimalVersions` | `BuildList` for a caller that waits for it, on RequirementGraph | `mvs.go` |
| `ModuleLoad`, `MCModuleLoad` | one call of `modules.Load` with its parallel walk; a set of formula repositories | `load.go`, `source.go`, `mvs.go` |
| `ModuleLoad_proofs` | theorems about ModuleLoad and RequirementGraph | |
| `VersionEdits` | `Req`, `UpgradeAll`, `Upgrade`, `Downgrade`, checked in `MCBuildOrder` | `mvs.go` |
| `VersionOrder` | the order of version texts, checked in `MCBuildOrder` | `gnu/sort.go` |
| `RefOrder` | a repository's refs and their order, checked in `MCBuildOrder` | `vcs/compare.go`, `vcs/github_refs.go` |
| `BuildMatrix` | from a command line or a query to the key and the formula's view, checked in `MCBuildOrder` | `classfile.go`, `matrix_flags.go`, `http.go`, `install.go`, `target.go` |
| `Algorithms_proofs` | theorems about BuildOrder, VersionOrder, RefOrder and BuildMatrix | |
| `FormulaStore` | `ModuleFS`: the shared sparse work tree under its sync lock | `store.go`, `github.go` |
| `Workspace`, `MCWorkspace` | llar make and llar install in one workspace, on FormulaStore | `make.go`, `install.go`, `build.go`, `cache.go`, `kodo.go` |
| `Workspace_proofs` | theorems about Workspace and FormulaStore | |
| `CTarget` | what a cross-compilation target makes of a command | `c/target.go`, `crosscompile.go` |
| `Commands`, `MCCommands` | hooks, their scopes and commands in the builds of one llard, on CTarget | `execbroker.go`, `crosscompile.go`, `build/target.go` |
| `Commands_proofs` | theorems about Commands and CTarget | |
| `LlardCache`, `MCLlardCache` | one artifact, several llard servers, the remote store | `main.go`, `kodo.go`, `artifact/kodo.go` |
| `LlardCache_proofs` | theorems about LlardCache | |
| `InfoStream`, `MCInfoStream` | requests for one key in one llard | `http.go` |
| `InfoStream_proofs` | theorems about InfoStream | |

### GraphBuild

One value of `Build` is one call.  `pc[b]` names the call's next step:

| `pc` | Code |
|---|---|
| `lock` | the loop over the sorted paths with `LockModule` |
| `saveEnv` | `os.Environ()` |
| `get` | head of the module loop and `cache.Get`; with the list at its end, the return |
| `prepare` | checkout and `MkdirAll` |
| `onBuild`, `onTest` | the hooks |
| `putLoad`, `putTruncate`, `putWrite` | `localCache.Put`: `load`, the truncation by `os.WriteFile`, its write |
| `clearEnv`, `setEnv` | the deferred `os.Clearenv` and `os.Setenv` loop |
| `unlock` | the deferred unlocks (deferred first, so they run last) |

`holder[p]` is the lock file of path `p`, which the formula store keeps one of
per path for all processes.  `entries[p]` is the set of version-matrix keys in
`.cache.json`, `tree[p][v]` the install directory: absent, partly written, or
the result of an OnBuild that returned without an error.  `env[r]` is the
environment of process `r`: what it has for a variable that it was started with ("own") and for
one that only a formula sets ("other").  The restore is `os.Clearenv` and then the
loop over what was saved, in one step, so that what somebody sets between
the two and was not saved stays.  Any step that can return an error may do so
(`Fails`, `LockFails`), and any process may die at any time (`Crash`): its calls
stop, the kernel drops its locks, files stay.

Paths are numbers in the order of `sort.Strings`.  Build lists, dependencies,
variants and processes are constants.  What the code guarantees about them is
assumed by name: a build list has no path twice (`DistinctAssumption`, from the
`visited` map) and dependencies come first (`OrderAssumption`).  Both are
proved of the algorithm itself (`BuildOrderIsTopological`); the second is true of acyclic graphs only.

A hook's own `os.Setenv` is redirected by the command broker to the scope of its
goroutine; a goroutine that the hook starts is outside of the scope and reaches
the process environment.  Such a *stray* begins while a hook runs (`StartStray`) and then sets or
unsets variables at any time (`StraySets`), after its hook, the restore and the
unlocks too, until it ends (`StrayEnds`) or the process dies.  `Leaky` names the calls whose hooks may start
one, `Settings` what it may set.  `escaped` is history: the processes in which one has set
something while no build was there to undo it.

### BuildOrder

`constructBuildList` and `resolveModTransitiveDeps` walk the dependencies with a
recursive closure, `visit`.  `path` is the stack of its calls that have not
returned, `Nobody` or the module of resolveModTransitiveDeps at the bottom, and
`next[p]` is where the loop of `p`'s call is.  A step is one round of the loop
on top of the stack (`Skip` a path that was visited or is not in the list,
`Visit` another), or a return, which adds the module to `order`.  `Deps` is what
`modules.Load` puts into `Deps`: for the main module the rest of the build list,
for any other its direct requirements.  When a walk is over, another begins for
any module of the list (`ResolveModTransitiveDeps`).  The stack instead of a
recursive operator is what lets the walk be proved about.

### WorkSet, ModuleLoad, RequirementGraph and MinimalVersions

`at[r]` is where runner `r` is in its loop: about to lock `w.mu` (`look`), in
`Wait` (`asleep`, or `woken` once signalled), in the callback (`run`), or out.
The mutex makes each critical section a step; `Wait` gives it up and takes it
again, so a woken runner tests the conditions anew and may have to sleep again.
The choice of the next item, random in the code, is any.

ModuleLoad puts `buildList`'s callback into these runners: it calls
`Required` (Load's `onLoad` behind its cache and graph mutex, `CallRequired`, `GraphRequire`),
records the answer under `mu` (`Record`), and adds the requirements one by one
(`AddNext`); other runners take steps between any two of these.  Before it come the main
module's version and requirements, after it `convertToModules` and the direct
dependencies.  `world` is what Load finds outside: which formulas exist and for
which versions, which answer with an error, the comparators, the tags.
Comparators may call different versions equal, as the code's do for a tag and
the commit it names.  The panics are phases of their own: `comparePanic` in
`compareModuleVersion`, `mistake` in `Graph.Require` and `buildList`.

RequirementGraph has `mvs.Graph` (`Require`, `GraphBuildList`, `FindPath`, `RequiredBy`)
as operators on a record.  Loops over a list are recursive functions of how much
of it is done (`Raised`, `RootsListed`, `Expanded`), and so is the breadth-first search
(`Searched`), which gives up nothing by its bound: a module joins the queue once.
MinimalVersions visits the modules of a `BuildList` in one order, for VersionEdits.
The order in which equal versions are raised is that of the calls.

### VersionEdits, VersionOrder, RefOrder, BuildMatrix

Pure algorithms; `MCBuildOrder` enumerates their inputs as states and states
the properties about each.  The program calls only `BuildList` of package mvs,
but the package exports the edits too.  VersionOrder takes a version text as a
sequence of bytes, because the order is about bytes; `verrevcmp` is a recursive function of
the two positions.  The bytes are 1 to 255: no tag and no argument of a command has a NUL,
and with one the comparison would not be transitive, since a NUL is worth as much as the end
of the text (`"" = "\x00" = "5"` but `"" < "5"`).  RefOrder starts from a
remote: its branch heads, its tags, which of them are annotated, and its
commits, with their ancestors and times.  `View` is what `githubRefs` makes
of that: tags at their commits, and the commits that are fetched.  The fetch is by hash
and makes no ref, so that a branch name does not resolve in the bare repository, nor does
a commit that nothing listed leads to; for those CompareFunc falls back
to the comparison of tags, and the properties are about the others.
BuildMatrix takes a text as a sequence of words and separators.  `Names` are the names of
dimensions in alphabetical order; `Combined` and `Counted` are functions of how many of these have
been gone over, as the loops of `Combinations` and `CombinationCount` go over the sorted keys.
`Matrices` are those of the command lines that a matrix is compared with.

### FormulaStore and Workspace

A command of Workspace is a process with one job: make or install of a list of
keys.  A make opens the formulas of its modules one by one through
FormulaStore, takes all its module locks (in one step: GraphBuild shows that
this is what the sorted locks amount to), and then sees to each key: the local cache, the
published archive (`getPublic`: cleared, then unpacked in place), or a build
from source.  When its Build returns, it releases the locks (`Unlock`), and writes its result without them
(`End`).  An install asks llard, and for each key that .cache.json lacks
downloads into a staging directory, removes the old directory and renames.
`os.RemoveAll`, of both (`Clear`, `Remove`), takes file by file and the directory
last, and can fail or be killed in between.  What is downloaded or built is published
with `localCache.Put`: `Load`, `Truncate`, `Write`.  An artifact is two files,
so that half of one can be told from the whole; downloaded and built files have
different names, so that a mixture can be told too.

`Fail` is any step at which the code returns an error; a write of .cache.json that fails
midway does to the file what `Kill` does there.  `Kill` is the death of
the process, which drops its locks and leaves its files.  `Push` moves the remote of the
formula repository.  `git` is taken at its commands: `init`, `sparse-checkout`
`init`, `set` and `add`, `fetch`, `checkout`, each of which can fail.
`disturbed` and `put` are history: the keys whose directory was cleared while
somebody relied on it, and those that ever had an entry.  Relying on a directory is to have
an entry for it, in .cache.json or in hand, to work in it, or to be through with it in a Build or an install
that is not over.

### Commands and CTarget

Each goroutine runs a build's hooks one after the other.  `scope[g]` and the
environment of `cmd[g]` are *slices*: names of a contents in `slices`, so that
two holders of one slice share what is written to it.  `Do` opens the scope; `Setenv`,
`Unsetenv` and `Clearenv` copy the process environment at the first change;
a command is rewritten in steps: `Rewrite` clones the scope's environment (`Cloned`; the clone of an empty
slice is nil, so that the command inherits the process environment, `Inherits`) and
takes `scopeMu` for reading, `Patched` applies `Use` of the target, `Slice` and
`Unlock` end it, and `UsePanics` is the panic in between that no deferred unlock follows.
`dirs` are the temporary directories of toolchain files.  A hook does not nest
`Do`, starts no goroutine and gives a command no environment of its own (`cmd.Env`) here; what such a goroutine does to the process
environment is in GraphBuild (`StraySets`).  `Use` never calls the broker, so that the
reader-writer lock's preference for writers makes no difference.

### LlardCache

One artifact (module, version, matrix) is followed.  A request at a server goes
through `readThroughCache.Get` (`GateMiss`, `LocalHit`, `LocalMiss`),
`kodoCache.Get` (`StatFound`, `StatMissing`, `Restore`), the hook (`OnBuild`) and
`readThroughCache.Put` (`Upload`, `UploadRefused` with error 614, `Record`,
`LocalPut`).  A server is at one request at a time because the module lock is
held from Get to Put, which GraphBuild shows.  Each step that can fail has a
`...Stops` action: it returns an error or the server dies and is started again,
which leaves the same files; a lost reply is an error after the effect.

`tree[s]` is the *set* of builds whose files are in the directory, with `Partial`
for unfinished ones: OnBuild adds to what is there, RemoveAll empties it.  So
"nothing is mixed in" is a statement about the set.  A checksum is represented
by the archive it is taken of.  Builds are not reproducible: OnBuild yields any
member of `Content`.  `Delete` is an operator's deletion (the metadata record goes
with the object), `Evict` the clearing of a user cache directory; neither is
called by the servers.  Evict happens to idle workspaces only.

### InfoStream

A request goes through `LoadOrStore` (`Arrive`), `fanout.add`, `DoChan` (`Join`),
the select (`Receive`, `GiveUp`), the deferred removal and the response.  The
call made by request `l` writes `Lines` lines (`WriteLine` takes `f.mu`, `WriteTo`
serves one writer at a time, the mutex is free again when `pending` is empty),
ends, deletes the entry of the key and is forgotten by singleflight, in this
order.  singleflight and the request context are external.

## Runs

| Run | Shows | Bounds |
|---|---|---|
| `MCGraphBuild_overlap` | all safety properties, the refinement to GraphLock, and that every build ends | 3 builds, 2 processes, 3 paths, 2 variants: two builds of one process share a dependency, a third in another process has the opposite order of it; one runs OnTest, and its hooks may start a goroutine that at any time unsets a variable of the process or sets a new one |
| `MCGraphBuild_env` | `EnvRestored` fails for disjoint graphs in one process | 2 builds, 1 path each |
| `MCBuildOrder_graphs` | build order and dependencies are complete and ordered; Req is minimal, Upgrade reaches, Downgrade stays within; versions and refs are preordered; a key names its matrix | every graph of 4 modules, with every order of each requirement list but the main module's, which is not read, and every walk on it, round by round; up to 4 requirements between 3 versions of 2 modules and the main one, with and without a version that cannot be loaded; texts of up to 2 of 6 bytes and some of 3; repositories of 3 commits and 2 tags, plain or annotated, with and without a branch; command lines of up to 3 of 18 arguments, each line with each of up to 2 |
| `MCLlardCache_race` | restored means recorded; one artifact for all; complete answers | 2 servers, 2 build results, requests repeated without end |
| `MCLlardCache_deleted`, `_clean`, `_orphan` | three statements of the comments that do not hold | the same |
| `MCModuleLoad_walk` | the build list is minimal, an error is the nearest, panics need two requirements of a broken module, no runner is left asleep, the load ends; the work set implements its promise | 3 runners, 3 modules, 4 versions one of which is the blank and two of which are equal; 30 or so repositories with cycles, a main module that is required again, missing formulas, refused versions |
| `MCWorkspace_race` | entries are backed and kept, successes usable, makes exclusive, installs whole; opened formulas are there; every command ends | 9 pairs and triples of commands on two versions of one module and one of another; 2 revisions of the formulas |
| `MCCommands_scopes` | commands keep the settings they were made with; one sysroot per build; toolchain files outlive the commands that name them; hooks return | 2 builds of one process, one of them for another target with the default or a custom libc; 3 and 2 broker calls |
| `MCInfoStream_shared` | no late line, own cancellation only, every request answered | 2 requests, 2 lines |
| `MCInfoStream_joiner` | a joiner can miss the lines of its build | 3 requests, 1 line |

Why the bounds are enough to be interesting.  Two builds make a lock cycle, the
third keeps locks changing hands while they wait; the instance has overlap in
one process and across processes, hits left by a build of another process, and
entries of two variants in one `.cache.json`.  A race for one artifact needs two
servers; since their requests repeat, deletion and new publication can fall
between any two steps of the other.  With two requests, one can start a call,
leave, or come in every gap of the other's; the joiner needs a third.
All state spaces are finite without state constraints.  Symmetry is used only
where no liveness is checked (MCLlardCache, `MCInfoStream_joiner`).  The work
set needs three runners for one to sleep, one to be woken and one to add; a
tie between versions needs two requirements of one path, a nearest error two
chains of different length.  In the workspace every kind of pair occurs: make
and make of one key, makes of two versions (one .cache.json), a make over an
install's key, two makes of one key with an install of another version, two installs, and
formulas opened by two makes.  In a triple of makes one can be killed in its rewrite
of .cache.json and another build again the key of a third that is writing its
result without locks.

Deadlock
checking is off in InfoStream, where all requests and calls run once and then
stop, in `MCBuildOrder_graphs`, whose other inputs stop growing, and in
`MCCommands_scopes`, where a panic of the middleware really blocks the process.

Fairness.  GraphBuild: weak fairness of each call's steps other than errors
(`Advance`).  The Go scheduler runs every goroutine, flock wakes a waiter when
the lock is free, hooks return; a call that waits for a lock must get it, an
error does not count as its way out.
Each call runs once, so a lock changes hands finitely often and weak fairness
suffices.  ModuleLoad, Workspace and Commands: weak fairness of all the goroutines or
processes together, no more: something moves as long as something can.  Errors
are steps of their own there, but `Kill` and `Push` are not required to happen.  It is enough because every
behaviour is finite, a command by its list of keys, a load by the finite number of versions, a
hook by the bound of its calls.  InfoStream: weak fairness of each client and each call; this
includes that a write to a client returns, because the client reads or goes
away.  llard sets no write timeout, so a client that does neither holds up the
build; the mutant `WriteTo_Stalls` shows the consequence.

### What the violations say

* `EnvRestored`: `Build` saves and restores the environment of the process, but
  builds of disjoint graphs run in parallel, and one can save what the other's
  `os.Clearenv` left.  `OverlapEnvRestored` shows that builds that all overlap
  are protected by their locks, because the restore comes before the unlocks.  It excepts processes
in which a stray goroutine has set something while no build was there to undo it:
before the save, between the `Clearenv` and the end of the restore, or when all is over.  That stays, and the
builds to come save and restore it; nothing in `Build` or the broker waits for
such a goroutine.
* `DeletedInvalidates`: the gate in `readThroughCache.Get` asks for *a* record,
  not for the record of the local copy, and the local entry is never removed.
  A related run of the same code: after the removal of the directory and a failed
  rebuild, the entry is hit over a partial directory once the record is back.
* `CleanRebuild`: only the first of the two lookups in one Get removes the
  install directory when the record is missing.
* `RefusedMeansPublished`: upload and record are two requests to Kodo; stopping
  between them leaves an object that blocks all later publication.
* `JoinersShareStream`: the fanout is looked up before the call is joined, and
  the two can belong to different builds.  The same gap leaves a fanout in the
  map `infos` until the next request for the key.

### Exceptions that properties have to make

Some promises hold only with an exception; the property names it, and the code
is exposed to it:

* `HooksReturn`: `rewrite` holds `scopeMu` for reading over the middleware and unlocks it
  without `defer` (`execbroker.go:274-283`).  The targets' `Use` panics on errors
  (`c/target.go:124,129,187`, `crosscompile.go:47,55,63`); `runFormulaHook`
  recovers the panic as the hook's error, but the deferred function of `Do`
  then waits for the write lock forever, with it every other hook of
  the process, and their module locks stay taken.
* `PanicNeedsTwoOfMissing`: `compareModuleVersion` panics where it "should not
  have errors" (`load.go:98`).  A path without a loadable formula gets there when
  two requirements name it before the walk has recorded the error.
* `FormulaIsThere`: a `sparse-checkout add` that fails makes `SyncDir` fall back to a
  plain fetch and checkout (`github.go:145`), which keeps the patterns of the
  sparse work tree: it succeeds and leaves the wanted module out.
* `EntryIsBacked`, `SuccessIsUsable`: an install takes no module locks.  It
  can clear a directory under a make or another install of the same key.  And one
  of another version of the module can make others do so: while it rewrites .cache.json
  the entries in it are gone, so that a make misses and replaces the directory that
  another command has just found.  The attempt to prove that only the same key matters
  came upon that; `MakesAreExclusive` says what is left: no install near, no disturbance.
* `SuccessIsUsable`: `Build` returns its locks before `llar make` writes its result
  (`build.go:410-414`, `make.go:256-280`).  What it was given is complete when `Build` returns; when the
  result has been written that can be otherwise, not only by an install:
  a process that was killed in its rewrite of .cache.json has lost the entry, and a further make
  misses it, clears the directory and builds anew (`Unsettled`).
* `InstallIsWhole`: an install that removes a directory and stops in between leaves a
  part of it, which is there and without an entry until somebody looks for that key
  again.
* `LocksKeepEntries`: an install, or a process killed between truncation and
  write, can lose entries of other versions of the module (`Unsettled`).
* `CommandKeepsSettings`: "Clearenv removes all variables from the active command
  scope" (`execbroker.go:152`).  But the slice it leaves is empty, and its clone is nil
  (`execbroker.go:298-303`): a command made after it, or after the removal of the last variable, gets
  `Env` nil and with it the whole environment of the process; a target's `Use` takes `os.Environ` then, too.
  `Expected` says so.
* `KeyNamesTheMatrix`: a key has the values of a matrix and not the names of
  its dimensions.  `--option shared=ON` and `--option ssl=ON` have the same key, so
  that one is answered with the build of the other; a value with "-" in
  it can be read in two ways.  The property compares matrices over the same
  dimensions with plain values.  And the client's key is the server's only
  if what is required is os, arch and libc and what is optional is not.

`getPublic` says that failing downloads are a miss (`kodo.go:118-120`), but returns
an error when the body breaks off (148-151) and the build fails; the model follows the code.

Beside these: with the directory evicted and the entry left, `LocalHit` answers
with a directory that is not there.  `CompleteUnlessDeleted` has to except it.

## Proofs

### The builder

`GraphBuild_proofs` proves, for every number of builds, processes, paths and
variants and for all build lists that satisfy the assumptions:

| Theorem | States |
|---|---|
| `TypeCorrect`, `Invariance` | `[]TypeOK`, `[]Inv` |
| `Exclusive` | `[]GraphExclusive`: overlapping builds never work together |
| `DeadlockFree` | `[]NoCircularWait`: some build can always go on |
| `HitIsComplete` | `[]EntryMeansBuilt` |
| `DependenciesReady` | `[]DepsReady` |
| `NoLostEntry` | `[]PutNotStale` |
| `SuccessIsComplete` | `[]SuccessComplete` |
| `TreesStayPut` | `GraphStable`, an action property |
| `ImplementsGraphLock` | `GraphTakenAtOnce`: every behaviour is one of GraphLock |
| `OverlapRestores` | `[]OverlapEnvRestored`: builds that all overlap leave the environment that they found, whatever strays set while a build was there to undo it |

None of the properties is inductive.  `Inv` adds:

* `LockInv`: a lock is held for a path of the holder's graph by a build that is
  not over; a working build holds its whole graph; a build that still takes
  locks holds those below the next one and no other (`LockedPrefix`).
* `DataInv`: per build, what its `lookup` says is still true (`LookupCurrent`), what
  it is about to publish was built (`CurrentBuilt`), what Put has read is
  current (`LoadedBuilt`), what it has handled is in place (`HandledBuilt`), and
  how far it is (`Progress`).

The lock part is proved first and alone.  From it follows that a working build
is the only one to touch the paths of its graph, which is all the data part
needs about the other builds.  `DeadlockFree` takes the build that holds the
greatest lock that some waiting build wants: were it waiting too, it would want
a greater one.  For `ImplementsGraphLock` the mapping sends a build to "inside" exactly
while it works; taking the last lock's successor step is `Enter`, the first
step after the restore is `Leave`, and locks are stutters.  `OverlapRestores` has an
invariant of its own, `EnvInv`: in a process that lives, whose builds overlap pairwise and in which
nothing has escaped, at most one build alters the environment at a time, it has saved the original, what it
restores over is empty, and while no build does, the environment is the original.

The assumptions are those named in GraphBuild, no more; TLC evaluates them in
every run of MCGraphBuild.  `Inv` was model-checked on the instance of
`MCGraphBuild_overlap` before it was proved; the run lists the properties it is for.

### The work set

`WorkSet_proofs` proves, for any finite set of runners and any items:

| Theorem | States |
|---|---|
| `WorkSetInvariance` | `[]Inv` |
| `WaitingIsIdle` | `[]WaitingCounts`: `w.waiting` is the number of idle runners |
| `ReturnsAtTheEnd` | `[]NoEarlyReturn`: nobody returns while there is work or somebody works |
| `SomebodyAwake` | `[]NeverAllAsleep`: no lost wake-up leaves all asleep |
| `WorkSetKeepsPromise` | `PromiseKept`: every behaviour is one of WorkPromise |

`Inv` is the types, `ItemsApart` (an item is to do, in one runner, or done), and
the three above, which need each other: the last runner to become idle
knows that it is the last only because the counter is right, woken runners
included until they hold the mutex again; and then all are idle, so that its
Broadcast leaves no one asleep.  The refinement maps `todo` to pending, the items in callbacks
to active, the rest of `added` to done, and a returned runner to the end.
ModuleLoad's runs check the same properties with the real callback.

The assumptions are `RunnerAssumption` and `ItemAssumption` of WorkSet.

### The workspace and the formula store

`Workspace_proofs` proves for any
number of commands, keys, modules and jobs:

| Theorem | States |
|---|---|
| `WorkspaceInvariance` | `[]Inv` |
| `FormulasStay` | `[]FormulaIsThere`: an opened module's formulas stay, of its revision or a later one |
| `EntriesAreBacked` | `[]EntryIsBacked` |
| `MakesStayApart` | `[]MakesAreExclusive`: what a Build relies on is cleared only where an install rewrites the same .cache.json |
| `EntriesAreKept` | `[]LocksKeepEntries` |
| `InstallsAreWhole` | `[]InstallIsWhole`: an installed directory is whole until an install removes it, and what is left of one stays only where an install was stopped |
| `SuccessesAreUsable` | `SuccessIsUsable`, an action property of the return of `Build` and of the report of success |

`Inv` has three layers.

* `StoreInv`: who is in a sync holds its lock (`HoldsSyncLock`); what was opened is
  not newer than what was fetched, nor that than the remote (`Revisions`); a sync
  that gets as far as the checkout has its module in the patterns, unless the fallback
  skips it (`WantedIsCheckedOut`); the patterns are only set anew before anybody has opened anything
  (`FirstSync`); so that what was opened stays in the work tree (`StaysCheckedOut`).
* Control: the step a command is at fits its kind and what it has still to do
  (`Control`), a make holds the locks of all paths of its job from its formulas to the return of `Build`
  (`HoldsLocks`), and what it is about to write is for its current path
  (`LoadedToWrite`).
* Data: as long as its directory is not disturbed, an entry, written or in a command's hand,
  has its files, and the directory has what the command's step says (`Backed`); a directory that is not there is empty
  (`EmptyUnlessThere`); away from installs nothing is disturbed, because a
  make clears a directory only where it has found no entry, and none can come before it is
  done (`Exclusive`); .cache.json is empty between truncation and write
  (`Emptied`), and, while nobody near is killed, the entries that were there are in the writer's hand (`Kept`).
  An entry was put there (`EntriesWerePut`); so that what a make is through with is in .cache.json or in the writer's hand
  for good, nobody clears it, and it is whole when the result is written, long after the locks (`MadeStays`).

`Exclusive`, `Emptied`, `Kept` and `MadeStays` only speak of paths that no install is for
(`NoInstallNear`, and `Unsettled` for the last two); the rest holds beside installs too.  The assumptions are
`ClientAssumption` of FormulaStore and `PlanAssumption` of Workspace.

### The llard cache

`LlardCache_proofs` proves, for any number of servers and any builds:

| Theorem | States |
|---|---|
| `LlardCacheInvariance` | `[]Inv` |
| `RestoresWhatIsRecorded` | `[]RestoredIsRecorded` |
| `AllAnswerTheSame` | `[]OneArtifact` |
| `AnswersAreComplete` | `[]CompleteUnlessDeleted` |

`Inv` is the types, `RemoteInv` (what a server has restored is what its lookup's record names)
and, until the first deletion, `ArtifactInv`: the object in the bucket is one
whole build (`ObjectWhole`), every entry and every answer since publication is of that
build (`Canonical`), and a directory has the files that the server's step and entry call for
(`Directory`).  The assumptions are `ContentAssumption` and `NoneAssumption`.

### The info lines

`InfoStream_proofs` proves, for any set of requests and any number of lines:

| Theorem | States |
|---|---|
| `InfoStreamInvariance` | `[]Inv` |
| `LinesAreInTime` | `[]NoLateLine` |
| `CancelationIsOwn` | `[]CancelIsOwn` |

`Inv` adds to the types that a request past `LoadOrStore` has a place in a fanout (`Placed`),
that the writers of a fanout are between `add` and their removal, a pending
write included, because the removal waits for `f.mu` (`WritersPresent`), and that
no call fails by a cancellation, since a build runs without its requests' contexts
(`BuildsNotCanceled`).  The assumption is `RequestAssumption`.

### Commands and targets

`Commands_proofs` proves, for any number of goroutines with any plans, calls
and environments:

| Theorem | States |
|---|---|
| `CommandsInvariance` | `[]Inv` |
| `CommandsKeepSettings` | `[]CommandKeepsSettings`: variable by variable, removed ones included, but that an empty environment is the process's |
| `BuildsHaveOneSysroot` | `[]OneSysroot` |
| `FilesLive` | `[]ToolchainFilesLive` |

`Inv` adds that no slice is shared by two scopes or by a scope and a command
(`ScopeIsOwn`, `CommandIsOwn`): the clone in `rewrite` is what keeps a later
`Setenv` out of a command; and that the sysroot a build has settled on is that of its
first command that had one, or of the libc built for it (`Settled`).  TLC checked `Inv` on the instance of the run before it
was proved.  The assumptions are `UnsetAssumption`, `PlanAssumption`, `OfferedAssumption` and
`EnvAssumption`.

### Module loading

`ModuleLoad_proofs` proves, for any finite sets of paths, versions and runners, and for
all that Load can find outside (`World`):

| Theorem | States |
|---|---|
| `LoadInvariance` | `[]LoadInv` |
| `LoadListsMinimal` | `[]ListIsMinimal`: a call that succeeds answers with the minimal build list, whatever the order of the visits |
| `LoadErrorIsNearest` | `[]ErrorIsNearest`: a version that cannot be loaded fails the call, and the error names a shortest chain to one |
| `LoadPanicsOnTwo` | `[]PanicNeedsTwoOfMissing` |
| `LoadNeverAsleep` | `[]NeverAllAsleep`, with the real callback in the runners |
| `LoadUsesWorkSet` | every behaviour is one of WorkSet |
| `LoadKeepsPromise` | `PromiseKept`, from the former and `WorkSetKeepsPromise` |

`LoadInv` is WorkSet's `Inv`, which holds because `LoadUsesWorkSet` maps every step to one of
the work set or a stutter, and:

* `StepInv`: where a runner is in its callback it has what `Required` answered for its
  module; from `Record` on, the requirements of that module are in Load's own graph.
* `ListInv`: the graph of `buildList` has exactly the visited modules with their requirements;
  what it has met is reached and was required by something visited; and the
  versions selected are the highest of those met (`Selects`).  That holds in any order of
  visits, because the highest of a set does not depend on the order, and at the end what was
  met is all that is reached.
* `CacheInv`: what Load has cached is in its graph, and whatever buildList meets is
  known to that graph first.  This is why its `Require` never panics.
* `CallInv`: the phases, and what was answered.

That the error is nearest is about `FindPath` on the finished graph, and has an
induction of its own over the turns of the search.  `TrailInv`: each trail is a chain of
requirements from the main module to its end.  `DistanceInv`: the queue is
in the order of the lengths of its trails, which differ by one at most, and nothing that was
taken off is farther than anything queued.  So that when the search stops at a wanted module, all
that is nearer has been taken off and was not wanted.

The recursive functions are unfolded by lemmas (`...Unfolds`), and induction over
their argument takes the least number for which a statement fails (`LeastElement`,
`SetInduction`), as the induction theorems of the library cannot be used.

The assumptions are `PathAssumption` and `VersionAssumption` of RequirementGraph,
`RunnerAssumption` and `ItemAssumption` of WorkSet, and `CallerAssumption`,
`ItemsAreModules` and `WorldAssumption` of ModuleLoad.  The last says
that ranks are above that of "none", and that neither the main module nor a
requirement has "none" for its version, which is no tag and no commit.
`llar make x@none` is therefore left out.

### The algorithms

`Algorithms_proofs` proves about the build order, for every set of build lists with
their dependencies, cyclic or not:

| Theorem | States |
|---|---|
| `WalkInvariance` | `[]WalkInv` |
| `BuildOrderIsTopological` | `[]OrderIsTopological`: the order has the whole list once, the main module last, and dependencies first if there is no cycle |
| `BuildDepsComplete` | `[]DepsGivenComplete`: OnBuild gets all that its module depends on, once each |

`WalkInv` adds to the types: what was visited is either on the stack or in the
order, once (`StackInv`); what a loop has gone over was visited, and all that a returned
module needs (`LoopInv`), so that at the end the visited are closed; the stack is a chain of
dependencies (`BelowInv`), so that nothing else is visited, and so that a dependency on the stack means a cycle;
hence without one all that a returned module needs comes before it (`NeededBefore`);
and the main module is the first visited and the last to return (`MainInv`).  TLC checked it on
every graph of `MCBuildOrder_graphs` before it was proved.  The assumption is
`InputAssumption`: a build list has no path twice.

About versions, refs and matrices it proves, for all arguments:

| Theorem | States |
|---|---|
| `GnuOrderIsPreorder` | `CompareIsPreorder`: `gnu.Compare` is antisymmetric and transitive, orders numbers by value, puts `~` before the end and a letter after it |
| `ViewIsHistory` | what `View` makes of a remote is a history: all that its tags and commits refer to resolves |
| `RefsHaveOneAnswer` | in a history the comparison has one result, whichever of several highest tags Go's map gives first |
| `RemoteIsPreordered` | `RefsArePreordered`: the refs of a remote are preordered |
| `CommitsFollowTheirTags` | an untagged commit comes after every tag that it descends from |
| `TagEqualsItsCommit` | a tag equals the commit that only it is at |
| `CombinationsAreCounted` | `CombinationCount` is the number of `Combinations`, of every matrix |
| `CombinationsDiffer` | the combinations of a matrix have different texts, if no value has a separator in it and no list a value twice |
| `KeyTellsTheMatrix` | `KeyNamesTheMatrix`: a command line has one key; with plain values over the same dimensions, no other matrix has it; llard has the key and the options of the command |
| `QueryCarriesTheMatrix` | llard reads the client's matrix from its query |

For `GnuOrderIsPreorder`, two texts are taken apart into parts, a byte that is no digit or a
number with its leading zeros.  The first parts that differ decide; parts
compare transitively by their kind, byte or value; and the induction is over what is left
of the texts, which each part makes shorter (`Left`).  That a longer number is
greater is shown of `Value`, the number it stands for.

For `KeyTellsTheMatrix`, the last separator of a text tells where it was joined, if what
comes after it has none (`LastSeparatorTells`): of the texts for the first k names the last value
can be told, and the rest is the text for the first k - 1 (`TextTells`, an induction over
names).  A bar comes only from joining required dimensions and options (`BarsAreKept`), so
it tells the two parts from each other.  What is assumed of the values is needed: with `-` in a value
`a-b` can be one value or two.

A remote (`IsRemote`) has finitely many tags, integers for ranks and times, and
ancestors that are closed under ancestors; `IsHistory` is what `ViewIsHistory`
shows of it, so the theorems after it apply to every remote.  The ranks stand for the comparator of
the module's tags, so they take for granted that it is a preorder; `GnuOrderIsPreorder` shows it of
the one that Load takes by default.  The matrices of `QueryCarriesTheMatrix`
require os, arch and libc only, and no option has such a name; without that it is not true.
The assumptions are `TextsAssumption`, `CommitAssumption`, and of BuildMatrix
`NamesAssumption` (each name once, os and arch among them), `HostAssumption` (a host has an os and
an architecture) and `CommandLinesAssumption` (the command lines are such).

### Model-checked only

* Liveness, all five: `EveryBuildEnds`, `EveryRequestAnswered`, `LoadEnds`,
  `EveryCommandEnds`, `HooksReturn`.  ENABLED and fairness are out of the
  prover's reach.
* `ReqIsMinimal`, `UpgradeReaches`, `DowngradeWithin`, of the edits of package mvs that
  the program does not call.  They rest on the recursive operators of VersionEdits and
  MinimalVersions, which the prover cannot take.

## Plan

Done: all modules above with their runs; the proofs of every safety and
action property that a passing run checks, but for the three named under
*Model-checked only*.

Left:

1. `FileMutex`: the two levels of `lockedfile.Mutex.Lock`, flock and the in-process
   mutex, implementing the holder of GraphBuild.
2. An instance of Workspace with `make -o`, whose workspace is temporary, and one
   with formulas from a local overlay.
3. Errors of creating directories in Workspace, and staging directories that
   an install leaves when it is killed.

## Not modelled

JSON lines, progress output and logging: formatting.  The formats of archives and
the upload to registries.  The contents of sources, archives, metadata and toolchain files: a build is partial or built, an
archive is its files and entry.  The network, the formula
interpreter, generated export tables and the helper libraries for formulas: I/O and
text with no shared state.  The accessors of formula classes.  How tools are found on
the machine.  `Graph.WalkBreadthFirst`, which nothing calls.  A git
process that outlives the killed llar that started it.  Errors of `versions.json` and of
the upgrade function are one refusal of the module.  The build that
`crosscompile.Load` runs for a sysroot is one more call in GraphBuild and a
phase in Commands.
