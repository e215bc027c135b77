----------------------------- MODULE Workspace -----------------------------
(***************************************************************************)
(* The workspace that all llar commands of a machine share: an install     *)
(* directory for each key (module version and matrix) and a .cache.json    *)
(* for each module path.  llar make works under the module locks           *)
(* (src/cmd/llar/internal/make.go, src/internal/build/build.go), llar      *)
(* install without any (src/cmd/llar/internal/install.go).                 *)
(*                                                                         *)
(* A command is a process: it runs its job once, may fail where the code   *)
(* returns an error, and may be killed anywhere.  The locks of one Build   *)
(* are taken at once, which GraphBuild shows they may be, and released     *)
(* when it returns, before the result is written.                          *)
(***************************************************************************)
EXTENDS FormulaStore

CONSTANTS
  Key,      \* install directories: a module path, version and matrix
  PathOf,   \* PathOf[k]: the module path of k, which names its .cache.json
  Plan      \* the jobs that are run together

\* A command: make, install or nothing; the keys it sees to, in build order;
\* the modules whose formulas are in the remote store.
Job == [kind : {"make", "install", "nothing"}, keys : Seq(Key), mods : Seq(Module)]

\* A build list ends in its root, and install refuses an empty answer.
ASSUME PlanAssumption ==
  /\ Plan \subseteq [Client -> Job]
  /\ \A j \in Plan, c \in Client : j[c].kind # "nothing" => j[c].keys # <<>>

VARIABLES
  job,        \* job[c]: what c was started for
  pc,         \* pc[c]: the step that c takes next
  todo,       \* todo[c]: the keys c has still to see to, current one first
  lock,       \* lock[p]: who holds the lock of module path p
  entries,    \* entries[k]: what .cache.json says of k
  loaded,     \* loaded[c]: the entries c is about to write
  there,      \* the install directories that exist
  files,      \* files[k]: the files in them
  put,        \* history: the keys that ever had an entry
  disturbed   \* history: the keys cleared while somebody relied on them

shared == <<lock, entries, there, files, put, disturbed>>
command == <<job, pc, todo, loaded>>
vars == <<storeVars, command, shared>>

Path == {PathOf[k] : k \in Key}
NoEntries == [k \in Key |-> "none"]
Ended == {"ok", "failed", "killed"}

\* Two of the files of an artifact that is downloaded, or built.
Files == [downloaded |-> {"d1", "d2"}, built |-> {"b1", "b2"}, none |-> {}]

Current(c) == Head(todo[c])
JobKeys(c) == {job[c].keys[i] : i \in DOMAIN job[c].keys}
ToDo(c) == {todo[c][i] : i \in DOMAIN todo[c]}
Siblings(k) == {j \in Key : PathOf[j] = PathOf[k]}

Init ==
  /\ job \in Plan
  /\ StoreInit([c \in Client |-> job[c].mods])
  /\ pc = [c \in Client |-> CASE job[c].kind = "make" -> "modules"
                              [] job[c].kind = "install" -> "request"
                              [] OTHER -> "ok"]
  /\ todo = [c \in Client |-> job[c].keys]
  /\ lock = [p \in Path |-> NoClient]
  /\ entries = NoEntries
  /\ loaded = [c \in Client |-> NoEntries]
  /\ there = {}
  /\ files = [k \in Key |-> {}]
  /\ put = {}
  /\ disturbed = {}

At(c, l) == pc[c] = l
To(c, l) == pc' = [pc EXCEPT ![c] = l]

\* The process is gone, and its locks with it.
Exit(c, how) ==
  /\ To(c, how)
  /\ LeaveStore(c)
  /\ lock' = [p \in Path |-> IF lock[p] = c THEN NoClient ELSE lock[p]]
  /\ loaded' = [loaded EXCEPT ![c] = NoEntries]
  /\ UNCHANGED <<job, todo, entries, there, files, put, disturbed>>

\* Killed, at any step.
Kill(c) == pc[c] \notin Ended /\ Exit(c, "killed")

\* Steps that can return an error: the request to llard, a sync, the remote
\* cache, unpacking, the source, OnBuild, opening .cache.json, the output.  A
\* write of .cache.json that fails leaves what Kill leaves there.
MayFail == {"request", "download", "remove", "remote", "clear", "unpack1", "unpack2",
            "source", "hook1", "hook2", "truncate", "end"}

Fail(c) ==
  /\ pc[c] \in MayFail \/ (At(c, "modules") /\ SyncFails(c))
  /\ Exit(c, "failed")

\* On to the next key; after the last, a Build unlocks.
Done(c) == IF job[c].kind = "make" THEN "unlock" ELSE "end"
Proceed(c) ==
  /\ todo' = [todo EXCEPT ![c] = Tail(@)]
  /\ To(c, IF Len(todo[c]) = 1 THEN Done(c) ELSE "look")

\* The result is written, of a make without its locks.
End(c) == At(c, "end") /\ Exit(c, "ok")

\* Clearing k is a disturbance when .cache.json has it, when somebody is
\* about to write that it does, or when another command is working in it or,
\* in the Build or install it is in, is through with it.
Working == {"clear", "unpack1", "unpack2", "hook1", "hook2", "remove", "rename",
            "putDownloaded", "putBuilt", "truncate", "write"}
InJob(d) == pc[d] \notin Ended /\ ~(job[d].kind = "make" /\ At(d, "end"))
ReliedOn(c, k) ==
  \/ entries[k] # "none"
  \/ \E d \in Client \ {c} :
       \/ loaded[d][k] # "none"
       \/ pc[d] \in Working /\ Current(d) = k
       \/ InJob(d) /\ k \in JobKeys(d) \ ToDo(d)

\* os.RemoveAll: the files one by one, then the directory.
RemoveAll(c, step, next) ==
  /\ At(c, step)
  /\ \/ \E f \in files[Current(c)] :
          /\ files' = [files EXCEPT ![Current(c)] = @ \ {f}]
          /\ UNCHANGED <<there, pc>>
     \/ /\ files[Current(c)] = {}
        /\ there' = there \ {Current(c)}
        /\ To(c, next)
        /\ UNCHANGED files
  /\ disturbed' = IF ReliedOn(c, Current(c)) THEN disturbed \cup {Current(c)}
                                             ELSE disturbed
  /\ UNCHANGED <<storeVars, job, todo, loaded, lock, entries, put>>

-----------------------------------------------------------------------------
(* llar make: the formulas, the locks, then key by key the local cache, the *)
(* published artifact, or a build from source.                              *)

SyncModules(c) == At(c, "modules") /\ Syncs(c) /\ UNCHANGED <<command, shared>>

\* Variant: the locks are not taken.
LockGraph_None(c) ==
  /\ At(c, "modules") /\ wants[c] = <<>>
  /\ To(c, "look")
  /\ UNCHANGED <<storeVars, job, todo, loaded, shared>>

LockGraph(c) ==
  /\ At(c, "modules") /\ wants[c] = <<>>
  /\ \A k \in JobKeys(c) : lock[PathOf[k]] = NoClient
  /\ lock' = [p \in Path |-> IF \E k \in JobKeys(c) : PathOf[k] = p THEN c ELSE lock[p]]
  /\ To(c, "look")
  /\ UNCHANGED <<storeVars, job, todo, loaded, entries, there, files, put, disturbed>>

\* Build returns.
Unlock(c) ==
  /\ At(c, "unlock")
  /\ lock' = [p \in Path |-> IF lock[p] = c THEN NoClient ELSE lock[p]]
  /\ To(c, "end")
  /\ UNCHANGED <<storeVars, job, todo, loaded, entries, there, files, put, disturbed>>

\* Both commands: localCache.Get.  What cannot be read is a miss.
LookHit(c) ==
  /\ At(c, "look") /\ entries[Current(c)] # "none"
  /\ Proceed(c)
  /\ UNCHANGED <<storeVars, job, loaded, shared>>

LookMiss(c) ==
  /\ At(c, "look") /\ entries[Current(c)] = "none"
  /\ To(c, IF job[c].kind = "make" THEN "remote" ELSE "download")
  /\ UNCHANGED <<storeVars, job, todo, loaded, shared>>

\* kodoCache.getPublic: nothing published, or the archive is fetched.
NotPublished(c) ==
  /\ At(c, "remote")
  /\ To(c, "source")
  /\ UNCHANGED <<storeVars, job, todo, loaded, shared>>

Published(c) ==
  /\ At(c, "remote")
  /\ To(c, "clear")
  /\ UNCHANGED <<storeVars, job, todo, loaded, shared>>

\* The directory is made again with the first file that is unpacked.
Clear(c) == RemoveAll(c, "clear", "unpack1")

\* The source is synced into a directory of its own.
PrepareSource(c) ==
  /\ At(c, "source")
  /\ there' = there \cup {Current(c)}
  /\ To(c, "hook1")
  /\ UNCHANGED <<storeVars, job, todo, loaded, lock, entries, files, put, disturbed>>

Writes(c, step, file, next) ==
  /\ At(c, step)
  /\ files' = [files EXCEPT ![Current(c)] = @ \cup {file}]
  /\ there' = there \cup {Current(c)}
  /\ To(c, next)
  /\ UNCHANGED <<storeVars, job, todo, loaded, lock, entries, put, disturbed>>

\* Variant: what could not be unpacked is taken for the whole.
Unpack_IgnoreError(c) ==
  \/ Writes(c, "unpack1", "d1", "unpack2") \/ Writes(c, "unpack1", "d1", "putDownloaded")
  \/ Writes(c, "unpack2", "d2", "putDownloaded")

Unpack(c) ==
  \/ Writes(c, "unpack1", "d1", "unpack2")
  \/ Writes(c, "unpack2", "d2", "putDownloaded")

OnBuild(c) ==
  \/ Writes(c, "hook1", "b1", "hook2")
  \/ Writes(c, "hook2", "b2", "putBuilt")

-----------------------------------------------------------------------------
(* llar install: key by key as llard lists them, root last.                 *)

\* llard answers without an error message.
Answered(c) ==
  /\ At(c, "request")
  /\ To(c, "look")
  /\ UNCHANGED <<storeVars, job, todo, loaded, shared>>

\* Downloaded and unpacked into a staging directory of the command's own.
Stage(c) ==
  /\ At(c, "download")
  /\ To(c, "remove")
  /\ UNCHANGED <<storeVars, job, todo, loaded, shared>>

Remove(c) == RemoveAll(c, "remove", "rename")

\* Variant: the archive is unpacked in place, without staging.
Rename_InPlace(c) ==
  /\ At(c, "rename")
  /\ \E part \in {"d1", "d2"} :
       /\ part \notin files[Current(c)]
       /\ files' = [files EXCEPT ![Current(c)] = @ \cup {part}]
       /\ To(c, IF files[Current(c)] = {} THEN "rename" ELSE "putDownloaded")
  /\ there' = there \cup {Current(c)}
  /\ UNCHANGED <<storeVars, job, todo, loaded, lock, entries, put, disturbed>>

\* os.Rename never replaces a directory.
Rename(c) ==
  /\ At(c, "rename") /\ Current(c) \notin there
  /\ there' = there \cup {Current(c)}
  /\ files' = [files EXCEPT ![Current(c)] = Files.downloaded]
  /\ To(c, "putDownloaded")
  /\ UNCHANGED <<storeVars, job, todo, loaded, lock, entries, put, disturbed>>

RenameFails(c) ==
  /\ At(c, "rename") /\ Current(c) \in there
  /\ Exit(c, "failed")

-----------------------------------------------------------------------------
(* localCache.Put of both commands: the file is read, then written anew.    *)

\* Variant: the entries that the file has are not read first.
Load_Nothing(c) ==
  /\ pc[c] \in {"putDownloaded", "putBuilt"}
  /\ loaded' = [loaded EXCEPT ![c][Current(c)] =
                  IF At(c, "putBuilt") THEN "built" ELSE "downloaded"]
  /\ To(c, "truncate")
  /\ UNCHANGED <<storeVars, job, todo, shared>>

Load(c) ==
  /\ pc[c] \in {"putDownloaded", "putBuilt"}
  /\ loaded' = [loaded EXCEPT ![c] =
       [k \in Key |-> CASE k = Current(c) -> IF At(c, "putBuilt") THEN "built" ELSE "downloaded"
                        [] PathOf[k] # PathOf[Current(c)] -> "none"
                        [] OTHER -> entries[k]]]
  /\ To(c, "truncate")
  /\ UNCHANGED <<storeVars, job, todo, shared>>

Truncate(c) ==
  /\ At(c, "truncate")
  /\ entries' = [k \in Key |-> IF k \in Siblings(Current(c)) THEN "none" ELSE entries[k]]
  /\ To(c, "write")
  /\ UNCHANGED <<storeVars, job, todo, loaded, lock, there, files, put, disturbed>>

\* Where another command has written since the truncation, what is written
\* over it may be the shorter of the two, and the file is no JSON any more.
Torn(c) ==
  /\ \E k \in Siblings(Current(c)) : entries[k] # "none"
  /\ entries' = [k \in Key |-> IF k \in Siblings(Current(c)) THEN "none" ELSE entries[k]]
  /\ put' = put

Written(c) ==
  /\ entries' = [k \in Key |-> IF k \in Siblings(Current(c)) THEN loaded[c][k] ELSE entries[k]]
  /\ put' = put \cup {Current(c)}

Write(c) ==
  /\ At(c, "write")
  /\ Written(c) \/ Torn(c)
  /\ loaded' = [loaded EXCEPT ![c] = NoEntries]
  /\ Proceed(c)
  /\ UNCHANGED <<storeVars, job, lock, there, files, disturbed>>

-----------------------------------------------------------------------------
Step(c) ==
  \/ Fail(c) \/ End(c) \/ SyncModules(c) \/ LockGraph(c) \/ Unlock(c)
  \/ LookHit(c) \/ LookMiss(c) \/ NotPublished(c) \/ Published(c) \/ Clear(c) \/ Unpack(c)
  \/ PrepareSource(c) \/ OnBuild(c)
  \/ Answered(c) \/ Stage(c) \/ Remove(c) \/ Rename(c) \/ RenameFails(c)
  \/ Load(c) \/ Truncate(c) \/ Write(c)

Pushed == Push /\ UNCHANGED <<command, shared>>

AllEnded == (\A c \in Client : pc[c] \in Ended) /\ UNCHANGED vars

Next == (\E c \in Client : Step(c) \/ Kill(c)) \/ Pushed \/ AllEnded

\* A process that is not waiting runs on, or is killed; a hook or a transfer
\* that hangs forever is not considered.  Every behaviour is finite, so
\* fairness to all of the processes together is enough.
Fairness == WF_vars(\E c \in Client : Step(c))

Spec == Init /\ [][Next]_vars /\ Fairness

-----------------------------------------------------------------------------
Installs(c) == job[c].kind = "install"
Whole(k, kind) == Files[kind] \subseteq files[k]

\* What .cache.json says is there is there and complete, wherever commands
\* failed or were killed - unless a command cleared the directory while
\* somebody relied on it.
EntryIsBacked ==
  \A k \in Key : entries[k] # "none" => k \in disturbed \/ Whole(k, entries[k])

\* That takes an install that rewrites the .cache.json the entry is in, of
\* that very key or of another version: makes never disturb each other
\* ("instead of observing a replaced install tree", build.go:390).
MakesAreExclusive ==
  \A k \in disturbed : \E c \in Client : Installs(c) /\ JobKeys(c) \cap Siblings(k) # {}

\* An install is about, or a command was killed, that rewrites the
\* .cache.json which has k.
Unsettled(k) ==
  \E c \in Client : JobKeys(c) \cap Siblings(k) # {} /\ (Installs(c) \/ At(c, "killed"))

\* An entry, once put, is not lost to the entries that others put in the
\* same .cache.json, as long as the locks are used (makes, not installs) and
\* nobody is killed who may be writing that file.
LocksKeepEntries ==
  \A k \in put :
    \/ entries[k] # "none"
    \/ \E c \in Client : At(c, "write") /\ loaded[c][k] # "none"
    \/ Unsettled(k)

\* When a Build returns or an install has its last artifact, every key of
\* the job has a complete directory, as root or as dependency, unless it was
\* disturbed.  When success is then reported that is still so - of a make,
\* which holds no locks while it writes its result, unless an install was
\* about or a command was killed, so that another make may have missed an
\* entry and built the key again.
Usable(k) == k \in disturbed \/ Whole(k, "downloaded") \/ Whole(k, "built")

SuccessIsUsable ==
  [][\A c \in Client : \A k \in JobKeys(c) :
       /\ ~At(c, "end") /\ pc'[c] = "end" => Usable(k)
       /\ ~At(c, "ok") /\ pc'[c] = "ok" =>
            Usable(k) \/ (job[c].kind = "make" /\ Unsettled(k))]_vars

\* A directory that only installs write is complete from the moment it is
\* there, for whoever looks, until an install removes it; what is left of
\* one stays only where an install was stopped at that key.
InstallIsWhole ==
  \A k \in there :
    \/ files[k] = Files.downloaded
    \/ \E c \in Client : k \in JobKeys(c) /\ ~Installs(c)
    \/ \E c \in Client : /\ Installs(c) /\ todo[c] # <<>> /\ Current(c) = k
                         /\ pc[c] \in {"remove", "failed", "killed"}

\* No command waits forever for a lock, of a module or of the store.
EveryCommandEnds == \A c \in Client : <>(pc[c] \in Ended)

=============================================================================
