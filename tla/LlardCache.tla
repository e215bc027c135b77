----------------------------- MODULE LlardCache -----------------------------
(***************************************************************************)
(* The artifact of one module, version and matrix as the llard build       *)
(* servers see it: the object and its record in Kodo, which they share,    *)
(* and the .cache.json entry and install directory in the workspace of     *)
(* each.  Models readThroughCache (src/cmd/llard/main.go) over kodoCache   *)
(* (src/internal/build/cache/kodo.go), kodoArtifact                        *)
(* (src/internal/artifact/kodo.go) and localCache.                         *)
(*                                                                         *)
(* A server handles the module under its lock (GraphBuild), so it is at    *)
(* one request at a time; requests come again and again.                   *)
(***************************************************************************)
EXTENDS Naturals, FiniteSets

CONSTANTS
  Server,    \* the llard processes, each with a workspace of its own
  Content,   \* what OnBuild can produce: builds need not be reproducible
  Partial,   \* the files of an OnBuild or Unpack that did not finish
  None       \* no object, no record, no entry

ASSUME ContentAssumption ==
  /\ Partial \notin Content
  /\ None \notin Content

VARIABLES
  object,    \* the Kodo object: its archive and the record in its metadata
  deleted,   \* whether the object was ever deleted
  pc,        \* pc[s]: the call that s makes next
  asking,    \* asking[s]: whether that is for Cache.Get or for Cache.Put
  stat,      \* stat[s]: the checksum in the record that s looked up
  entry,     \* entry[s]: the cache entry in hand
  source,    \* source[s]: where that entry is from
  local,     \* local[s]: the entry in .cache.json
  tree       \* tree[s]: whose files are in the install directory

request == <<pc, asking, stat, entry, source>>
vars == <<object, deleted, request, local, tree>>

Tree == SUBSET (Content \cup {Partial})

\* A packed install directory with its metadata; the checksum of an archive
\* is represented by the archive itself.
Archive == [files : Tree, entry : Content]

Object == [archive : Archive, record : Archive \cup {None}]

ASSUME NoneAssumption == None \notin Archive /\ None \notin Object

\* kodoArtifact.Get: an object without metadata has no record either.
Recorded == object # None /\ object.record # None

TypeOK ==
  /\ object \in Object \cup {None}
  /\ deleted \in BOOLEAN
  /\ pc \in [Server -> {"idle", "stat", "restore", "localPut", "onBuild",
                        "upload", "record", "done"}]
  /\ asking \in [Server -> {"get", "put"}]
  /\ stat \in [Server -> Archive \cup {None}]
  /\ entry \in [Server -> Content \cup {None}]
  /\ source \in [Server -> {"none", "local", "remote", "built"}]
  /\ local \in [Server -> Content \cup {None}]
  /\ tree \in [Server -> Tree]

Init ==
  /\ object = None
  /\ deleted = FALSE
  /\ pc = [s \in Server |-> "idle"]
  /\ asking = [s \in Server |-> "get"]
  /\ stat = [s \in Server |-> None]
  /\ entry = [s \in Server |-> None]
  /\ source = [s \in Server |-> "none"]
  /\ local = [s \in Server |-> None]
  /\ tree = [s \in Server |-> {}]

Goto(s, step) == pc' = [pc EXCEPT ![s] = step]

\* The request is answered or given up; nothing of it is kept in memory.
End(s) ==
  /\ Goto(s, "idle")
  /\ asking' = [asking EXCEPT ![s] = "get"]
  /\ stat' = [stat EXCEPT ![s] = None]
  /\ entry' = [entry EXCEPT ![s] = None]
  /\ source' = [source EXCEPT ![s] = "none"]

-----------------------------------------------------------------------------
(* readThroughCache.Get.                                                    *)

\* Variant: the install directory is not removed before the rebuild.
GateMiss_KeepTree(s) ==
  /\ pc[s] = "idle" /\ ~Recorded
  /\ Goto(s, "onBuild")
  /\ UNCHANGED <<object, deleted, asking, stat, entry, source, local, tree>>

\* No record: the install directory is removed, the entry is left.
GateMiss(s) ==
  /\ pc[s] = "idle" /\ ~Recorded
  /\ tree' = [tree EXCEPT ![s] = {}]
  /\ Goto(s, "onBuild")
  /\ UNCHANGED <<object, deleted, asking, stat, entry, source, local>>

\* A record, and an entry in .cache.json.
LocalHit(s) ==
  /\ pc[s] = "idle" /\ Recorded /\ local[s] # None
  /\ entry' = [entry EXCEPT ![s] = local[s]]
  /\ source' = [source EXCEPT ![s] = "local"]
  /\ Goto(s, "done")
  /\ UNCHANGED <<object, deleted, asking, stat, local, tree>>

LocalMiss(s) ==
  /\ pc[s] = "idle" /\ Recorded /\ local[s] = None
  /\ Goto(s, "stat")
  /\ UNCHANGED <<object, deleted, asking, stat, entry, source, local, tree>>

-----------------------------------------------------------------------------
(* kodoCache.Get, called by readThroughCache.Get, and by kodoCache.Put when *)
(* the object exists already.                                               *)

StatFound(s) ==
  /\ pc[s] = "stat" /\ Recorded
  /\ stat' = [stat EXCEPT ![s] = object.record]
  /\ Goto(s, "restore")
  /\ UNCHANGED <<object, deleted, asking, entry, source, local, tree>>

\* A miss for Get, which leads to OnBuild; an error for Put.
StatMissing(s) ==
  /\ pc[s] = "stat" /\ ~Recorded
  /\ \/ /\ asking[s] = "get" /\ Goto(s, "onBuild")
        /\ UNCHANGED <<asking, stat, entry, source>>
     \/ asking[s] = "put" /\ End(s)
  /\ UNCHANGED <<object, deleted, local, tree>>

\* Variant: the checksum of the download is not compared.
Restore_Unchecked(s) ==
  /\ pc[s] = "restore" /\ object # None
  /\ tree' = [tree EXCEPT ![s] = object.archive.files]
  /\ entry' = [entry EXCEPT ![s] = object.archive.entry]
  /\ source' = [source EXCEPT ![s] = "remote"]
  /\ Goto(s, "localPut")
  /\ UNCHANGED <<object, deleted, asking, stat, local>>

\* The download has the recorded checksum: it replaces the directory.
Restore(s) ==
  /\ pc[s] = "restore" /\ object # None /\ object.archive = stat[s]
  /\ tree' = [tree EXCEPT ![s] = object.archive.files]
  /\ entry' = [entry EXCEPT ![s] = object.archive.entry]
  /\ source' = [source EXCEPT ![s] = "remote"]
  /\ Goto(s, "localPut")
  /\ UNCHANGED <<object, deleted, asking, stat, local>>

-----------------------------------------------------------------------------
(* OnBuild and readThroughCache.Put.                                        *)

\* OnBuild adds its files to whatever the directory has.
OnBuild(s) ==
  /\ pc[s] = "onBuild"
  /\ \E c \in Content :
       /\ tree' = [tree EXCEPT ![s] = @ \cup {c}]
       /\ entry' = [entry EXCEPT ![s] = c]
  /\ source' = [source EXCEPT ![s] = "built"]
  /\ asking' = [asking EXCEPT ![s] = "put"]
  /\ Goto(s, "upload")
  /\ UNCHANGED <<object, deleted, stat, local>>

\* The directory of s packed with its entry.
Packed(s) == [files |-> tree[s], entry |-> entry[s]]

Uploaded(s) == [archive |-> Packed(s), record |-> None]

\* Variant: the upload token is not insert-only.
Upload_Overwrites(s) ==
  /\ pc[s] = "upload"
  /\ object' = Uploaded(s)
  /\ Goto(s, "record")
  /\ UNCHANGED <<deleted, asking, stat, entry, source, local, tree>>

Upload(s) ==
  /\ pc[s] = "upload" /\ object = None
  /\ object' = Uploaded(s)
  /\ Goto(s, "record")
  /\ UNCHANGED <<deleted, asking, stat, entry, source, local, tree>>

\* Error 614, the object exists: fetch that one instead.
UploadRefused(s) ==
  /\ pc[s] = "upload" /\ object # None
  /\ Goto(s, "stat")
  /\ UNCHANGED <<object, deleted, asking, stat, entry, source, local, tree>>

\* kodoArtifact.Put sets the metadata of the object of that name.
Record(s) ==
  /\ pc[s] = "record" /\ object # None
  /\ object' = [object EXCEPT !.record = Packed(s)]
  /\ Goto(s, "localPut")
  /\ UNCHANGED <<deleted, asking, stat, entry, source, local, tree>>

\* localCache.Put, the last step of a remote hit and of a Put.
LocalPut(s) ==
  /\ pc[s] = "localPut"
  /\ local' = [local EXCEPT ![s] = entry[s]]
  /\ Goto(s, "done")
  /\ UNCHANGED <<object, deleted, asking, stat, entry, source, tree>>

\* An error writing .cache.json, which may be left truncated, fails a Get
\* but not a Put.
LocalPutFails(s) ==
  /\ pc[s] = "localPut"
  /\ local' \in {local, [local EXCEPT ![s] = None]}
  /\ \/ asking[s] = "get" /\ End(s)
     \/ /\ asking[s] = "put" /\ Goto(s, "done")
        /\ UNCHANGED <<asking, stat, entry, source>>
  /\ UNCHANGED <<object, deleted, tree>>

Answer(s) ==
  /\ pc[s] = "done"
  /\ End(s)
  /\ UNCHANGED <<object, deleted, local, tree>>

-----------------------------------------------------------------------------
(* Where a request can stop half-way: an error of the step is returned, or  *)
(* the server dies and another one is started on the workspace.             *)

\* While RemoveAll empties the directory.
GateStops(s) ==
  /\ pc[s] = "idle" /\ ~Recorded /\ tree[s] # {}
  /\ tree' = [tree EXCEPT ![s] = {Partial}]
  /\ UNCHANGED <<object, deleted, request, local>>

StatStops(s) ==
  /\ pc[s] = "stat"
  /\ End(s)
  /\ UNCHANGED <<object, deleted, local, tree>>

\* No object, a checksum that differs, or RemoveAll, MkdirAll or Unpack.
RestoreStops(s) ==
  /\ pc[s] = "restore"
  /\ \/ UNCHANGED tree
     \/ /\ object # None /\ object.archive = stat[s]
        /\ tree' \in {[tree EXCEPT ![s] = {}], [tree EXCEPT ![s] = {Partial}]}
  /\ End(s)
  /\ UNCHANGED <<object, deleted, local>>

OnBuildStops(s) ==
  /\ pc[s] = "onBuild"
  /\ tree' \in {tree, [tree EXCEPT ![s] = @ \cup {Partial}]}
  /\ End(s)
  /\ UNCHANGED <<object, deleted, local>>

\* Before the upload, or after it when the reply is lost.
UploadStops(s) ==
  /\ pc[s] = "upload"
  /\ \/ UNCHANGED object
     \/ object = None /\ object' = Uploaded(s)
  /\ End(s)
  /\ UNCHANGED <<deleted, local, tree>>

RecordStops(s) ==
  /\ pc[s] = "record"
  /\ \/ UNCHANGED object
     \/ object # None /\ object' = [object EXCEPT !.record = Packed(s)]
  /\ End(s)
  /\ UNCHANGED <<deleted, local, tree>>

\* The server dies while it writes .cache.json, or just before.
LocalPutStops(s) ==
  /\ pc[s] = "localPut"
  /\ local' \in {local, [local EXCEPT ![s] = None]}
  /\ End(s)
  /\ UNCHANGED <<object, deleted, tree>>

Stops(s) ==
  \/ GateStops(s) \/ StatStops(s) \/ RestoreStops(s) \/ OnBuildStops(s)
  \/ UploadStops(s) \/ RecordStops(s) \/ LocalPutStops(s)

-----------------------------------------------------------------------------
\* An operator deletes the artifact; the metadata goes with the object.
Delete ==
  /\ object # None
  /\ object' = None
  /\ deleted' = TRUE
  /\ UNCHANGED <<request, local, tree>>

\* An install directory is cleared from an idle workspace, with or without
\* the .cache.json beside it.
Evict(s) ==
  /\ pc[s] = "idle"
  /\ tree' = [tree EXCEPT ![s] = {}]
  /\ local' \in {local, [local EXCEPT ![s] = None]}
  /\ UNCHANGED <<object, deleted, request>>

Serve(s) ==
  \/ GateMiss(s) \/ LocalHit(s) \/ LocalMiss(s)
  \/ StatFound(s) \/ StatMissing(s) \/ Restore(s)
  \/ OnBuild(s) \/ Upload(s) \/ UploadRefused(s) \/ Record(s)
  \/ LocalPut(s) \/ LocalPutFails(s) \/ Answer(s)

Next == Delete \/ \E s \in Server : Serve(s) \/ Stops(s) \/ Evict(s)

Spec == Init /\ [][Next]_vars

-----------------------------------------------------------------------------
(* Properties. *)

\* What a server answers from the remote store is the archive whose record
\* it looked up, files and metadata both, although the object can be deleted
\* and published anew between the lookup and the download.
RestoredIsRecorded ==
  \A s \in Server : pc[s] \in {"localPut", "done"} /\ source[s] = "remote" =>
    [files |-> tree[s], entry |-> entry[s]] = stat[s]

\* Until an artifact is deleted there is one of it: all servers answer with
\* the same, whoever built and whoever lost the race to publish.
OneArtifact ==
  ~deleted =>
    \A s, t \in Server : pc[s] = "done" /\ pc[t] = "done" => entry[s] = entry[t]

\* Until then, what an answer points at is exactly the files of the build
\* that its metadata is from, unless the directory was evicted: nothing of a
\* failed build, a cut-off download or a lost race is mixed in.
CompleteUnlessDeleted ==
  ~deleted =>
    \A s \in Server : pc[s] = "done" =>
      \/ tree[s] = {entry[s]}
      \/ source[s] = "local" /\ tree[s] = {}

\* "The remote artifact record is the source of truth, so a deleted record
\* invalidates any local copy": a local hit is the artifact of the record.
DeletedInvalidates ==
  \A s \in Server : pc[s] = "done" /\ source[s] = "local" /\ Recorded =>
    entry[s] = object.record.entry

\* "A rebuild must start clean": OnBuild finds an empty install directory.
CleanRebuild == \A s \in Server : pc[s] = "onBuild" => tree[s] = {}

\* After a Put that was refused because the object exists, the next Get
\* "must restore the canonical artifact": it has, or soon gets, its record.
RefusedMeansPublished ==
  \A s \in Server :
    pc[s] = "stat" /\ asking[s] = "put" /\ object # None =>
      Recorded \/ \E t \in Server : pc[t] = "record"
=============================================================================
