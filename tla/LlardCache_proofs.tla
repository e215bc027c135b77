-------------------------- MODULE LlardCache_proofs --------------------------
(***************************************************************************)
(* Theorems about LlardCache for any number of servers and any results of  *)
(* builds.                                                                 *)
(***************************************************************************)
EXTENDS LlardCache, TLAPS

-----------------------------------------------------------------------------
(* The parts of the inductive invariant.                                    *)

\* An entry restored from the remote store goes with the directory and the
\* checksum it was restored under.
FromRemote(s) ==
  source[s] = "remote" =>
    pc[s] \in {"localPut", "done"} /\ Packed(s) = stat[s]

RemoteInv == \A s \in Server : FromRemote(s)

\* What the object is, as long as it has never been deleted: the files and
\* the metadata of one build, with its own record or none yet.
ObjectWhole ==
  object # None =>
    /\ object.archive.files = {object.archive.entry}
    /\ object.record \in {None, object.archive}

\* The checksum that s looked up, and the entry that it has or is about to
\* have, are those of the object.
Canonical(s) ==
  /\ stat[s] # None => Recorded /\ stat[s] = object.archive
  /\ pc[s] \in {"record", "localPut", "done"} =>
       object # None /\ entry[s] = object.archive.entry
  /\ pc[s] \in {"localPut", "done"} => Recorded
  /\ pc[s] = "stat" /\ asking[s] = "get" => Recorded
  /\ pc[s] \in {"upload", "record"} => asking[s] = "put"
  /\ local[s] # None => Recorded /\ local[s] = object.archive.entry

\* The install directory of s: empty for OnBuild, then what it built, and
\* what is restored; evicted at most when .cache.json answers for it.
Directory(s) ==
  /\ pc[s] = "onBuild" => tree[s] = {}
  /\ pc[s] \in {"upload", "record", "localPut"} => tree[s] = {entry[s]}
  /\ pc[s] = "done" =>
       \/ tree[s] = {entry[s]}
       \/ source[s] = "local" /\ tree[s] = {}
  /\ pc[s] = "idle" /\ local[s] # None => tree[s] \in {{}, {local[s]}}
  /\ pc[s] \notin {"idle", "done"} => local[s] = None

ArtifactInv ==
  ~deleted => ObjectWhole /\ \A s \in Server : Canonical(s) /\ Directory(s)

-----------------------------------------------------------------------------
(* Types. *)

Acts(s) == Serve(s) \/ Stops(s) \/ Evict(s)

LEMMA PackedType ==
  ASSUME TypeOK, NEW s \in Server, entry[s] \in Content
  PROVE  Packed(s) \in Archive /\ Uploaded(s) \in Object
BY DEF TypeOK, Packed, Uploaded, Archive, Object

\* Who uploads or records has an entry in hand.
EntryInHand ==
  \A s \in Server :
    /\ pc[s] \in {"upload", "record", "localPut", "done"} => entry[s] \in Content
    /\ pc[s] = "restore" => stat[s] \in Archive

TypeInv == TypeOK /\ EntryInHand

LEMMA InitTypeInv == Init => TypeInv
BY DEF Init, TypeInv, TypeOK, EntryInHand, Tree

LEMMA ActsTypeInv ==
  ASSUME TypeInv, NEW s \in Server, Acts(s)
  PROVE  TypeInv'
<1> USE NoneAssumption DEF TypeInv, TypeOK, EntryInHand, Tree, Goto, End
<1>1. object # None => object.archive \in Archive /\ object.record \in Archive \cup {None}
  BY DEF Object
<1>2. \A a \in Archive : a.files \in SUBSET (Content \cup {Partial}) /\ a.entry \in Content
  BY DEF Archive
<1>3. entry[s] \in Content => Packed(s) \in Archive /\ Uploaded(s) \in Object
  BY PackedType
<1>4. \A a \in Archive : object # None => [object EXCEPT !.record = a] \in Object
  BY DEF Object
<1>5. CASE GateMiss(s) \/ LocalHit(s) \/ LocalMiss(s)
  BY <1>5 DEF GateMiss, LocalHit, LocalMiss
<1>6. CASE StatFound(s) \/ StatMissing(s)
  BY <1>1, <1>6 DEF StatFound, StatMissing, Recorded
<1>7. CASE Restore(s)
  BY <1>1, <1>2, <1>7 DEF Restore
<1>8. CASE OnBuild(s)
  BY <1>8 DEF OnBuild
<1>9. CASE Upload(s) \/ UploadRefused(s) \/ UploadStops(s)
  BY <1>3, <1>9 DEF Upload, UploadRefused, UploadStops
<1>10. CASE Record(s) \/ RecordStops(s)
  BY <1>3, <1>4, <1>10 DEF Record, RecordStops
<1>11. CASE LocalPut(s) \/ LocalPutFails(s) \/ LocalPutStops(s)
  BY <1>11 DEF LocalPut, LocalPutFails, LocalPutStops
<1>12. CASE Answer(s) \/ StatStops(s)
  BY <1>12 DEF Answer, StatStops
<1>13. CASE GateStops(s) \/ Evict(s)
  BY <1>13 DEF GateStops, Evict, request
<1>14. CASE RestoreStops(s) \/ OnBuildStops(s)
  BY <1>14 DEF RestoreStops, OnBuildStops
<1>15. QED
  BY <1>5, <1>6, <1>7, <1>8, <1>9, <1>10, <1>11, <1>12, <1>13, <1>14
     DEF Acts, Serve, Stops

LEMMA OthersSame ==
  ASSUME TypeInv, NEW s \in Server, Acts(s), NEW t \in Server, t # s
  PROVE  /\ pc'[t] = pc[t] /\ asking'[t] = asking[t] /\ stat'[t] = stat[t]
         /\ entry'[t] = entry[t] /\ source'[t] = source[t]
         /\ local'[t] = local[t] /\ tree'[t] = tree[t]
<1> USE DEF TypeInv, TypeOK, Goto, End
<1>1. CASE GateMiss(s) \/ LocalHit(s) \/ LocalMiss(s)
  BY <1>1 DEF GateMiss, LocalHit, LocalMiss
<1>2. CASE StatFound(s) \/ StatMissing(s) \/ Restore(s)
  BY <1>2 DEF StatFound, StatMissing, Restore
<1>3. CASE OnBuild(s) \/ Upload(s) \/ UploadRefused(s) \/ Record(s)
  BY <1>3 DEF OnBuild, Upload, UploadRefused, Record
<1>4. CASE LocalPut(s) \/ LocalPutFails(s) \/ Answer(s)
  BY <1>4 DEF LocalPut, LocalPutFails, Answer
<1>5. CASE GateStops(s) \/ Evict(s)
  BY <1>5 DEF GateStops, Evict, request
<1>6. CASE StatStops(s) \/ RestoreStops(s) \/ OnBuildStops(s)
  BY <1>6 DEF StatStops, RestoreStops, OnBuildStops
<1>7. CASE UploadStops(s) \/ RecordStops(s) \/ LocalPutStops(s)
  BY <1>7 DEF UploadStops, RecordStops, LocalPutStops
<1>8. QED
  BY <1>1, <1>2, <1>3, <1>4, <1>5, <1>6, <1>7 DEF Acts, Serve, Stops

-----------------------------------------------------------------------------
(* What is restored. *)

LEMMA ActsRemoteInv ==
  ASSUME TypeInv, RemoteInv, NEW s \in Server, Acts(s)
  PROVE  RemoteInv'
<1> USE DEF TypeInv, TypeOK, Goto, End, FromRemote, Packed
<1>1. ASSUME NEW t \in Server, t # s
      PROVE  FromRemote(t)'
  BY <1>1, OthersSame DEF RemoteInv
<1>2. FromRemote(s)'
  <2> USE DEF RemoteInv
  <2>1. CASE GateMiss(s) \/ LocalHit(s) \/ LocalMiss(s)
    BY <2>1 DEF GateMiss, LocalHit, LocalMiss
  <2>2. CASE StatFound(s) \/ StatMissing(s)
    BY <2>2 DEF StatFound, StatMissing
  <2>3. CASE Restore(s)
    <3>1. object.archive = [files |-> object.archive.files,
                            entry |-> object.archive.entry]
      BY <2>3 DEF Restore, Object, Archive
    <3>2. QED
      BY <2>3, <3>1 DEF Restore
  <2>4. CASE OnBuild(s) \/ Upload(s) \/ UploadRefused(s) \/ Record(s)
    BY <2>4 DEF OnBuild, Upload, UploadRefused, Record
  <2>5. CASE LocalPut(s) \/ LocalPutFails(s) \/ Answer(s)
    BY <2>5 DEF LocalPut, LocalPutFails, Answer
  <2>6. CASE GateStops(s) \/ Evict(s)
    BY <2>6 DEF GateStops, Evict, request
  <2>7. CASE StatStops(s) \/ RestoreStops(s) \/ OnBuildStops(s)
    BY <2>7 DEF StatStops, RestoreStops, OnBuildStops
  <2>8. CASE UploadStops(s) \/ RecordStops(s) \/ LocalPutStops(s)
    BY <2>8 DEF UploadStops, RecordStops, LocalPutStops
  <2>9. QED
    BY <2>1, <2>2, <2>3, <2>4, <2>5, <2>6, <2>7, <2>8 DEF Acts, Serve, Stops
<1>3. QED
  BY <1>1, <1>2 DEF RemoteInv

-----------------------------------------------------------------------------
(* The one object, while it has never been deleted. *)

\* The two ways in which a server changes the object: the upload, for which
\* there must be none, and the record.
LEMMA ObjectSteps ==
  ASSUME TypeInv, NEW s \in Server, Acts(s)
  PROVE  /\ deleted' = deleted
         /\ \/ object' = object
            \/ /\ pc[s] = "upload" /\ object = None
               /\ object' = Uploaded(s)
            \/ /\ pc[s] = "record" /\ object # None
               /\ object' = [object EXCEPT !.record = Packed(s)]
BY DEF Acts, Serve, Stops, GateMiss, LocalHit, LocalMiss, StatFound, StatMissing,
       Restore, OnBuild, Upload, UploadRefused, Record, LocalPut, LocalPutFails,
       Answer, GateStops, StatStops, RestoreStops, OnBuildStops, UploadStops,
       RecordStops, LocalPutStops, Evict

\* The object stays whole, keeps its archive, and once recorded stays so.
LEMMA ObjectInv ==
  ASSUME TypeInv, ArtifactInv, ~deleted, NEW s \in Server, Acts(s)
  PROVE  /\ ObjectWhole'
         /\ object # None => object' # None /\ object'.archive = object.archive
         /\ Recorded => Recorded'
<1> USE NoneAssumption DEF TypeInv, TypeOK, ArtifactInv, ObjectWhole, Recorded
<1>1. CASE object' = object
  BY <1>1
<1>2. CASE /\ pc[s] = "upload" /\ object = None
           /\ object' = Uploaded(s)
  BY <1>2 DEF Directory, Uploaded, Packed
<1>3. CASE /\ pc[s] = "record" /\ object # None
           /\ object' = [object EXCEPT !.record = Packed(s)]
  <2>1. object \in Object
    BY <1>3
  <2>2. object' = [archive |-> object.archive, record |-> Packed(s)]
    BY <1>3, <2>1 DEF Object
  <2>3. object.archive = [files |-> object.archive.files,
                          entry |-> object.archive.entry]
    BY <2>1 DEF Object, Archive
  <2>4. Packed(s) = object.archive
    BY <1>3, <2>3 DEF Canonical, Directory, Packed
  <2>5. object' \in Object /\ object.archive \in Archive
    BY <2>1, <2>2, <2>4 DEF Object
  <2>6. QED
    BY <1>3, <2>2, <2>4, <2>5
<1>4. QED
  BY <1>1, <1>2, <1>3, ObjectSteps

LEMMA OtherServer ==
  ASSUME TypeInv, ArtifactInv, ~deleted, NEW s \in Server, Acts(s),
         NEW t \in Server, t # s
  PROVE  Canonical(t)' /\ Directory(t)'
<1>1. Canonical(t) /\ Directory(t)
  BY DEF ArtifactInv
<1>2. Directory(t)'
  BY <1>1, OthersSame DEF Directory
<1>3. /\ object # None => object' # None /\ object'.archive = object.archive
      /\ Recorded => Recorded'
  BY ObjectInv
<1>4. /\ pc'[t] = pc[t] /\ asking'[t] = asking[t] /\ stat'[t] = stat[t]
      /\ entry'[t] = entry[t] /\ local'[t] = local[t]
  BY OthersSame
<1>5. Canonical(t)'
  BY <1>1, <1>3, <1>4 DEF Canonical, Recorded
<1>6. QED
  BY <1>2, <1>5

LEMMA OwnServer ==
  ASSUME TypeInv, ArtifactInv, ~deleted, NEW s \in Server, Acts(s)
  PROVE  Canonical(s)' /\ Directory(s)'
<1> USE NoneAssumption, ContentAssumption
    DEF TypeInv, TypeOK, EntryInHand, Goto, End, Canonical, Directory, Recorded
<1>1. Canonical(s) /\ Directory(s) /\ ObjectWhole
  BY DEF ArtifactInv
<1>2. CASE GateMiss(s) \/ GateStops(s)
  BY <1>1, <1>2 DEF GateMiss, GateStops, request
<1>3. CASE LocalHit(s) \/ LocalMiss(s)
  BY <1>1, <1>3 DEF LocalHit, LocalMiss
<1>4. CASE StatFound(s) \/ StatMissing(s) \/ StatStops(s)
  BY <1>1, <1>4 DEF StatFound, StatMissing, StatStops, ObjectWhole
<1>5. CASE Restore(s) \/ RestoreStops(s)
  <2>1. CASE Restore(s)
    <3>1. UNCHANGED <<object, stat, local>> /\ pc'[s] = "localPut"
      BY <2>1 DEF Restore
    <3>2. tree'[s] = object.archive.files /\ entry'[s] = object.archive.entry
      BY <2>1 DEF Restore
    <3>3. Recorded
      <4>1. stat[s] \in Archive /\ stat[s] # None
        BY <2>1 DEF Restore
      <4>2. QED
        BY <1>1, <2>1, <4>1 DEF Restore
    <3>4. QED
      BY <1>1, <2>1, <3>1, <3>2, <3>3 DEF Restore, ObjectWhole
  <2>2. CASE RestoreStops(s)
    BY <1>1, <2>2 DEF RestoreStops, ObjectWhole
  <2>3. QED
    BY <1>5, <2>1, <2>2
<1>6. CASE OnBuild(s) \/ OnBuildStops(s)
  <2>1. CASE OnBuild(s)
    BY <1>1, <2>1 DEF OnBuild
  <2>2. CASE OnBuildStops(s)
    BY <1>1, <2>2 DEF OnBuildStops
  <2>3. QED
    BY <1>6, <2>1, <2>2
<1>7. CASE Upload(s) \/ UploadRefused(s) \/ UploadStops(s)
  <2>1. CASE UploadRefused(s)
    BY <1>1, <2>1 DEF UploadRefused
  <2>2. CASE Upload(s)
    <3>1. object' # None /\ object'.archive.entry = entry[s]
      BY <2>2, PackedType DEF Upload, Uploaded, Packed
    <3>2. stat[s] = None /\ local[s] = None
      BY <1>1, <2>2 DEF Upload
    <3>3. QED
      BY <1>1, <2>2, <3>1, <3>2 DEF Upload
  <2>3. CASE UploadStops(s)
    <3>1. local[s] = None
      BY <1>1, <2>3 DEF UploadStops
    <3>2. QED
      BY <1>1, <2>3, <3>1 DEF UploadStops
  <2>4. QED
    BY <1>7, <2>1, <2>2, <2>3
<1>8. CASE Record(s) \/ RecordStops(s)
  <2>1. /\ object # None => object' # None /\ object'.archive = object.archive
        /\ Recorded => Recorded'
    BY ObjectInv
  <2>2. CASE Record(s)
    <3>1. Packed(s) \in Archive /\ object \in Object
      BY <2>2, PackedType DEF Record
    <3>2. object'.record = Packed(s)
      BY <2>2, <3>1 DEF Record, Object
    <3>3. Recorded'
      BY <2>1, <2>2, <3>1, <3>2 DEF Record
    <3>4. QED
      BY <1>1, <2>1, <2>2, <3>3 DEF Record
  <2>3. CASE RecordStops(s)
    BY <1>1, <2>1, <2>3 DEF RecordStops
  <2>4. QED
    BY <1>8, <2>2, <2>3
<1>9. CASE LocalPut(s) \/ LocalPutFails(s) \/ LocalPutStops(s)
  BY <1>1, <1>9 DEF LocalPut, LocalPutFails, LocalPutStops
<1>10. CASE Answer(s) \/ Evict(s)
  BY <1>1, <1>10 DEF Answer, Evict, request
<1>11. QED
  BY <1>2, <1>3, <1>4, <1>5, <1>6, <1>7, <1>8, <1>9, <1>10
     DEF Acts, Serve, Stops

LEMMA ActsArtifactInv ==
  ASSUME TypeInv, ArtifactInv, NEW s \in Server, Acts(s)
  PROVE  ArtifactInv'
<1>1. CASE deleted
  BY <1>1, ObjectSteps DEF ArtifactInv
<1>2. CASE ~deleted
  <2>1. ObjectWhole'
    BY <1>2, ObjectInv
  <2>2. \A t \in Server : Canonical(t)' /\ Directory(t)'
    BY <1>2, OtherServer, OwnServer
  <2>3. QED
    BY <2>1, <2>2 DEF ArtifactInv
<1>3. QED
  BY <1>1, <1>2

-----------------------------------------------------------------------------
(* The theorems. *)

Inv == TypeInv /\ RemoteInv /\ ArtifactInv

LEMMA InitInv == Init => Inv
<1> SUFFICES ASSUME Init PROVE Inv
  OBVIOUS
<1>1. TypeInv
  BY InitTypeInv
<1>2. RemoteInv
  BY DEF Init, RemoteInv, FromRemote
<1>3. ArtifactInv
  BY DEF Init, ArtifactInv, ObjectWhole, Canonical, Directory
<1>4. QED
  BY <1>1, <1>2, <1>3 DEF Inv

LEMMA DeleteInv == Inv /\ Delete => Inv'
<1> SUFFICES ASSUME Inv, Delete PROVE Inv'
  OBVIOUS
<1> USE DEF Inv, Delete, request
<1>1. TypeInv'
  BY DEF TypeInv, TypeOK, EntryInHand
<1>2. RemoteInv'
  BY DEF RemoteInv, FromRemote, Packed
<1>3. ArtifactInv'
  BY DEF ArtifactInv
<1>4. QED
  BY <1>1, <1>2, <1>3

LEMMA StutterInv == Inv /\ UNCHANGED vars => Inv'
BY DEF Inv, vars, request, TypeInv, TypeOK, EntryInHand, RemoteInv, FromRemote,
       Packed, ArtifactInv, ObjectWhole, Canonical, Directory, Recorded

\* The inductive invariant: every server, at every call of readThroughCache,
\* kodoCache and localCache, has what it looked up, packed or restored, and
\* until the first deletion that is what the one object holds.
THEOREM LlardCacheInvariance == Spec => []Inv
<1>1. Inv /\ [Next]_vars => Inv'
  <2> SUFFICES ASSUME Inv, [Next]_vars PROVE Inv'
    OBVIOUS
  <2>1. CASE Delete
    BY <2>1, DeleteInv
  <2>2. ASSUME NEW s \in Server, Acts(s)
        PROVE  Inv'
    BY <2>2, ActsTypeInv, ActsRemoteInv, ActsArtifactInv DEF Inv
  <2>3. CASE UNCHANGED vars
    BY <2>3, StutterInv
  <2>4. QED
    BY <2>1, <2>2, <2>3 DEF Next, Acts
<1>2. QED
  BY InitInv, <1>1, PTL DEF Spec

\* An answer from Kodo is the archive of the record that was looked up, also
\* when the object is deleted and published anew during the download: what
\* the checksum comparison of kodoArtifact.Get is for.
THEOREM RestoresWhatIsRecorded == Spec => []RestoredIsRecorded
<1>1. Inv => RestoredIsRecorded
  BY DEF Inv, RemoteInv, FromRemote, Packed, RestoredIsRecorded
<1>2. QED
  BY LlardCacheInvariance, <1>1, PTL

\* As long as nobody deletes it there is one artifact: the insert-only upload
\* and the fetch after error 614 make all servers answer with the same.
THEOREM AllAnswerTheSame == Spec => []OneArtifact
<1>1. Inv => OneArtifact
  BY DEF Inv, ArtifactInv, Canonical, OneArtifact
<1>2. QED
  BY LlardCacheInvariance, <1>1, PTL

\* As long as nobody deletes it, an answer points at exactly the files that
\* its metadata is from, whatever failed or was cut off before.
THEOREM AnswersAreComplete == Spec => []CompleteUnlessDeleted
<1>1. Inv => CompleteUnlessDeleted
  BY DEF Inv, ArtifactInv, Directory, CompleteUnlessDeleted
<1>2. QED
  BY LlardCacheInvariance, <1>1, PTL
=============================================================================
