-------------------------- MODULE Workspace_proofs --------------------------
(***************************************************************************)
(* Theorems about Workspace for any number of commands, any keys, modules  *)
(* and jobs, after an inductive invariant of ModuleFS (FormulaStore) for   *)
(* any number of processes, modules and revisions.                         *)
(***************************************************************************)
EXTENDS Workspace, SequenceTheorems, TLAPS

-----------------------------------------------------------------------------
(* ModuleFS: an inductive invariant of the formula store, whoever calls it. *)

Syncing == {"init", "sparse", "set", "add", "fetch", "checkout", "fetchAll",
            "checkoutAll"}

StoreTypeOK ==
  /\ head \in Nat
  /\ git \in {"none", "plain", "sparse"}
  /\ patterns \subseteq Module
  /\ fetched \in Nat
  /\ tree \in [Module -> Nat]
  /\ skipped \subseteq Module
  /\ syncLock \in Client \cup {NoClient}
  /\ at \in [Client -> Syncing \cup {"out", "gone"}]
  /\ wants \in [Client -> Seq(Module)]
  /\ since \in [Client -> Nat]
  /\ opened \in [Client -> [Module -> Nat]]

\* Whoever is in ModuleFS holds .sync.lock, for a module.
HoldsSyncLock ==
  \A c \in Client : at[c] \in Syncing => syncLock = c /\ wants[c] # <<>>

\* What was fetched is not newer than the remote, and no module's formulas
\* are older than what was opened: since[c] until c fetches, then FETCH_HEAD.
Revisions ==
  /\ fetched <= head
  /\ \A c \in Client :
       /\ since[c] <= head
       /\ at[c] \in {"checkout", "checkoutAll"} => since[c] <= fetched
       /\ \A m \in Module : opened[c][m] <= fetched

\* The work tree is to have m's formulas.
CheckedOut(m) == git = "plain" \/ m \in patterns

\* The module of a sync that gets as far as a checkout will be in it, unless
\* the fallback skips it.
WantedIsCheckedOut ==
  \A c \in Client :
    /\ at[c] \in {"fetch", "checkout"} => Wanted(c) \in patterns
    /\ at[c] \in {"fetchAll", "checkoutAll"} =>
         CheckedOut(Wanted(c)) \/ Wanted(c) \in skipped
    /\ at[c] \in Syncing \ {"init"} => git # "none"
    /\ at[c] = "init" => git = "none"
    /\ at[c] = "sparse" => git = "plain"

\* The sparse patterns are only emptied while nobody has opened anything.
FirstSync ==
  (git = "none" \/ \E c \in Client : at[c] \in {"init", "sparse", "set"}) =>
    \A d \in Client, m \in Module : opened[d][m] = 0

\* A module that was opened stays in the checkout.
StaysCheckedOut ==
  \A c \in Client, m \in Module :
    opened[c][m] # 0 =>
      (CheckedOut(m) /\ tree[m] >= opened[c][m]) \/ m \in skipped

StoreInv ==
  /\ StoreTypeOK
  /\ HoldsSyncLock
  /\ Revisions
  /\ WantedIsCheckedOut
  /\ FirstSync
  /\ StaysCheckedOut

-----------------------------------------------------------------------------
LEMMA StoreInitInv ==
  ASSUME NEW mods \in [Client -> Seq(Module)], StoreInit(mods)
  PROVE  StoreInv
BY ClientAssumption
   DEF StoreInit, StoreInv, StoreTypeOK, Syncing, HoldsSyncLock, Revisions,
       WantedIsCheckedOut, FirstSync, StaysCheckedOut, CheckedOut, Wanted, Syncing

LEMMA StoreStutterInv == StoreInv /\ UNCHANGED storeVars => StoreInv'
BY DEF storeVars, repository, StoreInv, StoreTypeOK, HoldsSyncLock, Revisions,
       WantedIsCheckedOut, FirstSync, StaysCheckedOut, CheckedOut, Wanted, Syncing

LEMMA PushInv == StoreInv /\ Push => StoreInv'
BY DEF Push, repository, StoreInv, StoreTypeOK, HoldsSyncLock, Revisions,
       WantedIsCheckedOut, FirstSync, StaysCheckedOut, CheckedOut, Wanted, Syncing

LEMMA LeaveInv ==
  ASSUME StoreInv, NEW c \in Client, LeaveStore(c)
  PROVE  StoreInv'
<1> USE ClientAssumption DEF StoreInv, StoreTypeOK, Syncing, Goto, LeaveStore, repository
<1>1. StoreTypeOK'
  OBVIOUS
<1>2. HoldsSyncLock'
  BY DEF HoldsSyncLock
<1>3. Revisions' /\ FirstSync' /\ StaysCheckedOut'
  BY DEF Revisions, FirstSync, StaysCheckedOut, CheckedOut
<1>4. WantedIsCheckedOut'
  BY DEF WantedIsCheckedOut, CheckedOut, Wanted
<1>5. QED
  BY <1>1, <1>2, <1>3, <1>4

LEMMA SyncsTypeOK ==
  ASSUME StoreInv, NEW c \in Client, Syncs(c)
  PROVE  StoreTypeOK'
<1> USE ClientAssumption DEF StoreInv, StoreTypeOK, Syncing, Goto, repository
<1>1. at[c] \in Syncing => wants[c] # <<>>
  BY DEF HoldsSyncLock
<1>2. wants[c] # <<>> => Wanted(c) \in Module /\ Tail(wants[c]) \in Seq(Module)
  BY DEF Wanted
<1>3. \A m \in Module : Target(m) \in Nat
  BY DEF Target
<1>4. CASE LockSync(c) \/ GitInit(c) \/ SparseInit(c) \/ Fetch(c)
  <2>1. CASE LockSync(c)
    BY <2>1 DEF LockSync
  <2>2. CASE Fetch(c)
    BY <2>2 DEF Fetch
  <2>3. CASE GitInit(c) \/ SparseInit(c)
    BY <2>3 DEF GitInit, SparseInit
  <2>4. QED
    BY <1>4, <2>1, <2>2, <2>3
<1>5. CASE SparseSet(c) \/ SparseAdd(c) \/ FallBack(c)
  BY <1>1, <1>2, <1>5 DEF SparseSet, SparseAdd, FallBack
<1>6. CASE CheckoutOne(c)
  BY <1>3, <1>6 DEF CheckoutOne
<1>7. CASE CheckoutDone(c)
  <2>1. wants[c] # <<>>
    BY <1>1, <1>7 DEF CheckoutDone, CheckingOut
  <2>2. wants' \in [Client -> Seq(Module)]
    BY <1>2, <1>7, <2>1 DEF CheckoutDone, Opens
  <2>3. opened' \in [Client -> [Module -> Nat]]
    BY <1>2, <1>7, <2>1 DEF CheckoutDone, Opens
  <2>4. QED
    BY <1>7, <2>2, <2>3 DEF CheckoutDone, Opens
<1>8. QED
  BY <1>4, <1>5, <1>6, <1>7 DEF Syncs

LEMMA SyncsHoldsLock ==
  ASSUME StoreInv, NEW c \in Client, Syncs(c)
  PROVE  HoldsSyncLock'
<1> USE ClientAssumption DEF StoreInv, StoreTypeOK, Syncing, HoldsSyncLock, Goto, repository
<1>1. CASE LockSync(c)
  BY <1>1 DEF LockSync
<1>2. CASE GitInit(c) \/ SparseInit(c) \/ SparseSet(c) \/ SparseAdd(c)
  BY <1>2 DEF GitInit, SparseInit, SparseSet, SparseAdd
<1>3. CASE FallBack(c) \/ Fetch(c) \/ CheckoutOne(c)
  BY <1>3 DEF FallBack, Fetch, CheckoutOne
<1>4. CASE CheckoutDone(c)
  <2>1. syncLock = c
    BY <1>4 DEF CheckoutDone, CheckingOut
  <2>2. QED
    BY <1>4, <2>1 DEF CheckoutDone, Opens
<1>5. QED
  BY <1>1, <1>2, <1>3, <1>4 DEF Syncs

LEMMA SyncsRevisions ==
  ASSUME StoreInv, NEW c \in Client, Syncs(c)
  PROVE  Revisions'
<1> USE DEF StoreInv, StoreTypeOK, Syncing, Revisions, Goto, repository
<1>1. CASE LockSync(c)
  BY <1>1 DEF LockSync
<1>2. CASE GitInit(c) \/ SparseInit(c) \/ SparseSet(c) \/ SparseAdd(c)
  BY <1>2 DEF GitInit, SparseInit, SparseSet, SparseAdd
<1>3. CASE FallBack(c) \/ CheckoutOne(c)
  BY <1>3 DEF FallBack, CheckoutOne
<1>4. CASE Fetch(c)
  BY <1>4 DEF Fetch
<1>5. CASE CheckoutDone(c)
  BY <1>5 DEF CheckoutDone, CheckingOut, Opens
<1>6. QED
  BY <1>1, <1>2, <1>3, <1>4, <1>5 DEF Syncs

\* A process only moves in ModuleFS while no other one is inside.
LEMMA SyncLockIsExclusive ==
  ASSUME StoreInv, NEW c \in Client, Syncs(c), NEW d \in Client, d # c
  PROVE  at[d] \notin Syncing
BY ClientAssumption
   DEF StoreInv, StoreTypeOK, Syncing, HoldsSyncLock, Syncs, LockSync, GitInit,
       SparseInit, SparseSet, SparseAdd, FallBack, Fetch, CheckoutOne, CheckoutDone,
       CheckingOut

LEMMA SyncsWanted ==
  ASSUME StoreInv, NEW c \in Client, Syncs(c)
  PROVE  WantedIsCheckedOut'
<1> USE DEF StoreInv, StoreTypeOK, Syncing, WantedIsCheckedOut, CheckedOut, Goto, repository
<1>1. \A d \in Client : d # c => at'[d] \notin Syncing
  BY SyncLockIsExclusive
     DEF Syncs, LockSync, GitInit, SparseInit, SparseSet, SparseAdd, FallBack, Fetch,
         CheckoutOne, CheckoutDone, Opens
<1> USE DEF Wanted
<1>2. CASE LockSync(c)
  BY <1>1, <1>2 DEF LockSync
<1>3. CASE SparseSet(c) \/ SparseAdd(c)
  BY <1>1, <1>3 DEF SparseSet, SparseAdd
<1>4. CASE FallBack(c)
  BY <1>1, <1>4 DEF FallBack
<1>5. CASE Fetch(c) \/ CheckoutOne(c)
  BY <1>1, <1>5 DEF Fetch, CheckoutOne
<1>6. CASE CheckoutDone(c)
  BY <1>1, <1>6 DEF CheckoutDone, Opens
<1>7. CASE GitInit(c) \/ SparseInit(c)
  BY <1>1, <1>7 DEF GitInit, SparseInit
<1>8. QED
  BY <1>2, <1>3, <1>4, <1>5, <1>6, <1>7 DEF Syncs

LEMMA SyncsFirst ==
  ASSUME StoreInv, NEW c \in Client, Syncs(c)
  PROVE  FirstSync'
<1> USE DEF StoreInv, StoreTypeOK, Syncing, FirstSync, Goto, repository
<1>1. CASE LockSync(c)
  BY <1>1 DEF LockSync
<1>2. CASE GitInit(c) \/ SparseInit(c) \/ SparseSet(c)
  BY <1>2 DEF GitInit, SparseInit, SparseSet, WantedIsCheckedOut
<1>3. CASE SparseAdd(c) \/ FallBack(c) \/ Fetch(c) \/ CheckoutOne(c)
  BY <1>3 DEF SparseAdd, FallBack, Fetch, CheckoutOne
<1>4. CASE CheckoutDone(c)
  <2>1. at'[c] = "out" /\ git' = git /\ \A d \in Client : d # c => at'[d] = at[d]
    BY <1>4 DEF CheckoutDone, Opens
  <2>2. git # "none"
    BY <1>4 DEF CheckoutDone, CheckingOut, WantedIsCheckedOut
  <2>3. QED
    BY SyncLockIsExclusive, <2>1, <2>2
<1>5. QED
  BY <1>1, <1>2, <1>3, <1>4 DEF Syncs

LEMMA SyncsStays ==
  ASSUME StoreInv, NEW c \in Client, Syncs(c)
  PROVE  StaysCheckedOut'
<1> USE DEF StoreInv, StoreTypeOK, Syncing, StaysCheckedOut, CheckedOut, Goto, repository
<1>1. CASE LockSync(c) \/ Fetch(c)
  BY <1>1 DEF LockSync, Fetch
<1>2. CASE GitInit(c)
  BY <1>2 DEF GitInit, FirstSync
<1>3. CASE SparseInit(c) \/ SparseSet(c)
  BY <1>3 DEF SparseInit, SparseSet, FirstSync
<1>4. CASE SparseAdd(c) \/ FallBack(c)
  BY <1>4 DEF SparseAdd, FallBack
<1>5. CASE CheckoutOne(c)
  BY <1>5 DEF CheckoutOne, Target, Revisions
<1>6. CASE CheckoutDone(c)
  <2>1. Wanted(c) \in Module
    BY <1>6 DEF CheckoutDone, CheckingOut, HoldsSyncLock, Wanted
  <2>2. UNCHANGED <<git, patterns, tree, skipped>>
    BY <1>6 DEF CheckoutDone
  <2>3. since[c] <= fetched /\ (CheckedOut(Wanted(c)) \/ Wanted(c) \in skipped)
    BY <1>6 DEF CheckoutDone, CheckingOut, Revisions, WantedIsCheckedOut
  <2>4. CheckedOut(Wanted(c)) => tree[Wanted(c)] = fetched
    BY <1>6, <2>1 DEF CheckoutDone, Target
  <2>5. \A d \in Client, m \in Module :
          opened'[d][m] = IF d = c /\ m = Wanted(c) THEN since[c] ELSE opened[d][m]
    BY <1>6, <2>1 DEF CheckoutDone, Opens
  <2>6. ASSUME NEW d \in Client, NEW m \in Module, opened'[d][m] # 0
        PROVE  (CheckedOut(m)' /\ tree'[m] >= opened'[d][m]) \/ m \in skipped'
    <3>1. CASE d = c /\ m = Wanted(c)
      BY <2>1, <2>2, <2>3, <2>4, <2>5, <3>1
    <3>2. CASE ~(d = c /\ m = Wanted(c))
      BY <2>2, <2>5, <2>6, <3>2
    <3>3. QED
      BY <3>1, <3>2
  <2>7. QED
    BY <2>6
<1>7. QED
  BY <1>1, <1>2, <1>3, <1>4, <1>5, <1>6 DEF Syncs

\* One step of ModuleFS keeps the invariant.
LEMMA SyncsInv ==
  ASSUME StoreInv, NEW c \in Client, Syncs(c)
  PROVE  StoreInv'
BY SyncsTypeOK, SyncsHoldsLock, SyncsRevisions, SyncsWanted, SyncsFirst, SyncsStays
   DEF StoreInv

\* And it says that a module that was opened is there.
LEMMA StoreInvMeans == StoreInv => FormulaIsThere
BY DEF StoreInv, StaysCheckedOut, FormulaIsThere

-----------------------------------------------------------------------------
(* The commands and their keys. *)

Kind == {"none", "downloaded", "built"}

\* Steps that only a make, or only an install, takes with a key.
MakeSteps == {"remote", "clear", "unpack1", "unpack2", "source", "hook1", "hook2",
              "putBuilt"}
InstallSteps == {"download", "remove", "rename"}

KeySteps == MakeSteps \cup InstallSteps \cup {"look", "putDownloaded", "truncate", "write"}

WorkTypeOK ==
  /\ job \in Plan
  /\ pc \in [Client -> KeySteps \cup {"modules", "request", "unlock", "end"} \cup Ended]
  /\ todo \in [Client -> Seq(Key)]
  /\ lock \in [Path -> Client \cup {NoClient}]
  /\ entries \in [Key -> Kind]
  /\ loaded \in [Client -> [Key -> Kind]]
  /\ there \subseteq Key
  /\ files \in [Key -> SUBSET {"d1", "d2", "b1", "b2"}]
  /\ put \subseteq Key
  /\ disturbed \subseteq Key

\* Whose steps are whose, and how far each is in its list of keys.
Control ==
  \A c \in Client :
    /\ pc[c] \in MakeSteps \cup {"modules", "unlock"} => job[c].kind = "make"
    /\ pc[c] \in InstallSteps \cup {"request"} => job[c].kind = "install"
    /\ pc[c] \notin Ended => job[c].kind # "nothing"
    /\ pc[c] \in KeySteps => todo[c] # <<>>
    /\ ToDo(c) \subseteq JobKeys(c)
    /\ pc[c] \in {"modules", "request"} => todo[c] = job[c].keys
    /\ pc[c] \in {"unlock", "end"} => todo[c] = <<>>

WorkInv == WorkTypeOK /\ Control

\* A make from its first key on has the locks of all its keys, until its
\* Build returns.
Locking(c) == job[c].kind = "make" /\ pc[c] \notin Ended \cup {"modules", "end"}

HoldsLocks ==
  \A c \in Client : Locking(c) => \A k \in JobKeys(c) : lock[PathOf[k]] = c

\* What is loaded is about to be written: the current key's entry, and those
\* in the same .cache.json.
LoadedToWrite ==
  \A c \in Client :
    /\ pc[c] \in {"truncate", "write"} => loaded[c][Current(c)] # "none"
    /\ \A k \in Key :
         loaded[c][k] # "none" =>
           pc[c] \in {"truncate", "write"} /\ PathOf[k] = PathOf[Current(c)]

\* A directory that is not there has no files.
EmptyUnlessThere == \A k \in Key \ there : files[k] = {}

\* What c can count on in k's directory as long as nobody disturbs it: what
\* it is about to record, what it has written there, and what it is through
\* with.
InHand(c, k) ==
  /\ loaded[c][k] # "none" => Whole(k, loaded[c][k])
  /\ pc[c] \in KeySteps /\ Current(c) = k =>
       /\ pc[c] = "unpack2" => "d1" \in files[k]
       /\ pc[c] = "putDownloaded" => Whole(k, "downloaded")
       /\ pc[c] = "hook2" => "b1" \in files[k]
       /\ pc[c] = "putBuilt" => Whole(k, "built")
  /\ InJob(c) /\ k \in JobKeys(c) \ ToDo(c) =>
       Whole(k, "downloaded") \/ Whole(k, "built")

EntryBacked(k) == entries[k] # "none" => Whole(k, entries[k])

Backed ==
  \A k \in Key \ disturbed : EntryBacked(k) /\ \A c \in Client : InHand(c, k)

\* No install rewrites the .cache.json that has k.
NoInstallNear(k) ==
  \A c \in Client : Installs(c) => JobKeys(c) \cap Siblings(k) = {}

\* Then a make that is about to clear k's directory has found no entry of it,
\* and the locks keep it so.
Exclusive ==
  \A k \in Key : NoInstallNear(k) =>
    /\ k \notin disturbed
    /\ \A c \in Client :
         pc[c] \in {"remote", "clear"} /\ Current(c) = k => entries[k] = "none"

\* And, while nobody near is killed, an entry is in .cache.json or in the hands of
\* the one command that has emptied the file to write it anew.
Emptied ==
  \A k \in Key : NoInstallNear(k) =>
    \A c \in Client :
      pc[c] = "write" /\ PathOf[Current(c)] = PathOf[k] => entries[k] = "none"

Kept ==
  \A k \in put : ~Unsettled(k) =>
    /\ entries[k] # "none" \/ \E c \in Client : pc[c] = "write" /\ loaded[c][k] # "none"
    /\ \A c \in Client :
         pc[c] = "truncate" /\ PathOf[Current(c)] = PathOf[k] => loaded[c][k] # "none"

\* What .cache.json says, or is to say, was put there.
EntriesWerePut ==
  \A k \in Key :
    /\ entries[k] # "none" => k \in put
    /\ \A c \in Client : loaded[c][k] # "none" => k \in put \/ k = Current(c)

\* So what a make is through with stays as it is, with or without its locks.
Made(c, k) ==
  job[c].kind = "make" /\ pc[c] \notin Ended /\ k \in JobKeys(c) \ ToDo(c) =>
    k \in put /\ (Whole(k, "downloaded") \/ Whole(k, "built"))

MadeStays == \A k \in Key : ~Unsettled(k) => \A c \in Client : Made(c, k)

-----------------------------------------------------------------------------
(* Keys and sequences of keys. *)

LEMMA KeysOfSeq ==
  ASSUME NEW s \in Seq(Key), s # <<>>
  PROVE  /\ Head(s) \in Key
         /\ Head(s) \in {s[i] : i \in DOMAIN s}
         /\ Tail(s) \in Seq(Key)
         /\ {s[i] : i \in DOMAIN s} = {Head(s)} \cup {Tail(s)[i] : i \in DOMAIN Tail(s)}
         /\ Len(s) = 1 <=> Tail(s) = <<>>
<1>1. Len(s) \in Nat /\ Len(s) > 0 /\ DOMAIN s = 1..Len(s) /\ Head(s) = s[1]
  OBVIOUS
<1>2. Len(Tail(s)) = Len(s) - 1 /\ DOMAIN Tail(s) = 1..(Len(s) - 1)
  BY <1>1
<1>3. \A i \in 1..(Len(s) - 1) : Tail(s)[i] = s[i + 1]
  BY <1>1
<1>4. Tail(s) \in Seq(Key)
  OBVIOUS
<1>5. {s[i] : i \in DOMAIN s} = {Head(s)} \cup {Tail(s)[i] : i \in DOMAIN Tail(s)}
  <2>1. ASSUME NEW i \in DOMAIN s
        PROVE  s[i] \in {Head(s)} \cup {Tail(s)[j] : j \in DOMAIN Tail(s)}
    <3>1. CASE i = 1
      BY <1>1, <3>1
    <3>2. CASE i # 1
      <4>1. i - 1 \in DOMAIN Tail(s) /\ Tail(s)[i - 1] = s[i]
        BY <1>1, <1>2, <1>3, <3>2
      <4>2. QED
        BY <4>1
    <3>3. QED
      BY <3>1, <3>2
  <2>2. ASSUME NEW j \in DOMAIN Tail(s)
        PROVE  Tail(s)[j] \in {s[i] : i \in DOMAIN s}
    <3>1. j + 1 \in DOMAIN s /\ s[j + 1] = Tail(s)[j]
      BY <1>1, <1>2, <1>3
    <3>2. QED
      BY <3>1
  <2>3. Head(s) \in {s[i] : i \in DOMAIN s}
    BY <1>1
  <2>4. QED
    BY <2>1, <2>2, <2>3
<1>6. Len(s) = 1 <=> Tail(s) = <<>>
  <2>1. Tail(s) = <<>> <=> Len(Tail(s)) = 0
    BY <1>4, EmptySeq
  <2>2. QED
    BY <1>1, <1>2, <2>1
<1>7. QED
  BY <1>1, <1>4, <1>5, <1>6

LEMMA JobTypes ==
  ASSUME WorkTypeOK, NEW c \in Client
  PROVE  /\ job[c] \in Job
         /\ job[c].kind # "nothing" => job[c].keys # <<>>
         /\ job[c].mods \in Seq(Module)
         /\ JobKeys(c) \subseteq Key
<1>1. job \in [Client -> Job] /\ (job[c].kind # "nothing" => job[c].keys # <<>>)
  BY PlanAssumption DEF WorkTypeOK
<1>2. job[c].keys \in Seq(Key) /\ job[c].mods \in Seq(Module)
  BY <1>1 DEF Job
<1>3. QED
  BY <1>1, <1>2 DEF JobKeys

\* A command at a step with a key: the key, and what it leaves to do.
LEMMA CurrentKey ==
  ASSUME WorkInv, NEW c \in Client, pc[c] \in KeySteps
  PROVE  /\ Current(c) \in Key
         /\ Current(c) \in ToDo(c)
         /\ Current(c) \in JobKeys(c)
         /\ PathOf[Current(c)] \in Path
         /\ ToDo(c) = {Current(c)} \cup {Tail(todo[c])[i] : i \in DOMAIN Tail(todo[c])}
<1>1. todo[c] \in Seq(Key) /\ todo[c] # <<>> /\ ToDo(c) \subseteq JobKeys(c)
  BY DEF WorkInv, WorkTypeOK, Control
<1>2. QED
  BY <1>1, KeysOfSeq DEF Current, ToDo, Path

-----------------------------------------------------------------------------
(* Types. *)

Acts(c) == Step(c) \/ Kill(c)

\* The four ways out.
Exits(c) == \E how \in Ended : pc[c] \notin Ended /\ Exit(c, how)

LEMMA ExitSteps ==
  ASSUME WorkInv, NEW c \in Client, Kill(c) \/ Fail(c) \/ End(c) \/ RenameFails(c)
  PROVE  Exits(c) /\ (pc'[c] = "ok" => pc[c] = "end")
<1> USE DEF WorkInv, WorkTypeOK, Exits, Exit, To, Ended
<1>1. CASE Kill(c)
  BY <1>1 DEF Kill
<1>2. CASE Fail(c)
  BY <1>2 DEF Fail, At, MayFail
<1>3. CASE End(c) \/ RenameFails(c)
  BY <1>3 DEF End, RenameFails, At
<1>4. QED
  BY <1>1, <1>2, <1>3

LEMMA WorkInitTypeOK == Init => WorkTypeOK
<1> SUFFICES ASSUME Init PROVE WorkTypeOK
  OBVIOUS
<1>1. job \in Plan /\ job \in [Client -> Job]
  BY PlanAssumption DEF Init
<1>2. todo \in [Client -> Seq(Key)]
  BY <1>1 DEF Init, Job
<1>3. QED
  BY <1>1, <1>2 DEF Init, WorkTypeOK, NoEntries, Kind, Ended

LEMMA ActsTypeOK ==
  ASSUME WorkInv, NEW c \in Client, Acts(c)
  PROVE  WorkTypeOK'
<1> USE DEF WorkInv, WorkTypeOK, Ended, KeySteps, MakeSteps, InstallSteps, Kind, At, To, shared, command
<1>1. pc[c] \in KeySteps => Current(c) \in Key /\ Tail(todo[c]) \in Seq(Key)
  BY CurrentKey, KeysOfSeq DEF Control
<1>2. CASE Kill(c) \/ Fail(c) \/ End(c) \/ RenameFails(c)
  <2>1. PICK how \in Ended : Exit(c, how)
    BY <1>2, ExitSteps DEF Exits
  <2>2. UNCHANGED <<job, todo, entries, there, files, put, disturbed>>
    BY <2>1 DEF Exit
  <2>3. lock' \in [Path -> Client \cup {NoClient}]
    BY <2>1 DEF Exit
  <2>4. loaded' \in [Client -> [Key -> Kind]]
    BY <2>1 DEF Exit, NoEntries
  <2>5. pc' \in [Client -> KeySteps \cup {"modules", "request", "unlock", "end"} \cup Ended]
    BY <2>1 DEF Exit
  <2>6. QED
    BY <2>2, <2>3, <2>4, <2>5
<1>3. CASE SyncModules(c)
  BY <1>3 DEF SyncModules
<1>4. CASE LockGraph(c) \/ Unlock(c)
  <2>1. CASE LockGraph(c)
    BY <2>1 DEF LockGraph
  <2>2. CASE Unlock(c)
    BY <2>2 DEF Unlock
  <2>3. QED
    BY <1>4, <2>1, <2>2
<1>5. CASE LookHit(c)
  <2>1. todo' \in [Client -> Seq(Key)]
    BY <1>1, <1>5 DEF LookHit, Proceed
  <2>2. pc' \in [Client -> KeySteps \cup {"modules", "request", "unlock", "end"} \cup Ended]
    BY <1>5 DEF LookHit, Proceed, Done
  <2>3. QED
    BY <1>5, <2>1, <2>2 DEF LookHit
<1>6. CASE LookMiss(c) \/ NotPublished(c) \/ Published(c) \/ Answered(c) \/ Stage(c)
  BY <1>6 DEF LookMiss, NotPublished, Published, Answered, Stage
<1>7. CASE Clear(c) \/ Remove(c)
  <2>1. files' \in [Key -> SUBSET {"d1", "d2", "b1", "b2"}]
    BY <1>1, <1>7 DEF Clear, Remove, RemoveAll
  <2>2. pc' \in [Client -> KeySteps \cup {"modules", "request", "unlock", "end"} \cup Ended]
    BY <1>7 DEF Clear, Remove, RemoveAll
  <2>3. there' \subseteq Key /\ disturbed' \subseteq Key
    BY <1>1, <1>7 DEF Clear, Remove, RemoveAll
  <2>4. QED
    BY <1>7, <2>1, <2>2, <2>3 DEF Clear, Remove, RemoveAll
<1>8. CASE PrepareSource(c) \/ Rename(c)
  <2>1. CASE PrepareSource(c)
    BY <1>1, <2>1 DEF PrepareSource
  <2>2. CASE Rename(c)
    BY <1>1, <2>2 DEF Rename, Files
  <2>3. QED
    BY <1>8, <2>1, <2>2
<1>9. CASE Unpack(c) \/ OnBuild(c)
  <2>1. PICK file \in {"d1", "d2", "b1", "b2"},
             step \in {"unpack1", "unpack2", "hook1", "hook2"},
             next \in {"unpack2", "putDownloaded", "hook2", "putBuilt"} :
             Writes(c, step, file, next)
    BY <1>9 DEF Unpack, OnBuild
  <2>2. files' \in [Key -> SUBSET {"d1", "d2", "b1", "b2"}] /\ there' \subseteq Key
    BY <1>1, <2>1 DEF Writes
  <2>3. QED
    BY <2>1, <2>2 DEF Writes
<1>10. CASE Load(c)
  BY <1>1, <1>10 DEF Load
<1>11. CASE Truncate(c)
  BY <1>1, <1>11 DEF Truncate
<1>12. CASE Write(c)
  <2>1. todo' \in [Client -> Seq(Key)]
    BY <1>1, <1>12 DEF Write, Proceed
  <2>2. pc' \in [Client -> KeySteps \cup {"modules", "request", "unlock", "end"} \cup Ended]
    BY <1>12 DEF Write, Proceed, Done
  <2>3. entries' \in [Key -> Kind] /\ put' \subseteq Key /\ loaded' \in [Client -> [Key -> Kind]]
    BY <1>1, <1>12 DEF Write, Written, Torn, NoEntries
  <2>4. QED
    BY <1>12, <2>1, <2>2, <2>3 DEF Write
<1>13. QED
  BY <1>2, <1>3, <1>4, <1>5, <1>6, <1>7, <1>8, <1>9, <1>10, <1>11, <1>12
     DEF Acts, Step

-----------------------------------------------------------------------------
(* What a step leaves alone, and where it goes. *)

LEMMA OthersStay ==
  ASSUME WorkInv, NEW c \in Client, Acts(c)
  PROVE  /\ job' = job
         /\ \A d \in Client : d # c =>
              pc'[d] = pc[d] /\ todo'[d] = todo[d] /\ loaded'[d] = loaded[d]
<1> USE DEF To, shared, command
<1>1. CASE Kill(c) \/ Fail(c) \/ End(c) \/ RenameFails(c)
  BY <1>1, ExitSteps DEF WorkInv, WorkTypeOK, Exits, Exit
<1>2. CASE SyncModules(c) \/ LockGraph(c) \/ Unlock(c) \/ Answered(c) \/ Stage(c)
  BY <1>2 DEF WorkInv, WorkTypeOK, SyncModules, LockGraph, Unlock, Answered, Stage
<1>3. CASE LookHit(c) \/ LookMiss(c) \/ NotPublished(c) \/ Published(c)
  BY <1>3 DEF WorkInv, WorkTypeOK, LookHit, LookMiss, NotPublished, Published, Proceed
<1>4. CASE Clear(c) \/ Remove(c) \/ PrepareSource(c) \/ Rename(c)
  BY <1>4 DEF WorkInv, WorkTypeOK, Clear, Remove, RemoveAll, PrepareSource, Rename
<1>5. CASE Unpack(c) \/ OnBuild(c)
  BY <1>5 DEF WorkInv, WorkTypeOK, Unpack, OnBuild, Writes
<1>6. CASE Load(c) \/ Truncate(c)
  BY <1>6 DEF WorkInv, WorkTypeOK, Load, Truncate
<1>7. CASE Write(c)
  BY <1>7 DEF WorkInv, WorkTypeOK, Write, Proceed
<1>8. QED
  BY <1>1, <1>2, <1>3, <1>4, <1>5, <1>6, <1>7 DEF Acts, Step

\* On to the next key: it leaves the list, and with the last one the Build or
\* install is over.
LEMMA ProceedSteps ==
  ASSUME WorkInv, NEW c \in Client, pc[c] \in KeySteps, Proceed(c)
  PROVE  /\ pc'[c] \in {"look", "unlock", "end"}
         /\ pc'[c] = "look" => todo'[c] # <<>>
         /\ pc'[c] \in {"unlock", "end"} => todo'[c] = <<>>
         /\ pc'[c] = "unlock" => job[c].kind = "make"
         /\ pc'[c] = "end" => job[c].kind # "make"
         /\ ToDo(c) = {Current(c)} \cup ToDo(c)'
<1>1. todo[c] \in Seq(Key) /\ todo[c] # <<>>
  BY DEF WorkInv, WorkTypeOK, Control
<1>2. todo'[c] = Tail(todo[c])
  BY DEF Proceed, WorkInv, WorkTypeOK
<1>3. pc'[c] = IF Len(todo[c]) = 1 THEN Done(c) ELSE "look"
  BY DEF Proceed, To, WorkInv, WorkTypeOK
<1>4. Len(todo[c]) = 1 <=> Tail(todo[c]) = <<>>
  BY <1>1, KeysOfSeq
<1>5. ToDo(c) = {Current(c)} \cup ToDo(c)'
  BY <1>2, CurrentKey DEF ToDo
<1>6. QED
  BY <1>2, <1>3, <1>4, <1>5 DEF Done

LEMMA ActsControl ==
  ASSUME WorkInv, NEW c \in Client, Acts(c)
  PROVE  Control'
<1> DEFINE Controlled(d) ==
      /\ pc[d] \in MakeSteps \cup {"modules", "unlock"} => job[d].kind = "make"
      /\ pc[d] \in InstallSteps \cup {"request"} => job[d].kind = "install"
      /\ pc[d] \notin Ended => job[d].kind # "nothing"
      /\ pc[d] \in KeySteps => todo[d] # <<>>
      /\ ToDo(d) \subseteq JobKeys(d)
      /\ pc[d] \in {"modules", "request"} => todo[d] = job[d].keys
      /\ pc[d] \in {"unlock", "end"} => todo[d] = <<>>
<1>1. ASSUME NEW d \in Client, d # c
      PROVE  Controlled(d)'
  <2>1. job' = job /\ pc'[d] = pc[d] /\ todo'[d] = todo[d]
    BY <1>1, OthersStay
  <2>2. ToDo(d)' = ToDo(d) /\ JobKeys(d)' = JobKeys(d)
    BY <2>1 DEF ToDo, JobKeys
  <2>3. Controlled(d)
    BY DEF WorkInv, Control
  <2>4. QED
    BY <2>1, <2>2, <2>3
<1>2. Controlled(c)'
  <2>1. Controlled(c) /\ job' = job /\ JobKeys(c)' = JobKeys(c)
    BY OthersStay DEF WorkInv, Control, JobKeys
  <2>2. pc \in [Client -> KeySteps \cup {"modules", "request", "unlock", "end"} \cup Ended]
    BY DEF WorkInv, WorkTypeOK
  <2> USE DEF At, To, command, shared
  <2>3. CASE Kill(c) \/ Fail(c) \/ End(c) \/ RenameFails(c)
    <3>1. pc'[c] \in Ended /\ todo' = todo
      BY <2>2, <2>3, ExitSteps DEF Exits, Exit
    <3>2. QED
      BY <2>1, <3>1 DEF Ended, MakeSteps, InstallSteps, KeySteps, ToDo
  <2>4. CASE SyncModules(c)
    BY <2>1, <2>4 DEF SyncModules, ToDo
  <2>5. CASE LockGraph(c) \/ Answered(c)
    <3>1. pc'[c] = "look" /\ todo' = todo
      BY <2>2, <2>5 DEF LockGraph, Answered
    <3>2. job[c].kind # "nothing" /\ todo[c] # <<>>
      BY <2>1, <2>5, JobTypes
         DEF LockGraph, Answered, WorkInv, Ended, MakeSteps, InstallSteps
    <3>3. QED
      BY <2>1, <3>1, <3>2 DEF Ended, MakeSteps, InstallSteps, KeySteps, ToDo
  <2>6. CASE LookHit(c) \/ Write(c)
    <3>1. pc[c] \in KeySteps /\ Proceed(c) /\ pc[c] \notin Ended
      BY <2>6 DEF LookHit, Write, KeySteps, Ended
    <3>2. QED
      BY <2>1, <3>1, ProceedSteps DEF Ended, MakeSteps, InstallSteps, KeySteps
  <2>7. CASE LookMiss(c)
    <3>1. pc'[c] \in {"remote", "download"} /\ todo' = todo /\ pc[c] = "look"
          /\ (pc'[c] = "remote" <=> job[c].kind = "make")
      BY <2>2, <2>7 DEF LookMiss
    <3>2. job[c].kind \in {"make", "install", "nothing"}
      BY JobTypes DEF Job, WorkInv
    <3>3. QED
      BY <2>1, <3>1, <3>2 DEF Ended, MakeSteps, InstallSteps, KeySteps, ToDo
  <2>8. CASE \/ NotPublished(c) \/ Published(c) \/ Clear(c) \/ PrepareSource(c)
             \/ Unpack(c) \/ OnBuild(c) \/ Stage(c) \/ Remove(c) \/ Rename(c)
             \/ Load(c) \/ Truncate(c)
    <3>1. /\ pc[c] \in KeySteps /\ todo' = todo
          /\ \/ pc[c] \in MakeSteps /\ pc'[c] \in MakeSteps \cup {"putDownloaded", "truncate"}
             \/ pc[c] \in InstallSteps /\ pc'[c] \in InstallSteps \cup {"putDownloaded"}
             \/ pc'[c] \in {"truncate", "write"}
      BY <2>2, <2>8
         DEF NotPublished, Published, Clear, RemoveAll, PrepareSource, Unpack, OnBuild,
             Writes, Stage, Remove, Rename, Load, Truncate, MakeSteps, InstallSteps,
             KeySteps
    <3>2. QED
      BY <2>1, <3>1 DEF Ended, MakeSteps, InstallSteps, KeySteps, ToDo
  <2>9. CASE Unlock(c)
    <3>1. pc'[c] = "end" /\ todo' = todo /\ pc[c] = "unlock"
      BY <2>2, <2>9 DEF Unlock
    <3>2. QED
      BY <2>1, <3>1 DEF Ended, MakeSteps, InstallSteps, KeySteps, ToDo
  <2>10. QED
    BY <2>3, <2>4, <2>5, <2>6, <2>7, <2>8, <2>9 DEF Acts, Step
<1>3. QED
  BY <1>1, <1>2 DEF Control

-----------------------------------------------------------------------------
(* The locks, and what is loaded. *)

LEMMA ActsHoldsLocks ==
  ASSUME WorkInv, HoldsLocks, NEW c \in Client, Acts(c)
  PROVE  HoldsLocks'
<1> USE DEF At, To, command, shared
<1>1. job' = job /\ \A d \in Client : d # c => pc'[d] = pc[d]
  BY OthersStay
<1>2. pc \in [Client -> KeySteps \cup {"modules", "request", "unlock", "end"} \cup Ended]
      /\ lock \in [Path -> Client \cup {NoClient}]
  BY DEF WorkInv, WorkTypeOK
<1>3. \A d \in Client : JobKeys(d)' = JobKeys(d) /\ \A k \in JobKeys(d) : PathOf[k] \in Path
  BY <1>1, JobTypes DEF JobKeys, Path, WorkInv
<1>4. CASE Kill(c) \/ Fail(c) \/ End(c) \/ RenameFails(c)
  <2>1. pc'[c] \in Ended /\ \A p \in Path : lock[p] # c => lock'[p] = lock[p]
    BY <1>2, <1>4, ExitSteps DEF Exits, Exit
  <2>2. QED
    BY <1>1, <1>3, <2>1 DEF HoldsLocks, Locking
<1>5. CASE LockGraph(c)
  <2>1. \A k \in JobKeys(c) : lock'[PathOf[k]] = c
    BY <1>3, <1>5 DEF LockGraph
  <2>2. ASSUME NEW d \in Client, d # c, Locking(d), NEW k \in JobKeys(d)
        PROVE  lock'[PathOf[k]] = d
    <3>1. lock[PathOf[k]] = d /\ PathOf[k] \in Path
      BY <1>3, <2>2 DEF HoldsLocks
    <3>2. ~ \E j \in JobKeys(c) : PathOf[j] = PathOf[k]
      BY <1>5, <3>1, ClientAssumption DEF LockGraph
    <3>3. QED
      BY <1>5, <3>1, <3>2 DEF LockGraph
  <2>3. QED
    BY <1>1, <1>3, <2>1, <2>2 DEF HoldsLocks, Locking
<1>6. CASE /\ lock' = lock
           /\ ~(Kill(c) \/ Fail(c) \/ End(c) \/ RenameFails(c) \/ LockGraph(c) \/ Unlock(c))
  <2>1. Locking(c)' => Locking(c)
    <3>1. CASE pc[c] \in Ended \cup {"modules", "end"}
      <4>1. pc'[c] = pc[c]
        BY <1>6, <3>1
           DEF Acts, Step, SyncModules, LookHit, LookMiss, NotPublished, Published,
               Clear, RemoveAll, Unpack, PrepareSource, OnBuild, Writes, Answered, Stage, Remove,
               Rename, Load, Truncate, Write, Ended
      <4>2. QED
        BY <1>1, <4>1 DEF Locking
    <3>2. QED
      BY <1>1, <3>1 DEF Locking
  <2>2. QED
    BY <1>1, <1>3, <1>6, <2>1 DEF HoldsLocks, Locking
<1>7. \/ lock' = lock
      \/ Kill(c) \/ Fail(c) \/ End(c) \/ RenameFails(c) \/ LockGraph(c) \/ Unlock(c)
  BY DEF Acts, Step, SyncModules, LookHit, LookMiss, NotPublished, Published, Clear, RemoveAll,
         Unpack, PrepareSource, OnBuild, Writes, Answered, Stage, Remove, Rename, Load,
         Truncate, Write
<1>8. CASE Unlock(c)
  <2>1. pc'[c] = "end" /\ \A p \in Path : lock[p] # c => lock'[p] = lock[p]
    BY <1>2, <1>8 DEF Unlock
  <2>2. QED
    BY <1>1, <1>3, <2>1 DEF HoldsLocks, Locking
<1>9. QED
  BY <1>4, <1>5, <1>6, <1>7, <1>8

LEMMA ActsLoadedToWrite ==
  ASSUME WorkInv, LoadedToWrite, NEW c \in Client, Acts(c)
  PROVE  LoadedToWrite'
<1> USE DEF At, To, command, shared
<1> DEFINE ToWrite(d) ==
      /\ pc[d] \in {"truncate", "write"} => loaded[d][Current(d)] # "none"
      /\ \A k \in Key :
           loaded[d][k] # "none" =>
             pc[d] \in {"truncate", "write"} /\ PathOf[k] = PathOf[Current(d)]
<1>1. ASSUME NEW d \in Client, d # c
      PROVE  ToWrite(d)'
  <2>1. pc'[d] = pc[d] /\ todo'[d] = todo[d] /\ loaded'[d] = loaded[d]
    BY <1>1, OthersStay
  <2>2. QED
    BY <2>1 DEF LoadedToWrite, Current
<1>2. ToWrite(c)'
  <2>1. ToWrite(c)
    BY DEF LoadedToWrite
  <2>2. /\ pc \in [Client -> KeySteps \cup {"modules", "request", "unlock", "end"} \cup Ended]
        /\ loaded \in [Client -> [Key -> Kind]]
        /\ pc[c] \in KeySteps => Current(c) \in Key
    BY CurrentKey DEF WorkInv, WorkTypeOK
  <2>3. CASE Kill(c) \/ Fail(c) \/ End(c) \/ RenameFails(c)
    <3>1. pc'[c] \in Ended /\ \A k \in Key : loaded'[c][k] = "none"
      BY <2>2, <2>3, ExitSteps DEF Exits, Exit, NoEntries
    <3>2. QED
      BY <3>1 DEF Ended
  <2>4. CASE Load(c)
    <3>1. pc'[c] = "truncate" /\ Current(c)' = Current(c) /\ Current(c) \in Key
      BY <2>2, <2>4 DEF Load, Current, KeySteps, MakeSteps
    <3>2. /\ loaded'[c][Current(c)] \in {"built", "downloaded"}
          /\ \A k \in Key : PathOf[k] # PathOf[Current(c)] => loaded'[c][k] = "none"
      BY <2>2, <2>4, <3>1 DEF Load
    <3>3. QED
      BY <3>1, <3>2
  <2>5. CASE Truncate(c)
    BY <2>1, <2>2, <2>5 DEF Truncate, Current
  <2>6. CASE Write(c)
    <3>1. pc'[c] \in {"look", "unlock", "end"} /\ \A k \in Key : loaded'[c][k] = "none"
      BY <2>2, <2>6, ProceedSteps DEF Write, KeySteps, NoEntries
    <3>2. QED
      BY <3>1
  <2>7. CASE loaded' = loaded /\ pc'[c] \notin {"truncate", "write"}
             /\ pc[c] \notin {"truncate", "write"}
    BY <2>1, <2>7
  <2>8. \/ Kill(c) \/ Fail(c) \/ End(c) \/ RenameFails(c) \/ Load(c) \/ Truncate(c)
        \/ Write(c)
        \/ loaded' = loaded /\ pc'[c] \notin {"truncate", "write"}
           /\ pc[c] \notin {"truncate", "write"}
    BY <2>2
       DEF Acts, Step, SyncModules, LockGraph, Unlock, LookHit, LookMiss, NotPublished,
           Published, Clear, RemoveAll, Unpack, PrepareSource, OnBuild, Writes, Answered,
           Stage, Remove, Rename, Proceed, Done
  <2>9. QED
    BY <2>3, <2>4, <2>5, <2>6, <2>7, <2>8
<1>3. QED
  BY <1>1, <1>2 DEF LoadedToWrite

-----------------------------------------------------------------------------
(* The install directories. *)

LEMMA WholeMeans ==
  ASSUME NEW k
  PROVE  /\ Whole(k, "downloaded") <=> {"d1", "d2"} \subseteq files[k]
         /\ Whole(k, "built") <=> {"b1", "b2"} \subseteq files[k]
BY DEF Whole, Files

\* What is whole stays so while nothing is removed.
LEMMA WholeStays ==
  ASSUME NEW k, NEW kind, files[k] \subseteq files'[k], Whole(k, kind)
  PROVE  Whole(k, kind)'
BY DEF Whole

\* Files are only removed by who clears a directory, and if it is relied on
\* that is a disturbance.
LEMMA DirSteps ==
  ASSUME WorkInv, EmptyUnlessThere, NEW c \in Client, Acts(c)
  PROVE  /\ EmptyUnlessThere'
         /\ disturbed \subseteq disturbed'
         /\ \A k \in Key :
              \/ files[k] \subseteq files'[k]
              \/ /\ k = Current(c) /\ (Clear(c) \/ Remove(c))
                 /\ ReliedOn(c, k) => k \in disturbed'
<1> USE DEF At, To, shared, command
<1>1. /\ files \in [Key -> SUBSET {"d1", "d2", "b1", "b2"}] /\ there \subseteq Key
      /\ pc[c] \in KeySteps => Current(c) \in Key
  BY CurrentKey DEF WorkInv, WorkTypeOK
<1>2. CASE Clear(c) \/ Remove(c)
  <2>1. pc[c] \in KeySteps
    BY <1>2 DEF Clear, RemoveAll, Remove, KeySteps, MakeSteps, InstallSteps
  <2>2. /\ disturbed \subseteq disturbed'
        /\ ReliedOn(c, Current(c)) => Current(c) \in disturbed'
    BY <1>2 DEF Clear, Remove, RemoveAll
  <2>3. CASE /\ files' = files
             /\ there' = there \ {Current(c)} /\ files[Current(c)] = {}
    BY <2>2, <2>3 DEF EmptyUnlessThere
  <2>4. CASE /\ there' = there
             /\ \E f \in files[Current(c)] :
                  files' = [files EXCEPT ![Current(c)] = @ \ {f}]
    <3>1. \A k \in Key : files'[k] \subseteq files[k]
      BY <1>1, <2>1, <2>4
    <3>2. EmptyUnlessThere'
      BY <2>4, <3>1 DEF EmptyUnlessThere
    <3>3. \A k \in Key : k # Current(c) => files'[k] = files[k]
      BY <1>1, <2>1, <2>4
    <3>4. ASSUME NEW k \in Key
          PROVE  \/ files[k] \subseteq files'[k]
                 \/ /\ k = Current(c) /\ (Clear(c) \/ Remove(c))
                    /\ ReliedOn(c, k) => k \in disturbed'
      BY <1>2, <2>2, <3>3
    <3>5. QED
      BY <2>2, <3>2, <3>4
  <2>5. QED
    BY <1>2, <2>3, <2>4 DEF Clear, Remove, RemoveAll
<1>3. CASE Rename(c)
  <2>1. pc[c] \in KeySteps /\ Current(c) \notin there
    BY <1>3 DEF Rename, KeySteps, InstallSteps
  <2>2. files[Current(c)] = {}
    BY <1>1, <2>1 DEF EmptyUnlessThere
  <2>3. QED
    BY <1>1, <1>3, <2>1, <2>2 DEF Rename, EmptyUnlessThere
<1>4. CASE Unpack(c) \/ OnBuild(c)
  <2>1. PICK file \in {"d1", "d2", "b1", "b2"},
             step \in {"unpack1", "unpack2", "hook1", "hook2"},
             next \in {"unpack2", "putDownloaded", "hook2", "putBuilt"} :
             Writes(c, step, file, next)
    BY <1>4 DEF Unpack, OnBuild
  <2>2. pc[c] \in KeySteps /\ files' = [files EXCEPT ![Current(c)] = @ \cup {file}]
        /\ there' = there \cup {Current(c)} /\ disturbed' = disturbed
    BY <2>1 DEF Writes, KeySteps, MakeSteps
  <2>3. \A k \in Key : files[k] \subseteq files'[k]
    BY <1>1, <2>2
  <2>4. \A k \in Key : k # Current(c) => files'[k] = files[k]
    BY <1>1, <2>2
  <2>5. EmptyUnlessThere'
    BY <1>1, <2>2, <2>4 DEF EmptyUnlessThere
  <2>6. QED
    BY <2>2, <2>3, <2>5
<1>5. CASE PrepareSource(c)
  BY <1>1, <1>5 DEF PrepareSource, EmptyUnlessThere
<1>6. CASE UNCHANGED <<files, there, disturbed>>
  BY <1>6 DEF EmptyUnlessThere
<1>7. CASE Kill(c) \/ Fail(c) \/ End(c) \/ RenameFails(c)
  <2>1. UNCHANGED <<files, there, disturbed>>
    BY <1>7, ExitSteps DEF Exits, Exit
  <2>2. QED
    BY <1>6, <2>1
<1>8. QED
  BY <1>2, <1>3, <1>4, <1>5, <1>6, <1>7
     DEF Acts, Step, SyncModules, LockGraph, Unlock, LookHit, LookMiss, NotPublished, Published,
         Answered, Stage, Load, Truncate, Write

\* The directory that c clears was nobody's, or is disturbed now.
LEMMA ClearedNotRelied ==
  ASSUME WorkInv, LoadedToWrite, NEW c \in Client, Clear(c) \/ Remove(c),
         NEW k \in Key, k = Current(c), k \notin disturbed'
  PROVE  EntryBacked(k)' /\ \A d \in Client : InHand(d, k)'
<1>1. ~ReliedOn(c, k) /\ UNCHANGED <<entries, todo, loaded, job>>
  BY DEF Clear, Remove, RemoveAll
<1>2. /\ pc[c] \in {"clear", "remove"} /\ pc[c] \in KeySteps
      /\ pc'[c] \in {"clear", "remove", "unpack1", "rename"}
  BY DEF Clear, RemoveAll, Remove, At, To, WorkInv, WorkTypeOK, KeySteps, MakeSteps, InstallSteps
<1>3. entries'[k] = "none"
  BY <1>1 DEF ReliedOn
<1>4. ASSUME NEW d \in Client, d # c
      PROVE  InHand(d, k)'
  <2>1. pc'[d] = pc[d]
    BY <1>4, OthersStay DEF Acts, Step
  <2>2. /\ loaded[d][k] = "none"
        /\ ~(pc[d] \in Working /\ Current(d) = k)
        /\ ~(InJob(d) /\ k \in JobKeys(d) \ ToDo(d))
    BY <1>1, <1>4 DEF ReliedOn
  <2>3. Current(d)' = Current(d) /\ JobKeys(d)' = JobKeys(d) /\ ToDo(d)' = ToDo(d)
    BY <1>1 DEF Current, JobKeys, ToDo
  <2>4. InJob(d)' = InJob(d)
    BY <1>1, <2>1 DEF InJob, At
  <2>5. QED
    BY <1>1, <2>1, <2>2, <2>3, <2>4 DEF InHand, Working
<1>5. InHand(c, k)'
  <2>1. loaded[c][k] = "none"
    BY <1>2 DEF LoadedToWrite
  <2>2. k \in ToDo(c) /\ ToDo(c)' = ToDo(c)
    BY <1>1, <1>2, CurrentKey DEF ToDo
  <2>3. QED
    BY <1>1, <1>2, <2>1, <2>2 DEF InHand
<1>6. QED
  BY <1>3, <1>4, <1>5 DEF EntryBacked

\* Where nothing is removed, the others can count on what they could.
LEMMA OthersInHand ==
  ASSUME WorkInv, NEW c \in Client, Acts(c), NEW d \in Client, d # c,
         NEW k \in Key, InHand(d, k), files[k] \subseteq files'[k]
  PROVE  InHand(d, k)'
<1>1. job' = job /\ pc'[d] = pc[d] /\ todo'[d] = todo[d] /\ loaded'[d] = loaded[d]
  BY OthersStay
<1>2. /\ Current(d)' = Current(d) /\ JobKeys(d)' = JobKeys(d) /\ ToDo(d)' = ToDo(d)
      /\ InJob(d)' = InJob(d)
  BY <1>1 DEF Current, JobKeys, ToDo, InJob, At
<1>3. Whole(k, "downloaded")' \/ ~Whole(k, "downloaded")
  BY WholeStays
<1>4. Whole(k, "built")' \/ ~Whole(k, "built")
  BY WholeStays
<1>5. Whole(k, loaded[d][k]) => Files[loaded[d][k]] \subseteq files'[k]
  BY DEF Whole
<1>6. loaded'[d][k] # "none" => Whole(k, loaded[d][k])'
  BY <1>1, <1>5 DEF InHand, Whole
<1>7. QED
  BY <1>1, <1>2, <1>3, <1>4, <1>6 DEF InHand

LEMMA ActsEntryBacked ==
  ASSUME WorkInv, NEW c \in Client, Acts(c), NEW k \in Key, EntryBacked(k),
         InHand(c, k), files[k] \subseteq files'[k]
  PROVE  EntryBacked(k)'
<1> USE DEF At, To, shared, command
<1>1. entries \in [Key -> Kind]
  BY DEF WorkInv, WorkTypeOK
<1>2. entries'[k] \in {"none", entries[k], loaded[c][k]}
  <2>1. CASE Truncate(c)
    BY <1>1, <2>1 DEF Truncate
  <2>2. CASE Write(c)
    BY <1>1, <2>2 DEF Write, Written, Torn
  <2>3. CASE Kill(c) \/ Fail(c) \/ End(c) \/ RenameFails(c)
    BY <2>3, ExitSteps DEF Exits, Exit
  <2>4. QED
    BY <2>1, <2>2, <2>3
       DEF Acts, Step, SyncModules, LockGraph, Unlock, LookHit, LookMiss, NotPublished,
           Published, Clear, RemoveAll, Unpack, PrepareSource, OnBuild, Writes, Answered, Stage,
           Remove, Rename, Load
<1>3. entries'[k] # "none" => Whole(k, entries'[k])
  BY <1>2 DEF EntryBacked, InHand
<1>4. QED
  BY <1>3 DEF EntryBacked, Whole

\* What c loads is what it has just made, or what .cache.json says.
LEMMA OwnLoaded ==
  ASSUME WorkInv, NEW c \in Client, Acts(c), NEW k \in Key, EntryBacked(k),
         InHand(c, k), files[k] \subseteq files'[k]
  PROVE  loaded'[c][k] # "none" => Whole(k, loaded'[c][k])
<1> USE DEF At, To, shared, command
<1>1. loaded \in [Client -> [Key -> Kind]]
  BY DEF WorkInv, WorkTypeOK
<1>2. CASE Load(c)
  <2>1. pc[c] \in KeySteps
    BY <1>2 DEF Load, KeySteps, MakeSteps
  <2>2. CASE k = Current(c)
    <3>1. loaded'[c][k] = IF pc[c] = "putBuilt" THEN "built" ELSE "downloaded"
      BY <1>1, <1>2, <2>2 DEF Load
    <3>2. pc[c] \in {"putDownloaded", "putBuilt"}
      BY <1>2 DEF Load
    <3>3. QED
      BY <2>1, <2>2, <3>1, <3>2 DEF InHand
  <2>3. CASE k # Current(c)
    <3>1. loaded'[c][k] \in {"none", entries[k]}
      BY <1>1, <1>2, <2>3 DEF Load
    <3>2. QED
      BY <3>1 DEF EntryBacked
  <2>4. QED
    BY <2>2, <2>3
<1>3. CASE Write(c)
  BY <1>1, <1>3 DEF Write, NoEntries
<1>4. CASE Kill(c) \/ Fail(c) \/ End(c) \/ RenameFails(c)
  BY <1>1, <1>4, ExitSteps DEF Exits, Exit, NoEntries
<1>5. CASE loaded' = loaded
  BY <1>5 DEF InHand
<1>6. QED
  BY <1>2, <1>3, <1>4, <1>5
     DEF Acts, Step, SyncModules, LockGraph, Unlock, LookHit, LookMiss, NotPublished,
         Published, Clear, RemoveAll, Unpack, PrepareSource, OnBuild, Writes, Answered, Stage,
         Remove, Rename, Truncate

\* The files that c writes, one after the other, or renames into place.
LEMMA OwnFiles ==
  ASSUME WorkInv, NEW c \in Client, Acts(c), NEW k \in Key, InHand(c, k),
         files[k] \subseteq files'[k], Current(c)' = k
  PROVE  /\ pc'[c] = "unpack2" => "d1" \in files'[k]
         /\ pc'[c] = "putDownloaded" => Whole(k, "downloaded")'
         /\ pc'[c] = "hook2" => "b1" \in files'[k]
         /\ pc'[c] = "putBuilt" => Whole(k, "built")'
<1> USE DEF At, To, shared, command
<1>1. /\ pc \in [Client -> KeySteps \cup {"modules", "request", "unlock", "end"} \cup Ended]
      /\ files \in [Key -> SUBSET {"d1", "d2", "b1", "b2"}]
  BY DEF WorkInv, WorkTypeOK
<1>2. /\ Whole(k, "downloaded")' <=> {"d1", "d2"} \subseteq files'[k]
      /\ Whole(k, "built")' <=> {"b1", "b2"} \subseteq files'[k]
  BY DEF Whole, Files
<1>3. CASE Unpack(c)
  <2>1. pc[c] \in KeySteps /\ Current(c) = k
    BY <1>3 DEF Unpack, Writes, Current, KeySteps, MakeSteps
  <2>2. CASE Writes(c, "unpack1", "d1", "unpack2")
    BY <1>1, <2>1, <2>2 DEF Writes
  <2>3. CASE Writes(c, "unpack2", "d2", "putDownloaded")
    <3>1. "d1" \in files'[k] /\ "d2" \in files'[k] /\ pc'[c] = "putDownloaded"
      BY <1>1, <2>1, <2>3 DEF Writes, InHand
    <3>2. QED
      BY <1>2, <3>1
  <2>4. QED
    BY <1>3, <2>2, <2>3 DEF Unpack
<1>4. CASE OnBuild(c)
  <2>1. pc[c] \in KeySteps /\ Current(c) = k
    BY <1>4 DEF OnBuild, Writes, Current, KeySteps, MakeSteps
  <2>2. CASE Writes(c, "hook1", "b1", "hook2")
    BY <1>1, <2>1, <2>2 DEF Writes
  <2>3. CASE Writes(c, "hook2", "b2", "putBuilt")
    <3>1. "b1" \in files'[k] /\ "b2" \in files'[k] /\ pc'[c] = "putBuilt"
      BY <1>1, <2>1, <2>3 DEF Writes, InHand
    <3>2. QED
      BY <1>2, <3>1
  <2>4. QED
    BY <1>4, <2>2, <2>3 DEF OnBuild
<1>5. CASE Rename(c)
  <2>1. Current(c) = k /\ pc'[c] = "putDownloaded"
    BY <1>1, <1>5 DEF Rename, Current
  <2>2. files'[k] = Files.downloaded
    BY <1>1, <1>5, <2>1 DEF Rename
  <2>3. QED
    BY <1>2, <2>1, <2>2 DEF Files
<1>6. CASE pc'[c] \notin {"unpack2", "putDownloaded", "hook2", "putBuilt"}
  BY <1>6
<1>7. CASE SyncModules(c)
  BY <1>7 DEF SyncModules
<1>8. QED
  BY <1>1, <1>3, <1>4, <1>5, <1>6, <1>7, ExitSteps
     DEF Acts, Step, Exits, Exit, Ended, LockGraph, Unlock, LookHit, LookMiss,
         NotPublished, Published, Clear, RemoveAll, PrepareSource, Answered, Stage, Remove,
         Load, Truncate, Write, Proceed, Done

\* A command goes on to the next key when .cache.json has the current one, or
\* when it has tried to put it there.
LEMMA OwnDone ==
  ASSUME WorkInv, LoadedToWrite, NEW c \in Client, Acts(c), NEW k \in Key,
         EntryBacked(k), InHand(c, k), files[k] \subseteq files'[k],
         InJob(c)', k \in JobKeys(c)' \ ToDo(c)'
  PROVE  Whole(k, "downloaded")' \/ Whole(k, "built")'
<1> USE DEF At, To, shared, command
<1>1. job' = job /\ JobKeys(c)' = JobKeys(c)
  BY OthersStay DEF JobKeys
<1>2. \A kind : Whole(k, kind) => Whole(k, kind)'
  BY DEF Whole
<1>3. \A kind \in Kind \ {"none"} : Whole(k, kind) => Whole(k, "downloaded") \/ Whole(k, "built")
  BY DEF Kind
<1>4. entries[k] \in Kind /\ loaded[c][k] \in Kind
  BY DEF WorkInv, WorkTypeOK
<1>5. CASE LookHit(c) \/ Write(c)
  <2>1. pc[c] \in {"look", "write"} /\ pc[c] \in KeySteps /\ Proceed(c)
    BY <1>5 DEF LookHit, Write, KeySteps
  <2>2. ToDo(c) = {Current(c)} \cup ToDo(c)'
    BY <2>1, ProceedSteps
  <2>3. CASE k # Current(c)
    <3>1. InJob(c) /\ k \in JobKeys(c) \ ToDo(c)
      BY <1>1, <2>1, <2>2, <2>3 DEF Ended, InJob
    <3>2. QED
      BY <1>2, <3>1 DEF InHand
  <2>4. CASE k = Current(c)
    <3>1. CASE LookHit(c)
      BY <1>2, <1>3, <1>4, <2>4, <3>1 DEF LookHit, EntryBacked
    <3>2. CASE Write(c)
      <4>1. loaded[c][k] # "none"
        BY <2>4, <3>2 DEF Write, LoadedToWrite
      <4>2. QED
        BY <1>2, <1>3, <1>4, <4>1 DEF InHand
    <3>3. QED
      BY <1>5, <3>1, <3>2
  <2>5. QED
    BY <2>3, <2>4
<1>6. CASE InJob(c) /\ todo' = todo
  BY <1>1, <1>2, <1>6 DEF InHand, ToDo
<1>7. LookHit(c) \/ Write(c) \/ (InJob(c) /\ todo' = todo)
  <2>1. CASE Kill(c) \/ Fail(c) \/ End(c) \/ RenameFails(c)
    BY <2>1, ExitSteps DEF Exits, Exit, Ended, InJob, WorkInv, WorkTypeOK
  <2>2. QED
    BY <2>1
       DEF Acts, Step, InJob, Ended, SyncModules, LockGraph, Unlock, LookMiss,
           NotPublished, Published, Clear, RemoveAll, Unpack, PrepareSource, OnBuild,
           Writes, Answered, Stage, Remove, Rename, Load, Truncate
<1>8. QED
  BY <1>5, <1>6, <1>7

LEMMA ActsBacked ==
  ASSUME WorkInv, LoadedToWrite, EmptyUnlessThere, Backed, NEW c \in Client, Acts(c)
  PROVE  Backed'
<1>1. SUFFICES ASSUME NEW k \in Key, k \notin disturbed'
               PROVE  EntryBacked(k)' /\ \A d \in Client : InHand(d, k)'
  BY DEF Backed
<1>2. EntryBacked(k) /\ \A d \in Client : InHand(d, k)
  BY <1>1, DirSteps DEF Backed
<1>3. CASE k = Current(c) /\ (Clear(c) \/ Remove(c))
  BY <1>1, <1>3, ClearedNotRelied
<1>4. CASE files[k] \subseteq files'[k]
  <2>1. EntryBacked(k)'
    BY <1>2, <1>4, ActsEntryBacked
  <2>2. ASSUME NEW d \in Client, d # c
        PROVE  InHand(d, k)'
    BY <1>2, <1>4, <2>2, OthersInHand
  <2>3. InHand(c, k)'
    <3>1. (loaded[c][k] # "none" => Whole(k, loaded[c][k]))'
      BY <1>2, <1>4, OwnLoaded DEF Whole
    <3>2. Current(c)' = k =>
            /\ pc'[c] = "unpack2" => "d1" \in files'[k]
            /\ pc'[c] = "putDownloaded" => Whole(k, "downloaded")'
            /\ pc'[c] = "hook2" => "b1" \in files'[k]
            /\ pc'[c] = "putBuilt" => Whole(k, "built")'
      BY <1>2, <1>4, OwnFiles
    <3>3. InJob(c)' /\ k \in JobKeys(c)' \ ToDo(c)' =>
            Whole(k, "downloaded")' \/ Whole(k, "built")'
      BY <1>2, <1>4, OwnDone
    <3>4. QED
      BY <3>1, <3>2, <3>3 DEF InHand
  <2>4. QED
    BY <2>1, <2>2, <2>3
<1>5. QED
  BY <1>3, <1>4, DirSteps

-----------------------------------------------------------------------------
(* What the locks are for. *)

\* c is between its locks and the end of its Build, and has a key that .cache.json keeps
\* beside k.
Uses(c, k) ==
  /\ pc[c] \notin Ended \cup {"modules", "end"}
  /\ \E j \in JobKeys(c) : PathOf[j] = PathOf[k]

LEMMA OneMaker ==
  ASSUME WorkInv, HoldsLocks, NEW k \in Key, NoInstallNear(k),
         NEW c \in Client, Uses(c, k), NEW d \in Client, Uses(d, k)
  PROVE  c = d
<1>1. ASSUME NEW e \in Client, Uses(e, k)
      PROVE  lock[PathOf[k]] = e
  <2>1. PICK j \in JobKeys(e) : PathOf[j] = PathOf[k]
    BY <1>1 DEF Uses
  <2>2. j \in JobKeys(e) \cap Siblings(k)
    BY <2>1, JobTypes DEF Siblings, WorkInv
  <2>3. job[e].kind # "install"
    BY <2>2 DEF NoInstallNear, Installs
  <2>4. job[e].kind \in {"make", "install", "nothing"} /\ job[e].kind # "nothing"
    BY <1>1, JobTypes DEF Uses, WorkInv, Control, Job
  <2>5. QED
    BY <1>1, <2>1, <2>3, <2>4 DEF HoldsLocks, Locking, Uses
<1>2. QED
  BY <1>1

LEMMA CurrentUses ==
  ASSUME WorkInv, NEW c \in Client, pc[c] \in KeySteps,
         NEW k \in Key, PathOf[Current(c)] = PathOf[k]
  PROVE  Uses(c, k)
BY CurrentKey DEF Uses, KeySteps, MakeSteps, InstallSteps, Ended

LEMMA NearStays ==
  ASSUME WorkInv, NEW c \in Client, Acts(c), NEW k
  PROVE  NoInstallNear(k)' <=> NoInstallNear(k)
BY OthersStay DEF NoInstallNear, Installs, JobKeys

\* Who clears k's directory relies on nobody else being there.
LEMMA ClearsAlone ==
  ASSUME WorkInv, HoldsLocks, LoadedToWrite, Exclusive, NEW k \in Key,
         NoInstallNear(k), NEW c \in Client, Clear(c) \/ Remove(c), Current(c) = k
  PROVE  ~ReliedOn(c, k)
<1>1. pc[c] \in {"clear", "remove"} /\ pc[c] \in KeySteps
  BY DEF Clear, RemoveAll, Remove, At, KeySteps, MakeSteps, InstallSteps
<1>2. k \in JobKeys(c) /\ k \in Siblings(k)
  BY <1>1, CurrentKey DEF Siblings
<1>3. pc[c] = "clear"
  BY <1>1, <1>2 DEF NoInstallNear, Installs, WorkInv, Control, InstallSteps
<1>4. entries[k] = "none"
  BY <1>3 DEF Exclusive
<1>5. Uses(c, k)
  BY <1>1, CurrentUses
<1>6. ASSUME NEW d \in Client \ {c}
      PROVE  /\ loaded[d][k] = "none"
             /\ ~(pc[d] \in Working /\ Current(d) = k)
             /\ ~(InJob(d) /\ k \in JobKeys(d) \ ToDo(d))
  <2>1. ~Uses(d, k)
    BY <1>5, <1>6, OneMaker
  <2>2. loaded[d][k] = "none"
    <3>1. loaded[d][k] # "none" =>
            pc[d] \in {"truncate", "write"} /\ PathOf[Current(d)] = PathOf[k]
      BY DEF LoadedToWrite
    <3>2. QED
      BY <2>1, <3>1, CurrentUses DEF KeySteps
  <2>3. ~(pc[d] \in Working /\ Current(d) = k)
    BY <2>1, CurrentUses DEF Working, KeySteps, MakeSteps, InstallSteps
  <2>4. pc[d] = "modules" => ToDo(d) = JobKeys(d)
    BY DEF WorkInv, Control, ToDo, JobKeys
  <2>5. pc[d] = "end" /\ InJob(d) => k \notin JobKeys(d)
    BY <1>2, JobTypes
       DEF NoInstallNear, Installs, InJob, At, Ended, WorkInv, Control, Job
  <2>6. QED
    BY <2>1, <2>2, <2>3, <2>4, <2>5 DEF Uses, InJob
<1>7. QED
  BY <1>4, <1>6 DEF ReliedOn

LEMMA ActsExclusive ==
  ASSUME WorkInv, HoldsLocks, LoadedToWrite, Exclusive, NEW c \in Client, Acts(c)
  PROVE  Exclusive'
<1> USE DEF At, To, shared, command
<1>1. SUFFICES ASSUME NEW k \in Key, NoInstallNear(k)'
               PROVE  /\ k \notin disturbed'
                      /\ \A d \in Client :
                           pc'[d] \in {"remote", "clear"} /\ Current(d)' = k =>
                             entries'[k] = "none"
  BY DEF Exclusive
<1>2. NoInstallNear(k)
  BY <1>1, NearStays
<1>3. k \notin disturbed'
  <2>1. k \notin disturbed
    BY <1>2 DEF Exclusive
  <2>2. CASE Clear(c) \/ Remove(c)
    BY <1>2, <2>1, <2>2, ClearsAlone DEF Clear, Remove, RemoveAll
  <2>3. CASE Kill(c) \/ Fail(c) \/ End(c) \/ RenameFails(c)
    BY <2>1, <2>3, ExitSteps DEF Exits, Exit
  <2>4. QED
    BY <2>1, <2>2, <2>3
       DEF Acts, Step, SyncModules, LockGraph, Unlock, LookHit, LookMiss, NotPublished,
           Published, PrepareSource, Unpack, OnBuild, Writes, Answered, Stage, Rename,
           Load, Truncate, Write
<1>4. ASSUME NEW d \in Client, d # c, pc'[d] \in {"remote", "clear"}, Current(d)' = k
      PROVE  entries'[k] = "none"
  <2>1. pc[d] = pc'[d] /\ Current(d) = k
    BY <1>4, OthersStay DEF Current
  <2>2. entries[k] = "none" /\ Uses(d, k)
    BY <1>2, <1>4, <2>1, CurrentUses DEF Exclusive, KeySteps, MakeSteps
  <2>3. ~Uses(c, k)
    BY <1>2, <1>4, <2>2, OneMaker
  <2>4. CASE Write(c)
    <3>1. k \notin Siblings(Current(c))
      BY <2>3, <2>4, CurrentUses DEF Write, Siblings, KeySteps
    <3>2. QED
      BY <2>2, <2>4, <3>1 DEF Write, Written, Torn, WorkInv, WorkTypeOK
  <2>5. CASE Truncate(c)
    BY <2>2, <2>5 DEF Truncate
  <2>6. CASE Kill(c) \/ Fail(c) \/ End(c) \/ RenameFails(c)
    BY <2>2, <2>6, ExitSteps DEF Exits, Exit
  <2>7. QED
    BY <2>2, <2>4, <2>5, <2>6
       DEF Acts, Step, SyncModules, LockGraph, Unlock, LookHit, LookMiss, NotPublished,
           Published, Clear, RemoveAll, PrepareSource, Unpack, OnBuild, Writes, Answered, Stage,
           Remove, Rename, Load
<1>5. ASSUME pc'[c] \in {"remote", "clear"}, Current(c)' = k
      PROVE  entries'[k] = "none"
  <2>1. LookMiss(c) \/ Published(c) \/ Clear(c)
    BY <1>5, ExitSteps
       DEF WorkInv, WorkTypeOK, Acts, Step, Exits, Exit, Ended, SyncModules, LockGraph,
           Unlock, LookHit, NotPublished, PrepareSource, Unpack, OnBuild, Writes, Answered,
           Stage, Remove, RemoveAll, Rename, Load, Truncate, Write, Proceed, Done
  <2>2. Current(c) = k /\ entries' = entries
    BY <1>5, <2>1 DEF LookMiss, Published, Clear, RemoveAll, Current
  <2>3. QED
    BY <1>2, <2>1, <2>2 DEF LookMiss, Published, Clear, RemoveAll, Exclusive
<1>6. QED
  BY <1>3, <1>4, <1>5

-----------------------------------------------------------------------------
(* What the entries beside the one that is written become. *)

\* A step that is none of localCache.Put leaves every entry, and who is not
\* in it before is not in the middle of it after.
LEMMA QuietSteps ==
  ASSUME WorkInv, NEW c \in Client, Acts(c), ~Truncate(c), ~Write(c)
  PROVE  /\ entries' = entries /\ put' = put
         /\ pc'[c] # "write"
         /\ pc'[c] = "truncate" <=> Load(c)
         /\ pc[c] = "write" => pc'[c] = "killed"
<1> USE DEF At, To, shared, command
<1>1. pc \in [Client -> KeySteps \cup {"modules", "request", "unlock", "end"} \cup Ended]
  BY DEF WorkInv, WorkTypeOK
<1>2. CASE Kill(c)
  BY <1>1, <1>2 DEF Kill, Exit, Load
<1>3. CASE Fail(c) \/ End(c) \/ RenameFails(c)
  <2>1. entries' = entries /\ put' = put /\ pc'[c] \in {"failed", "ok"}
    BY <1>1, <1>3 DEF Fail, End, RenameFails, Exit
  <2>2. pc[c] # "write"
    BY <1>3 DEF Fail, At, MayFail, End, RenameFails
  <2>3. QED
    BY <1>1, <2>1, <2>2 DEF Load
<1>4. CASE Load(c)
  BY <1>1, <1>4 DEF Load
<1>5. QED
  BY <1>1, <1>2, <1>3, <1>4
     DEF Acts, Step, SyncModules, LockGraph, Unlock, LookHit, LookMiss, NotPublished,
         Published, Clear, RemoveAll, PrepareSource, Unpack, OnBuild, Writes, Answered, Stage,
         Remove, Rename, Load, Proceed, Done

LEMMA ActsEmptied ==
  ASSUME WorkInv, HoldsLocks, LoadedToWrite, Emptied, NEW c \in Client, Acts(c)
  PROVE  Emptied'
<1> USE DEF At, To
<1>1. SUFFICES ASSUME NEW k \in Key, NoInstallNear(k)', NEW d \in Client,
                      pc'[d] = "write", PathOf[Current(d)'] = PathOf[k]
               PROVE  entries'[k] = "none"
  BY DEF Emptied
<1>2. NoInstallNear(k)
  BY <1>1, NearStays
<1>3. CASE Truncate(c)
  <2>1. entries' = [j \in Key |-> IF j \in Siblings(Current(c)) THEN "none" ELSE entries[j]]
        /\ todo' = todo
    BY <1>3 DEF Truncate
  <2>2. CASE d = c
    BY <1>1, <2>1, <2>2 DEF Siblings, Current
  <2>3. CASE d # c
    BY <1>1, <1>2, <2>1, <2>3, OthersStay DEF Emptied, Current
  <2>4. QED
    BY <2>2, <2>3
<1>4. CASE Write(c)
  <2>1. pc[c] = "write" /\ pc[c] \in KeySteps /\ pc'[c] \in {"look", "unlock", "end"}
    BY <1>4, ProceedSteps DEF Write, KeySteps
  <2>2. d # c /\ pc[d] = "write" /\ PathOf[Current(d)] = PathOf[k]
    BY <1>1, <2>1, OthersStay DEF Current
  <2>3. entries[k] = "none" /\ Uses(d, k)
    BY <1>2, <2>2, CurrentUses DEF Emptied, KeySteps
  <2>4. k \notin Siblings(Current(c))
    BY <1>2, <2>1, <2>2, <2>3, OneMaker, CurrentUses DEF Siblings
  <2>5. QED
    BY <1>4, <2>3, <2>4 DEF Write, Written, Torn, WorkInv, WorkTypeOK
<1>5. CASE ~Truncate(c) /\ ~Write(c)
  <2>1. d # c /\ entries' = entries
    BY <1>1, <1>5, QuietSteps
  <2>2. QED
    BY <1>1, <1>2, <2>1, OthersStay DEF Emptied, Current
<1>6. QED
  BY <1>3, <1>4, <1>5

\* Nobody acts once it has ended, and who was killed stays so.
LEMMA UnsettledStays ==
  ASSUME WorkInv, NEW c \in Client, Acts(c), NEW k, ~Unsettled(k)'
  PROVE  /\ pc[c] \notin Ended
         /\ ~Unsettled(k) /\ NoInstallNear(k)
         /\ pc'[c] = "killed" => JobKeys(c) \cap Siblings(k) = {}
<1>1. pc[c] \notin Ended
  BY DEF Acts, Step, At, Kill, Ended, Fail, MayFail, End, SyncModules, LockGraph, Unlock,
         LookHit, LookMiss, NotPublished, Published, Clear, RemoveAll, PrepareSource,
         Unpack, OnBuild, Writes, Answered, Stage, Remove, Rename, RenameFails, Load,
         Truncate, Write
<1>2. \A d \in Client : JobKeys(d)' = JobKeys(d) /\ Installs(d)' = Installs(d)
  BY OthersStay DEF JobKeys, Installs
<1>3. \A d \in Client : At(d, "killed") => At(d, "killed")'
  BY <1>1, OthersStay DEF At, Ended
<1>4. QED
  BY <1>1, <1>2, <1>3 DEF Unsettled, NoInstallNear, At

LEMMA ActsKept ==
  ASSUME WorkInv, HoldsLocks, LoadedToWrite, Emptied, Kept, NEW c \in Client, Acts(c)
  PROVE  Kept'
<1> USE DEF At, To
<1>1. SUFFICES ASSUME NEW k \in put', ~Unsettled(k)'
               PROVE  /\ entries'[k] # "none"
                         \/ \E d \in Client : pc'[d] = "write" /\ loaded'[d][k] # "none"
                      /\ \A d \in Client :
                           pc'[d] = "truncate" /\ PathOf[Current(d)'] = PathOf[k] =>
                             loaded'[d][k] # "none"
  BY DEF Kept
<1>2. k \in Key
  BY ActsTypeOK DEF WorkTypeOK
<1>3. /\ NoInstallNear(k) /\ ~Unsettled(k)
      /\ pc'[c] = "killed" => JobKeys(c) \cap Siblings(k) = {}
  BY <1>1, UnsettledStays
<1>4. \A d \in Client : d # c =>
        /\ pc'[d] = pc[d] /\ loaded'[d] = loaded[d] /\ Current(d)' = Current(d)
  BY OthersStay DEF Current
<1>5. /\ entries \in [Key -> Kind] /\ loaded \in [Client -> [Key -> Kind]]
      /\ pc \in [Client -> KeySteps \cup {"modules", "request", "unlock", "end"} \cup Ended]
  BY DEF WorkInv, WorkTypeOK
<1>6. CASE Truncate(c)
  <2>1. k \in put /\ pc[c] = "truncate" /\ pc'[c] = "write" /\ loaded' = loaded
    BY <1>1, <1>5, <1>6 DEF Truncate
  <2>2. CASE PathOf[k] = PathOf[Current(c)]
    <3>1. loaded'[c][k] # "none"
      BY <1>3, <2>1, <2>2 DEF Kept
    <3>2. QED
      BY <1>3, <1>4, <2>1, <3>1 DEF Kept
  <2>3. CASE PathOf[k] # PathOf[Current(c)]
    <3>1. entries'[k] = entries[k]
      BY <1>2, <1>6, <2>3 DEF Truncate, Siblings
    <3>2. QED
      BY <1>3, <1>4, <2>1, <3>1 DEF Kept
  <2>4. QED
    BY <2>2, <2>3
<1>7. CASE Write(c)
  <2>1. pc[c] = "write" /\ pc[c] \in KeySteps /\ pc'[c] \in {"look", "unlock", "end"}
    BY <1>7, ProceedSteps DEF Write, KeySteps
  <2>2. CASE PathOf[k] = PathOf[Current(c)]
    <3>1. Uses(c, k) /\ k \in Siblings(Current(c))
      BY <1>2, <2>1, <2>2, CurrentUses DEF Siblings
    <3>2. \A d \in Client : d # c /\ pc[d] \in {"truncate", "write"} => PathOf[Current(d)] # PathOf[k]
      BY <1>2, <1>3, <3>1, OneMaker, CurrentUses DEF KeySteps
    <3>3. \A j \in Siblings(Current(c)) : NoInstallNear(j) /\ PathOf[Current(c)] = PathOf[j]
      BY <1>3, <2>2 DEF Siblings, NoInstallNear
    <3>4. \A j \in Siblings(Current(c)) : entries[j] = "none"
      BY <2>1, <3>3 DEF Emptied, Siblings
    <3>5. Written(c)
      BY <1>7, <3>4 DEF Write, Torn
    <3>6. entries'[k] = loaded[c][k]
      BY <1>2, <3>1, <3>5 DEF Written
    <3>7. loaded[c][k] # "none"
      <4>1. CASE k = Current(c)
        BY <2>1, <4>1 DEF LoadedToWrite
      <4>2. CASE k # Current(c)
        <5>1. k \in put
          BY <1>1, <3>5, <4>2 DEF Written
        <5>2. PICK d \in Client : pc[d] = "write" /\ loaded[d][k] # "none"
          BY <1>3, <3>1, <3>4, <5>1 DEF Kept
        <5>3. PathOf[k] = PathOf[Current(d)]
          BY <1>2, <5>2 DEF LoadedToWrite
        <5>4. QED
          BY <3>2, <5>2, <5>3
      <4>3. QED
        BY <4>1, <4>2
    <3>8. QED
      BY <1>4, <2>1, <3>2, <3>6, <3>7
  <2>3. CASE PathOf[k] # PathOf[Current(c)]
    <3>1. entries'[k] = entries[k] /\ k \in put
      BY <1>1, <1>2, <1>7, <2>3 DEF Write, Written, Torn, Siblings
    <3>2. loaded[c][k] = "none"
      BY <1>2, <2>3 DEF LoadedToWrite
    <3>3. QED
      BY <1>3, <1>4, <2>1, <3>1, <3>2 DEF Kept
  <2>4. QED
    BY <2>2, <2>3
<1>8. CASE ~Truncate(c) /\ ~Write(c)
  <2>1. /\ entries' = entries /\ put' = put /\ pc'[c] # "write"
        /\ pc[c] = "write" => pc'[c] = "killed"
    BY <1>8, QuietSteps
  <2>2. entries'[k] # "none"
        \/ \E d \in Client : pc'[d] = "write" /\ loaded'[d][k] # "none"
    <3>1. ASSUME pc[c] = "write", loaded[c][k] # "none"
          PROVE  FALSE
      <4>1. PathOf[Current(c)] = PathOf[k] /\ pc[c] \in KeySteps
        BY <1>2, <3>1 DEF LoadedToWrite, KeySteps
      <4>2. Current(c) \in JobKeys(c) \cap Siblings(k)
        BY <4>1, CurrentKey DEF Siblings
      <4>3. QED
        BY <1>3, <2>1, <3>1, <4>2
    <3>2. QED
      BY <1>1, <1>3, <1>4, <2>1, <3>1 DEF Kept
  <2>3. ASSUME NEW d \in Client, d # c, pc'[d] = "truncate",
               PathOf[Current(d)'] = PathOf[k]
        PROVE  loaded'[d][k] # "none"
    BY <1>1, <1>3, <1>4, <2>1, <2>3 DEF Kept
  <2>4. ASSUME pc'[c] = "truncate", PathOf[Current(c)'] = PathOf[k]
        PROVE  loaded'[c][k] # "none"
    <3>1. Load(c)
      BY <1>8, <2>4, QuietSteps
    <3>2. PathOf[Current(c)] = PathOf[k] /\ pc[c] \in KeySteps
      BY <2>4, <3>1 DEF Load, Current, KeySteps, MakeSteps
    <3>3. entries[k] # "none"
      <4>1. ASSUME NEW d \in Client, pc[d] = "write", loaded[d][k] # "none"
            PROVE  FALSE
        <5>1. PathOf[k] = PathOf[Current(d)]
          BY <1>2, <4>1 DEF LoadedToWrite
        <5>2. Uses(c, k) /\ Uses(d, k)
          BY <1>2, <3>2, <4>1, <5>1, CurrentUses DEF KeySteps
        <5>3. QED
          BY <1>2, <1>3, <3>1, <4>1, <5>2, OneMaker DEF Load
      <4>2. QED
        BY <1>1, <1>3, <2>1, <4>1 DEF Kept
    <3>4. QED
      BY <1>2, <1>5, <3>1, <3>2, <3>3 DEF Load
  <2>5. QED
    BY <2>2, <2>3, <2>4
<1>9. QED
  BY <1>6, <1>7, <1>8

-----------------------------------------------------------------------------
(* What installs leave. *)

LEMMA ActsInstallIsWhole ==
  ASSUME WorkInv, InstallIsWhole, NEW c \in Client, Acts(c)
  PROVE  InstallIsWhole'
<1> USE DEF At, To, shared, command
<1> DEFINE LeftBy(d, k) == /\ Installs(d) /\ todo[d] # <<>> /\ Current(d) = k
                           /\ pc[d] \in {"remove", "failed", "killed"}
<1>1. SUFFICES ASSUME NEW k \in there',
                      \A d \in Client : k \in JobKeys(d) => Installs(d)
               PROVE  files'[k] = Files.downloaded \/ \E d \in Client : LeftBy(d, k)'
  BY OthersStay DEF InstallIsWhole, Installs, JobKeys
<1>2. k \in there => files[k] = Files.downloaded \/ \E d \in Client : LeftBy(d, k)
  BY <1>1 DEF InstallIsWhole
<1>3. /\ files \in [Key -> SUBSET {"d1", "d2", "b1", "b2"}]
      /\ pc \in [Client -> KeySteps \cup {"modules", "request", "unlock", "end"} \cup Ended]
      /\ there \subseteq Key /\ there' \subseteq Key
  BY ActsTypeOK DEF WorkInv, WorkTypeOK
<1>4. ASSUME NEW d \in Client, d # c, LeftBy(d, k)
      PROVE  LeftBy(d, k)'
  BY <1>4, OthersStay DEF Installs, Current
<1>5. CASE Remove(c) /\ Current(c) = k
  <2>1. pc[c] = "remove" /\ pc[c] \in KeySteps /\ todo' = todo /\ job' = job
    BY <1>5 DEF Remove, RemoveAll, KeySteps, InstallSteps
  <2>2. pc' = pc
    BY <1>1, <1>5 DEF Remove, RemoveAll
  <2>3. Installs(c) /\ todo[c] # <<>>
    BY <2>1 DEF WorkInv, Control, Installs, InstallSteps
  <2>4. LeftBy(c, k)'
    BY <1>5, <2>1, <2>2, <2>3 DEF Installs, Current
  <2>5. QED
    BY <2>4
<1>6. CASE Rename(c) /\ Current(c) = k
  BY <1>3, <1>6 DEF Rename
<1>7. CASE ~(Remove(c) /\ Current(c) = k) /\ ~(Rename(c) /\ Current(c) = k)
  <2>1. Clear(c) \/ PrepareSource(c) \/ Unpack(c) \/ OnBuild(c) => Current(c) # k
    <3>1. ASSUME Clear(c) \/ PrepareSource(c) \/ Unpack(c) \/ OnBuild(c), Current(c) = k
          PROVE  FALSE
      <4>1. pc[c] \in MakeSteps /\ pc[c] \in KeySteps
        BY <3>1
           DEF Clear, RemoveAll, PrepareSource, Unpack, OnBuild, Writes, MakeSteps, KeySteps
      <4>2. Installs(c)
        BY <1>1, <3>1, <4>1, CurrentKey
      <4>3. QED
        BY <4>1, <4>2 DEF WorkInv, Control, Installs
    <3>2. QED
      BY <3>1
  <2>2. CASE Clear(c) \/ Remove(c) \/ PrepareSource(c) \/ Unpack(c) \/ OnBuild(c) \/ Rename(c)
    <3>1. Current(c) # k
      BY <1>7, <2>1, <2>2
    <3>2. files'[k] = files[k]
      BY <1>1, <1>3, <2>2, <3>1
         DEF Clear, Remove, RemoveAll, PrepareSource, Unpack, OnBuild, Writes, Rename
    <3>3. k \in there
      BY <1>1, <1>3, <2>2, <3>1
         DEF Clear, Remove, RemoveAll, PrepareSource, Unpack, OnBuild, Writes, Rename
    <3>4. ASSUME LeftBy(c, k) PROVE FALSE
      BY <2>2, <3>1, <3>4
    <3>5. QED
      BY <1>2, <1>4, <3>2, <3>3, <3>4
  <2>3. CASE Kill(c) \/ Fail(c) \/ End(c) \/ RenameFails(c)
    <3>1. /\ files' = files /\ there' = there /\ todo' = todo /\ job' = job
          /\ pc[c] \notin Ended /\ pc'[c] \in Ended /\ (pc'[c] = "ok" => pc[c] = "end")
      BY <1>3, <2>3, ExitSteps DEF Exits, Exit
    <3>2. LeftBy(c, k) => LeftBy(c, k)'
      BY <3>1 DEF Installs, Current, Ended
    <3>3. QED
      BY <1>1, <1>2, <1>4, <3>1, <3>2
  <2>4. CASE /\ files' = files /\ there' = there
             /\ pc[c] \notin {"remove", "failed", "killed"}
    BY <1>1, <1>2, <1>4, <2>4
  <2>5. QED
    BY <2>2, <2>3, <2>4
       DEF Acts, Step, SyncModules, LockGraph, Unlock, LookHit, LookMiss, NotPublished,
           Published, Answered, Stage, Load, Truncate, Write
<1>8. QED
  BY <1>5, <1>6, <1>7

-----------------------------------------------------------------------------
(* What a make has made stays, also while it writes its result unlocked. *)

LEMMA ActsEntriesWerePut ==
  ASSUME WorkInv, LoadedToWrite, EntriesWerePut, NEW c \in Client, Acts(c)
  PROVE  EntriesWerePut' /\ put \subseteq put'
<1> USE DEF At, To, shared, command
<1>1. put \subseteq put'
  <2>1. CASE Write(c)
    BY <2>1 DEF Write, Written, Torn
  <2>2. CASE Truncate(c)
    BY <2>2 DEF Truncate
  <2>3. QED
    BY <2>1, <2>2, QuietSteps
<1> SUFFICES ASSUME NEW k \in Key
             PROVE  /\ entries'[k] # "none" => k \in put'
                    /\ \A d \in Client :
                         loaded'[d][k] # "none" => k \in put' \/ k = Current(d)'
  BY <1>1 DEF EntriesWerePut
<1>2. /\ entries[k] # "none" => k \in put
      /\ \A d \in Client : loaded[d][k] # "none" => k \in put \/ k = Current(d)
      /\ loaded[c][k] # "none" => pc[c] \in {"truncate", "write"}
  BY DEF EntriesWerePut, LoadedToWrite
<1>3. \A d \in Client : d # c => loaded'[d] = loaded[d] /\ Current(d)' = Current(d)
  BY OthersStay DEF Current
<1>4. /\ entries \in [Key -> Kind] /\ loaded \in [Client -> [Key -> Kind]]
      /\ pc \in [Client -> KeySteps \cup {"modules", "request", "unlock", "end"} \cup Ended]
  BY DEF WorkInv, WorkTypeOK
<1>5. CASE Load(c)
  <2>1. UNCHANGED <<entries, put>> /\ Current(c)' = Current(c)
    BY <1>5 DEF Load, Current
  <2>2. loaded'[c][k] # "none" => k = Current(c) \/ entries[k] # "none"
    BY <1>4, <1>5 DEF Load
  <2>3. QED
    BY <1>2, <1>3, <2>1, <2>2
<1>6. CASE Truncate(c)
  <2>1. put' = put /\ loaded' = loaded /\ Current(c)' = Current(c)
    BY <1>6 DEF Truncate, Current
  <2>2. entries'[k] \in {"none", entries[k]}
    BY <1>6 DEF Truncate
  <2>3. QED
    BY <1>2, <1>3, <2>1, <2>2
<1>7. CASE Write(c)
  <2>1. loaded'[c][k] = "none"
    BY <1>4, <1>7 DEF Write, NoEntries
  <2>2. put \subseteq put' /\ (entries'[k] # "none" => k \in put')
    <3>1. CASE Torn(c)
      BY <1>2, <3>1 DEF Torn
    <3>2. CASE Written(c)
      BY <1>2, <3>2 DEF Written
    <3>3. QED
      BY <1>7, <3>1, <3>2 DEF Write
  <2>3. QED
    BY <1>2, <1>3, <2>1, <2>2
<1>8. CASE Kill(c) \/ Fail(c) \/ End(c) \/ RenameFails(c)
  <2>1. entries' = entries /\ put' = put /\ loaded'[c][k] = "none"
    BY <1>4, <1>8, ExitSteps DEF Exits, Exit, NoEntries
  <2>2. QED
    BY <1>2, <1>3, <2>1
<1>9. CASE UNCHANGED <<entries, put, loaded>> /\ pc[c] \notin {"truncate", "write"}
  BY <1>2, <1>3, <1>9
<1>10. QED
  BY <1>5, <1>6, <1>7, <1>8, <1>9
     DEF Acts, Step, SyncModules, LockGraph, Unlock, LookHit, LookMiss, NotPublished,
         Published, Clear, RemoveAll, Unpack, PrepareSource, OnBuild, Writes, Answered,
         Stage, Remove, Rename

\* Nobody clears a key that was put, where the entry is kept.
LEMMA PutStays ==
  ASSUME WorkInv, HoldsLocks, LoadedToWrite, Exclusive, Kept, NEW c \in Client,
         Clear(c) \/ Remove(c), NEW k \in put, k = Current(c), ~Unsettled(k)
  PROVE  FALSE
<1>1. k \in Key /\ NoInstallNear(k)
  BY DEF WorkInv, WorkTypeOK, Unsettled, NoInstallNear
<1>2. pc[c] \in {"clear", "remove"} /\ pc[c] \in KeySteps
  BY DEF Clear, Remove, RemoveAll, At, KeySteps, MakeSteps, InstallSteps
<1>3. pc[c] = "clear"
  BY <1>1, <1>2, CurrentKey
     DEF NoInstallNear, Installs, Siblings, WorkInv, Control, InstallSteps
<1>4. entries[k] = "none"
  BY <1>1, <1>3 DEF Exclusive
<1>5. PICK d \in Client : pc[d] = "write" /\ loaded[d][k] # "none"
  BY <1>4 DEF Kept
<1>6. PathOf[Current(d)] = PathOf[k] /\ pc[d] \in KeySteps
  BY <1>1, <1>5 DEF LoadedToWrite, KeySteps
<1>7. Uses(c, k) /\ Uses(d, k)
  BY <1>1, <1>2, <1>6, CurrentUses
<1>8. QED
  BY <1>1, <1>3, <1>5, <1>7, OneMaker

LEMMA ActsMadeStays ==
  ASSUME WorkInv, HoldsLocks, LoadedToWrite, EmptyUnlessThere, Backed, Exclusive,
         Emptied, Kept, EntriesWerePut, MadeStays, NEW c \in Client, Acts(c)
  PROVE  MadeStays'
<1> USE DEF At, To
<1>1. SUFFICES ASSUME NEW k \in Key, ~Unsettled(k)', NEW d \in Client
               PROVE  Made(d, k)'
  BY DEF MadeStays
<1>2. ~Unsettled(k) /\ NoInstallNear(k) /\ pc[c] \notin Ended
  BY <1>1, UnsettledStays
<1>3. k \notin disturbed /\ EntryBacked(k) /\ InHand(c, k)
  BY <1>2 DEF Exclusive, Backed
<1>4. k \in put => files[k] \subseteq files'[k]
  BY <1>2, PutStays, DirSteps
<1>5. put \subseteq put'
  BY ActsEntriesWerePut
<1>6. job' = job /\ JobKeys(d)' = JobKeys(d)
  BY OthersStay DEF JobKeys
<1>7. CASE k \in put /\ (Whole(k, "downloaded") \/ Whole(k, "built"))
  BY <1>4, <1>5, <1>7, WholeStays DEF Made
<1>8. CASE d # c
  BY <1>2, <1>6, <1>7, <1>8, OthersStay DEF MadeStays, Made, ToDo
<1>9. CASE d = c /\ ToDo(c)' = ToDo(c)
  BY <1>2, <1>6, <1>7, <1>9 DEF MadeStays, Made
<1>10. CASE d = c /\ (LookHit(c) \/ Write(c))
  <2>1. pc[c] \in KeySteps /\ Proceed(c) /\ ToDo(c) = {Current(c)} \cup ToDo(c)'
    BY <1>10, ProceedSteps DEF LookHit, Write, KeySteps
  <2>2. CASE k # Current(c)
    BY <1>2, <1>6, <1>7, <1>10, <2>1, <2>2 DEF MadeStays, Made
  <2>3. CASE k = Current(c) /\ LookHit(c)
    <3>1. entries[k] \in {"downloaded", "built"}
      BY <2>3 DEF LookHit, WorkInv, WorkTypeOK, Kind
    <3>2. k \in put /\ (Whole(k, "downloaded") \/ Whole(k, "built"))
      BY <1>3, <3>1 DEF EntryBacked, EntriesWerePut
    <3>3. QED
      BY <1>7, <3>2
  <2>4. CASE k = Current(c) /\ Write(c)
    <3>1. pc[c] = "write" /\ loaded[c][k] \in {"downloaded", "built"}
      BY <2>4 DEF Write, LoadedToWrite, WorkInv, WorkTypeOK, Kind
    <3>2. Whole(k, "downloaded") \/ Whole(k, "built")
      BY <1>3, <3>1 DEF InHand
    <3>3. \A j \in Siblings(k) : j \in Key /\ NoInstallNear(j) /\ PathOf[k] = PathOf[j]
      BY <1>2 DEF Siblings, NoInstallNear
    <3>4. \A j \in Siblings(k) : entries[j] = "none"
      BY <2>4, <3>1, <3>3 DEF Emptied
    <3>5. k \in put' /\ files' = files
      BY <2>4, <3>4 DEF Write, Torn, Written
    <3>6. QED
      BY <3>2, <3>5 DEF Made, Whole
  <2>5. QED
    BY <1>10, <2>2, <2>3, <2>4
<1>11. LookHit(c) \/ Write(c) \/ todo' = todo
  BY ExitSteps
     DEF Acts, Step, Exits, Exit, SyncModules, LockGraph, Unlock, LookMiss, NotPublished,
         Published, Clear, RemoveAll, Unpack, PrepareSource, OnBuild, Writes, Answered,
         Stage, Remove, Rename, Load, Truncate, command, shared
<1>12. QED
  BY <1>8, <1>9, <1>10, <1>11 DEF ToDo

-----------------------------------------------------------------------------
(* The theorems. *)

Inv ==
  /\ StoreInv
  /\ WorkInv
  /\ HoldsLocks
  /\ LoadedToWrite
  /\ EmptyUnlessThere
  /\ Backed
  /\ Exclusive
  /\ Emptied
  /\ Kept
  /\ EntriesWerePut
  /\ MadeStays
  /\ InstallIsWhole

LEMMA InitInv == Init => Inv
<1> SUFFICES ASSUME Init PROVE Inv
  OBVIOUS
<1>1. WorkTypeOK
  BY WorkInitTypeOK
<1>2. \A c \in Client : job[c] \in Job /\ (job[c].kind # "nothing" => job[c].keys # <<>>)
  BY <1>1, JobTypes
<1>3. Control
  BY <1>1, <1>2
     DEF Init, WorkTypeOK, Control, MakeSteps, InstallSteps, KeySteps, Ended, ToDo,
         JobKeys, Job
<1>4. StoreInv
  <2>1. [c \in Client |-> job[c].mods] \in [Client -> Seq(Module)]
    BY <1>1, JobTypes
  <2>2. QED
    BY <2>1, StoreInitInv DEF Init
<1>5. \A c \in Client : pc[c] \in {"modules", "request", "ok"} /\ ToDo(c) = JobKeys(c)
  BY DEF Init, ToDo, JobKeys
<1>6. HoldsLocks
  BY <1>2, <1>5 DEF Init, HoldsLocks, Locking, Ended
<1>7. LoadedToWrite /\ EmptyUnlessThere
  BY <1>5 DEF Init, LoadedToWrite, EmptyUnlessThere, NoEntries
<1>8. Backed
  BY <1>5 DEF Init, Backed, EntryBacked, InHand, NoEntries, KeySteps, MakeSteps,
              InstallSteps
<1>9. Exclusive /\ Emptied /\ Kept /\ InstallIsWhole
  BY <1>5 DEF Init, Exclusive, Emptied, Kept, InstallIsWhole
<1>10. EntriesWerePut /\ MadeStays
  BY <1>5 DEF Init, EntriesWerePut, MadeStays, Made, NoEntries
<1>11. QED
  BY <1>1, <1>3, <1>4, <1>6, <1>7, <1>8, <1>9, <1>10 DEF Inv, WorkInv

\* A push to the remote, or nothing, changes nothing of the commands.
LEMMA RestInv ==
  ASSUME Inv, UNCHANGED <<command, shared>>
  PROVE  WorkInv' /\ HoldsLocks' /\ LoadedToWrite' /\ EmptyUnlessThere' /\ Backed'
         /\ Exclusive' /\ Emptied' /\ Kept' /\ EntriesWerePut' /\ MadeStays'
         /\ InstallIsWhole'
<1> USE DEF Inv, command, shared
<1>1. WorkInv'
  <2>1. WorkTypeOK'
    BY DEF WorkInv, WorkTypeOK
  <2>2. \A c \in Client : ToDo(c)' = ToDo(c) /\ JobKeys(c)' = JobKeys(c)
    BY DEF ToDo, JobKeys
  <2>3. Control'
    BY <2>2 DEF WorkInv, Control
  <2>4. QED
    BY <2>1, <2>3 DEF WorkInv
<1>2. HoldsLocks' /\ LoadedToWrite' /\ EmptyUnlessThere'
  BY DEF HoldsLocks, Locking, JobKeys, LoadedToWrite, Current, EmptyUnlessThere
<1>3. Backed'
  BY DEF Backed, EntryBacked, InHand, InJob, At, Whole, Current, JobKeys, ToDo
<1>4. \A k : (NoInstallNear(k)' <=> NoInstallNear(k)) /\ (Unsettled(k)' <=> Unsettled(k))
  BY DEF NoInstallNear, Unsettled, At, Installs, JobKeys
<1>5. Exclusive' /\ Emptied' /\ Kept'
  BY <1>4 DEF Exclusive, Emptied, Kept, Current
<1>6. InstallIsWhole'
  BY DEF InstallIsWhole, Installs, JobKeys, Current
<1>7. EntriesWerePut' /\ MadeStays'
  BY <1>4 DEF EntriesWerePut, MadeStays, Made, Whole, JobKeys, ToDo, Current
<1>8. QED
  BY <1>1, <1>2, <1>3, <1>5, <1>6, <1>7

\* The formula store under the steps of a command.
LEMMA ActsStoreInv ==
  ASSUME StoreInv, NEW c \in Client, Acts(c)
  PROVE  StoreInv'
<1>1. CASE SyncModules(c)
  BY <1>1, SyncsInv DEF SyncModules
<1>2. CASE Kill(c) \/ Fail(c) \/ End(c) \/ RenameFails(c)
  BY <1>2, LeaveInv DEF Kill, Fail, End, RenameFails, Exit
<1>3. CASE UNCHANGED storeVars
  BY <1>3, StoreStutterInv
<1>4. QED
  BY <1>1, <1>2, <1>3
     DEF Acts, Step, LockGraph, Unlock, LookHit, LookMiss, NotPublished, Published,
         Clear, RemoveAll, PrepareSource, Unpack, OnBuild, Writes, Answered, Stage,
         Remove, Rename, Load, Truncate, Write

LEMMA NextInv ==
  ASSUME Inv, [Next]_vars
  PROVE  Inv'
<1>1. ASSUME NEW c \in Client, Acts(c)
      PROVE  Inv'
  <2>1. StoreInv' /\ WorkTypeOK' /\ Control'
    BY <1>1, ActsStoreInv, ActsTypeOK, ActsControl DEF Inv
  <2>2. HoldsLocks' /\ LoadedToWrite' /\ EmptyUnlessThere' /\ Backed'
    BY <1>1, ActsHoldsLocks, ActsLoadedToWrite, DirSteps, ActsBacked DEF Inv
  <2>3. Exclusive' /\ Emptied' /\ Kept' /\ InstallIsWhole'
    BY <1>1, ActsExclusive, ActsEmptied, ActsKept, ActsInstallIsWhole DEF Inv
  <2>4. EntriesWerePut' /\ MadeStays'
    BY <1>1, ActsEntriesWerePut, ActsMadeStays DEF Inv
  <2>5. QED
    BY <2>1, <2>2, <2>3, <2>4 DEF Inv, WorkInv
<1>2. CASE Pushed
  <2>1. StoreInv'
    BY <1>2, PushInv DEF Pushed, Inv
  <2>2. QED
    BY <1>2, <2>1, RestInv DEF Pushed, Inv
<1>3. CASE UNCHANGED vars
  <2>1. StoreInv'
    BY <1>3, StoreStutterInv DEF vars, Inv
  <2>2. QED
    BY <1>3, <2>1, RestInv DEF vars, Inv
<1>4. QED
  BY <1>1, <1>2, <1>3 DEF Next, AllEnded, Acts

\* The inductive invariant of the workspace and of the formula store.
THEOREM WorkspaceInvariance == Spec => []Inv
BY InitInv, NextInv, PTL DEF Spec

\* What ModuleFS has handed out stays in the shared work tree, whatever the
\* other processes sync and wherever syncs die.
THEOREM FormulasStay == Spec => []FormulaIsThere
<1>1. Inv => FormulaIsThere
  BY StoreInvMeans DEF Inv
<1>2. QED
  BY WorkspaceInvariance, <1>1, PTL

\* What .cache.json says is there is there and whole, unless it was cleared
\* while somebody relied on it.
THEOREM EntriesAreBacked == Spec => []EntryIsBacked
<1>1. Inv => EntryIsBacked
  BY DEF Inv, Backed, EntryBacked, EntryIsBacked
<1>2. QED
  BY WorkspaceInvariance, <1>1, PTL

\* And that takes an install: the module locks keep makes apart.
THEOREM MakesStayApart == Spec => []MakesAreExclusive
<1>1. Inv => MakesAreExclusive
  <2>1. SUFFICES ASSUME Inv, NEW k \in disturbed
                 PROVE  ~NoInstallNear(k)
    BY DEF MakesAreExclusive, NoInstallNear
  <2>2. k \in Key
    BY <2>1 DEF Inv, WorkInv, WorkTypeOK
  <2>3. QED
    BY <2>1, <2>2 DEF Inv, Exclusive
<1>2. QED
  BY WorkspaceInvariance, <1>1, PTL

\* No entry is lost to another one's Put where makes hold the locks.
THEOREM EntriesAreKept == Spec => []LocksKeepEntries
<1>1. Inv => LocksKeepEntries
  BY DEF Inv, Kept, LocksKeepEntries, At
<1>2. QED
  BY WorkspaceInvariance, <1>1, PTL

\* A directory that only installs write is whole whenever it is there, but
\* for what a stopped or unfinished removal leaves: what staging and rename
\* are for.
THEOREM InstallsAreWhole == Spec => []InstallIsWhole
<1>1. Inv => InstallIsWhole
  BY DEF Inv
<1>2. QED
  BY WorkspaceInvariance, <1>1, PTL

\* No Build or install is over, and no command reports success, without a
\* whole directory for each key of the job.
THEOREM SuccessesAreUsable == Spec => SuccessIsUsable
<1> DEFINE Reported(c, k) ==
      /\ ~At(c, "end") /\ pc'[c] = "end" => Usable(k)
      /\ ~At(c, "ok") /\ pc'[c] = "ok" =>
           Usable(k) \/ (job[c].kind = "make" /\ Unsettled(k))
<1>1. Inv /\ [Next]_vars => \A c \in Client : \A k \in JobKeys(c) : Reported(c, k)
  <2>1. SUFFICES ASSUME Inv, [Next]_vars, NEW c \in Client, NEW k \in JobKeys(c),
                        pc'[c] # pc[c], pc'[c] \in {"end", "ok"}, k \notin disturbed
                 PROVE  Reported(c, k)
    BY DEF At, Usable
  <2>2. Acts(c)
    <3>1. ASSUME NEW d \in Client, Acts(d), d # c
          PROVE  FALSE
      BY <2>1, <3>1, OthersStay DEF Inv
    <3>2. CASE Pushed \/ UNCHANGED vars
      BY <2>1, <3>2 DEF Pushed, vars, command
    <3>3. QED
      BY <2>1, <3>1, <3>2 DEF Next, AllEnded, Acts
  <2>3. k \in Key /\ InHand(c, k) /\ EntryBacked(k)
    BY <2>1, JobTypes DEF Inv, WorkInv, Backed
  <2>4. k \in JobKeys(c) \ ToDo(c) /\ InJob(c) => Usable(k)
    BY <2>3 DEF InHand, Usable
  <2>5. CASE pc'[c] = "ok"
    <3>1. pc[c] = "end"
      BY <2>1, <2>2, <2>5, ExitSteps
         DEF Inv, WorkInv, WorkTypeOK, Acts, Step, At, To, command, SyncModules,
             LockGraph, Unlock, LookHit, LookMiss, NotPublished, Published, Clear,
             RemoveAll, PrepareSource, Unpack, OnBuild, Writes, Answered, Stage, Remove,
             Rename, Load, Truncate, Write, Proceed, Done
    <3>2. todo[c] = <<>>
      BY <2>1, <3>1 DEF Inv, WorkInv, Control
    <3>3. ToDo(c) = {}
      BY <3>2 DEF ToDo
    <3>4. CASE InJob(c)
      BY <2>1, <2>4, <2>5, <3>3, <3>4
    <3>5. CASE ~InJob(c)
      <4>1. job[c].kind = "make"
        BY <3>1, <3>5 DEF InJob, Ended
      <4>2. Unsettled(k) \/ Usable(k)
        BY <2>1, <2>3, <3>1, <3>3, <4>1 DEF Inv, MadeStays, Made, Usable, Ended
      <4>3. QED
        BY <2>5, <4>1, <4>2
    <3>6. QED
      BY <3>4, <3>5
  <2>6. CASE pc'[c] = "end"
    <3>1. Unlock(c) \/ LookHit(c) \/ Write(c)
      BY <2>1, <2>2, <2>6, ExitSteps
         DEF Inv, WorkInv, WorkTypeOK, Acts, Step, At, To, command, Exits, Exit, Ended,
             SyncModules, LockGraph, LookMiss, NotPublished, Published, Clear, RemoveAll,
             PrepareSource, Unpack, OnBuild, Writes, Answered, Stage, Remove, Rename,
             Load, Truncate
    <3>2. CASE Unlock(c)
      <4>1. pc[c] = "unlock" /\ todo[c] = <<>>
        BY <2>1, <3>2 DEF Unlock, At, Inv, WorkInv, Control
      <4>2. ToDo(c) = {}
        BY <4>1 DEF ToDo
      <4>3. QED
        BY <2>1, <2>4, <2>6, <4>1, <4>2 DEF InJob, Ended, At
    <3>3. CASE LookHit(c) \/ Write(c)
      <4>1. pc[c] \in KeySteps /\ Proceed(c) /\ files' = files /\ job' = job
        BY <3>3 DEF LookHit, Write, At, KeySteps, shared
      <4>2. todo'[c] = <<>> /\ job[c].kind # "make"
        BY <2>1, <2>6, <4>1, ProceedSteps DEF Inv
      <4>3. InJob(c)' /\ k \in JobKeys(c)' \ ToDo(c)'
        BY <2>1, <2>6, <4>1, <4>2 DEF InJob, Ended, JobKeys, ToDo
      <4>4. Whole(k, "downloaded")' \/ Whole(k, "built")'
        BY <2>1, <2>2, <2>3, <4>1, <4>3, OwnDone DEF Inv
      <4>5. QED
        BY <2>6, <4>1, <4>4 DEF Whole, Usable
    <3>4. QED
      BY <3>1, <3>2, <3>3
  <2>7. QED
    BY <2>1, <2>5, <2>6
<1>2. QED
  BY WorkspaceInvariance, <1>1, PTL DEF Spec, SuccessIsUsable
=============================================================================
