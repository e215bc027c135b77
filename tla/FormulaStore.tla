---------------------------- MODULE FormulaStore ----------------------------
(***************************************************************************)
(* The formula repository that all llar processes of a machine share       *)
(* (src/internal/formula/repo/store.go): ModuleFS brings one module's      *)
(* formulas up to date in a sparse git work tree, under .sync.lock, and    *)
(* returns the live directory (src/internal/vcs/github.go).                *)
(*                                                                         *)
(* Revisions of the remote are counted.  What git does is modelled from    *)
(* the commands that are given to it.                                      *)
(***************************************************************************)
EXTENDS Naturals, Sequences, FiniteSets

CONSTANTS
  Client,     \* the llar processes
  NoClient,
  Module,     \* the modules that have formulas
  MaxHead     \* bound: the revisions the remote reaches

ASSUME ClientAssumption == NoClient \notin Client

VARIABLES
  head,       \* the remote's latest revision
  git,        \* the local repository: "none", "plain" or "sparse"
  patterns,   \* the modules of the sparse patterns
  fetched,    \* FETCH_HEAD
  tree,       \* tree[m]: the revision of m's formulas in the work tree, or 0
  syncLock,   \* who holds .sync.lock
  at,         \* at[c]: where c is in ModuleFS
  wants,      \* wants[c]: the modules c has still to open, first one current
  skipped,    \* the modules that git could not add to the sparse patterns
  since,      \* since[c]: head when c got the lock
  opened      \* opened[c]: the least revision for each module c has opened

repository == <<git, patterns, fetched, tree, skipped>>
storeVars == <<head, repository, syncLock, at, wants, since, opened>>

StoreInit(mods) ==
  /\ head = 1
  /\ git = "none"
  /\ patterns = {}
  /\ fetched = 0
  /\ tree = [m \in Module |-> 0]
  /\ skipped = {}
  /\ syncLock = NoClient
  /\ at = [c \in Client |-> "out"]
  /\ wants = mods
  /\ since = [c \in Client |-> 0]
  /\ opened = [c \in Client |-> [m \in Module |-> 0]]

Goto(c, l) == at' = [at EXCEPT ![c] = l]
Wanted(c) == Head(wants[c])

\* Somebody pushes to the remote.
Push ==
  /\ head < MaxHead
  /\ head' = head + 1
  /\ UNCHANGED <<repository, syncLock, at, wants, since, opened>>

LockSync(c) ==
  /\ at[c] = "out"
  /\ wants[c] # <<>>
  /\ syncLock = NoClient
  /\ syncLock' = c
  /\ since' = [since EXCEPT ![c] = head]
  /\ Goto(c, IF git = "none" THEN "init" ELSE "add")
  /\ UNCHANGED <<head, repository, wants, opened>>

\* git init, git remote add.
GitInit(c) ==
  /\ at[c] = "init"
  /\ git' = IF git = "none" THEN "plain" ELSE git
  /\ Goto(c, "sparse")
  /\ UNCHANGED <<head, patterns, fetched, tree, skipped, syncLock, wants, since, opened>>

\* git sparse-checkout init, which leaves out every directory.
SparseInit(c) ==
  /\ at[c] = "sparse"
  /\ git' = "sparse"
  /\ patterns' = {}
  /\ Goto(c, "set")
  /\ UNCHANGED <<head, fetched, tree, skipped, syncLock, wants, since, opened>>

SparseSet(c) ==
  /\ at[c] = "set"
  /\ patterns' = {Wanted(c)}
  /\ Goto(c, "fetch")
  /\ UNCHANGED <<head, git, fetched, tree, skipped, syncLock, wants, since, opened>>

\* Variant: the patterns are set anew on every call.
SparseAdd_Set(c) ==
  /\ at[c] = "add"
  /\ git = "sparse"
  /\ patterns' = {Wanted(c)}
  /\ Goto(c, "fetch")
  /\ UNCHANGED <<head, git, fetched, tree, skipped, syncLock, wants, since, opened>>

SparseAdd(c) ==
  /\ at[c] = "add"
  /\ git = "sparse"
  /\ patterns' = patterns \cup {Wanted(c)}
  /\ Goto(c, "fetch")
  /\ UNCHANGED <<head, git, fetched, tree, skipped, syncLock, wants, since, opened>>

\* A step of syncDirSparse fails and syncDirShallowClone takes over: it has
\* to where there is no sparse checkout to add to.
FallBack(c) ==
  /\ at[c] \in {"sparse", "set", "add", "fetch", "checkout"}
  /\ skipped' = IF git = "sparse" /\ at[c] \in {"set", "add"}
                  THEN skipped \cup {Wanted(c)} ELSE skipped
  /\ Goto(c, "fetchAll")
  /\ UNCHANGED <<head, git, patterns, fetched, tree, syncLock, wants, since, opened>>

Fetch(c) ==
  /\ at[c] \in {"fetch", "fetchAll"}
  /\ fetched' = head
  /\ Goto(c, IF at[c] = "fetch" THEN "checkout" ELSE "checkoutAll")
  /\ UNCHANGED <<head, git, patterns, tree, skipped, syncLock, wants, since, opened>>

\* What a checkout leaves of module m: sparse patterns hold for both ways.
Target(m) == IF git = "plain" \/ m \in patterns THEN fetched ELSE 0

CheckingOut(c) == at[c] \in {"checkout", "checkoutAll"}

\* git checkout, one module's directory at a time.
CheckoutOne(c) ==
  /\ CheckingOut(c)
  /\ \E m \in Module :
       /\ tree[m] # Target(m)
       /\ tree' = [tree EXCEPT ![m] = Target(m)]
  /\ UNCHANGED <<head, git, patterns, fetched, skipped, syncLock, at, wants, since, opened>>

\* Variant: the lock is kept until the process ends.
Opens_KeepLock(c) ==
  /\ opened' = [opened EXCEPT ![c][Wanted(c)] = since[c]]
  /\ wants' = [wants EXCEPT ![c] = Tail(@)]
  /\ syncLock' = syncLock
  /\ Goto(c, "out")

Opens(c) ==
  /\ opened' = [opened EXCEPT ![c][Wanted(c)] = since[c]]
  /\ wants' = [wants EXCEPT ![c] = Tail(@)]
  /\ syncLock' = NoClient
  /\ Goto(c, "out")

\* Done: the lock is released and the directory handed out.
CheckoutDone(c) ==
  /\ CheckingOut(c)
  /\ \A m \in Module : tree[m] = Target(m)
  /\ Opens(c)
  /\ UNCHANGED <<head, repository, since>>

\* The fallback can fail as well.
SyncFails(c) == at[c] \in {"fetchAll", "checkoutAll"}

\* The lock is free again when its holder is gone.
LeaveStore(c) ==
  /\ syncLock' = IF syncLock = c THEN NoClient ELSE syncLock
  /\ Goto(c, "gone")
  /\ UNCHANGED <<head, repository, wants, since, opened>>

Syncs(c) ==
  \/ LockSync(c) \/ GitInit(c) \/ SparseInit(c) \/ SparseSet(c) \/ SparseAdd(c)
  \/ FallBack(c) \/ Fetch(c) \/ CheckoutOne(c) \/ CheckoutDone(c)

-----------------------------------------------------------------------------
\* A process that has opened a module finds its formulas there, as of when
\* ModuleFS got its lock or later, whatever the others sync meanwhile and
\* wherever earlier syncs died: "previously synced module directories stay in
\* the working tree" (github.go:171), from the latest commit (load.go:113).
\* The exception is a module that git failed to add to the sparse patterns:
\* the fallback keeps the patterns, and its checkout leaves the module out.
FormulaIsThere ==
  \A c \in Client, m \in Module :
    opened[c][m] # 0 => tree[m] >= opened[c][m] \/ m \in skipped

=============================================================================
