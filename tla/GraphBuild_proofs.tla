-------------------------- MODULE GraphBuild_proofs --------------------------
(***************************************************************************)
(* Theorems about GraphBuild for every set of builds, every number of      *)
(* paths and every build list.                                             *)
(***************************************************************************)
EXTENDS GraphBuild, FiniteSetTheorems, WellFoundedInduction, TLAPS

-----------------------------------------------------------------------------
(* The lock order. *)

\* A nonempty set of paths has a least one, and Min returns it.
LEMMA MinOfPaths ==
  ASSUME NEW S \in SUBSET Path, S # {}
  PROVE  Min(S) \in S /\ \A q \in S : Min(S) <= q
<1>1. S \subseteq Nat
  BY PathAssumption DEF Path
<1>2. PICK x \in S : \A y \in S : <<y, x>> \notin OpToRel(<, Nat)
  BY <1>1, NatLessThanWellFounded, WFMin, Zenon
<1>3. \A y \in S : x <= y
  <2>1. SUFFICES ASSUME NEW y \in S PROVE x <= y
    OBVIOUS
  <2>2. ~(y < x)
    BY <1>1, <1>2 DEF OpToRel
  <2>3. QED
    BY <1>1, <2>2
<1>4. QED
  BY <1>3 DEF Min

\* A nonempty set of paths has a greatest one, and Max returns it.
LEMMA MaxOfPaths ==
  ASSUME NEW S \in SUBSET Path, S # {}
  PROVE  Max(S) \in S /\ \A q \in S : Max(S) >= q
<1> DEFINE Mirror == {PathCount - p : p \in S}
<1>1. Mirror \subseteq Nat /\ Mirror # {}
  <2>1. \A p \in S : PathCount - p \in Nat
    BY PathAssumption DEF Path
  <2>2. QED
    BY <2>1
<1>2. PICK x \in Mirror : \A y \in Mirror : <<y, x>> \notin OpToRel(<, Nat)
  BY <1>1, NatLessThanWellFounded, WFMin, Zenon
<1>3. PICK p \in S : x = PathCount - p
  OBVIOUS
<1>4. \A q \in S : p >= q
  <2>1. SUFFICES ASSUME NEW q \in S PROVE p >= q
    OBVIOUS
  <2>2. PathCount - q \in Nat /\ x \in Nat /\ ~(PathCount - q < x)
    BY <1>1, <1>2 DEF OpToRel
  <2>3. p \in Nat /\ q \in Nat
    BY PathAssumption DEF Path
  <2>4. QED
    BY <1>3, <2>2, <2>3, PathAssumption
<1>5. QED
  BY <1>4 DEF Max

-----------------------------------------------------------------------------
(* Types. *)

LEMMA GraphInPath == \A b \in Build : Graph[b] \subseteq Path
BY BuildAssumption DEF Graph, Range

\* The module a build is at, when it is at one.
LEMMA CurrentInGraph ==
  ASSUME NEW b \in Build, pos[b] \in Nat, pos[b] < Len(BuildList[b])
  PROVE  /\ Current(b) \in Graph[b]
         /\ Current(b) \in Path
         /\ Key(b) \in Variant
<1>1. BuildList[b] \in Seq(Path) /\ VariantOf[b] \in [Path -> Variant]
  BY BuildAssumption
<1>2. pos[b] + 1 \in 1..Len(BuildList[b])
  BY <1>1
<1>3. Current(b) \in Path /\ Current(b) \in Graph[b]
  BY <1>1, <1>2 DEF Current, Graph, Range
<1>4. QED
  BY <1>1, <1>3 DEF Key

TypeInv == TypeOK /\ InLoop

LEMMA EnvStates == Original \in EnvState /\ Empty \in EnvState
BY DEF Original, Empty, EnvState

LEMMA InitTypeInv == Init => TypeInv
BY BuildAssumption, EnvStates DEF Init, TypeInv, TypeOK, InLoop, AtModule, Working,
   Over, TreeState

\* Goroutines of hooks touch the environment and nothing else.
LEMMA NextCases ==
  ASSUME [Next]_vars
  PROVE  \/ \E b \in Build : Step(b)
         \/ \E r \in Process : Crash(r)
         \/ UNCHANGED <<buildVars, holder, diskVars>>
BY DEF Next, vars, StrayStep, StartStray, StraySets, StrayEnds

LEMMA StrayTypes ==
  ASSUME TypeInv, NEW b \in Build, StrayStep(b)
  PROVE  TypeInv'
<1> USE DEF TypeInv, TypeOK, InLoop, AtModule, Working, Over, buildVars, diskVars
<1>1. ProcessOf[b] \in Process
  BY BuildAssumption
<1>2. CASE StartStray(b)
  BY <1>2 DEF StartStray
<1>3. CASE StrayEnds(b)
  BY <1>3 DEF StrayEnds
<1>4. CASE StraySets(b)
  <2>1. PICK s \in Settings : env' = [env EXCEPT ![ProcessOf[b]][s[1]] = s[2]]
    BY <1>4 DEF StraySets
  <2>2. s[1] \in Variable /\ s[2] \in {"unset", "altered"}
    BY SettingsAssumption
  <2>3. env' \in [Process -> EnvState]
    BY <1>1, <2>1, <2>2 DEF EnvState
  <2>4. escaped' \subseteq Process
    BY <1>1, <1>4 DEF StraySets
  <2>5. QED
    BY <1>4, <2>3, <2>4 DEF StraySets
<1>5. QED
  BY <1>2, <1>3, <1>4 DEF StrayStep

\* Every step keeps the types, one case per action.
LEMMA NextTypeInv == TypeInv /\ [Next]_vars => TypeInv'
<1> SUFFICES ASSUME TypeInv, [Next]_vars
             PROVE  TypeInv'
  OBVIOUS
<1> USE DEF TypeInv, TypeOK, InLoop, AtModule, Working, Over, Goto, strayVars
<1>1. ASSUME NEW b \in Build, LockStep(b)
      PROVE  TypeInv'
  <2>1. ToLock(b) # {} => Min(ToLock(b)) \in Path
    BY GraphInPath, MinOfPaths DEF ToLock
  <2>2. CASE AcquireLock(b)
    BY <2>1, <2>2 DEF AcquireLock, buildVars, diskVars, envVars
  <2>3. CASE LockFails(b)
    BY <2>3 DEF LockFails, diskVars, envVars
  <2>4. CASE AllLocked(b)
    BY <2>4 DEF AllLocked, diskVars, envVars
  <2>5. QED
    BY <1>1, <2>2, <2>3, <2>4 DEF LockStep, Take
<1>2. ASSUME NEW b \in Build, UnlockStep(b)
      PROVE  TypeInv'
  <2>1. CASE ReleaseLock(b)
    BY <2>1 DEF ReleaseLock, buildVars, diskVars, envVars
  <2>2. CASE Return(b)
    BY <2>2 DEF Return, diskVars, envVars
  <2>3. QED
    BY <1>2, <2>1, <2>2 DEF UnlockStep
<1>3. ASSUME NEW b \in Build, EnvStep(b)
      PROVE  TypeInv'
  <2>1. ProcessOf[b] \in Process
    BY BuildAssumption
  <2>2. CASE SaveEnv(b)
    BY <2>1, <2>2 DEF SaveEnv, diskVars
  <2>3. CASE ClearEnv(b)
    BY <2>1, <2>3, EnvStates DEF ClearEnv, diskVars
  <2>4. CASE RestoreEnv(b)
    <3>1. [v \in Variable |-> IF saved[b][v] = "unset" THEN env[ProcessOf[b]][v]
                              ELSE saved[b][v]] \in EnvState
      BY <2>1 DEF EnvState
    <3>2. env' \in [Process -> EnvState] /\ saved' \in [Build -> EnvState]
      BY <2>1, <2>4, <3>1, EnvStates DEF RestoreEnv
    <3>3. QED
      BY <2>4, <3>2 DEF RestoreEnv, diskVars
  <2>5. QED
    BY <1>3, <2>2, <2>3, <2>4 DEF EnvStep
<1>4. ASSUME NEW b \in Build, ModuleStep(b)
      PROVE  TypeInv'
  <2>1. pos[b] < Len(BuildList[b]) => Current(b) \in Path /\ Key(b) \in Variant
    BY CurrentInGraph
  <2>3. Len(BuildList[b]) \in Nat
    BY BuildAssumption
  <2>4. CASE AllBuilt(b)
    BY <2>4 DEF AllBuilt, diskVars, envVars
  <2>5. CASE CacheGet(b)
    <3>1. lookup' \in [Build -> {"hit", "miss"}]
      BY <2>5 DEF CacheGet
    <3>2. /\ pos' \in [Build -> Nat]
          /\ \A c \in Build : pos'[c] <= Len(BuildList[c])
          /\ pc' \in [Build -> Working \cup Over \cup {"lock", "unlock"}]
          /\ InLoop'
      <4>1. CASE pos' = [pos EXCEPT ![b] = @ + 1] /\ UNCHANGED pc
        BY <2>3, <2>5, <4>1 DEF CacheGet
      <4>2. CASE pc' = [pc EXCEPT ![b] = "prepare"] /\ UNCHANGED pos
        BY <2>3, <2>5, <4>2 DEF CacheGet
      <4>3. QED
        BY <2>5, <4>1, <4>2 DEF CacheGet
    <3>3. QED
      BY <2>5, <3>1, <3>2 DEF CacheGet, diskVars, envVars
  <2>6. CASE Prepare(b)
    <3>1. tree' \in [Path -> [Variant -> TreeState]]
      <4>1. PICK t \in TreeState :
              tree' = [tree EXCEPT ![Current(b)][Key(b)] = t]
        BY <2>1, <2>6 DEF Prepare, TreeState
      <4>2. QED
        BY <2>1, <4>1
    <3>2. /\ pc' \in [Build -> Working \cup Over \cup {"lock", "unlock"}]
          /\ InLoop'
      BY <2>6 DEF Prepare
    <3>3. QED
      BY <2>6, <3>1, <3>2 DEF Prepare, envVars
  <2>7. CASE OnBuild(b)
    BY <2>1, <2>7 DEF OnBuild, TreeState, envVars
  <2>8. CASE OnTest(b)
    <3>1. CASE pos' = [pos EXCEPT ![b] = @ + 1] /\ pc' = [pc EXCEPT ![b] = "get"]
      BY <2>3, <2>8, <3>1 DEF OnTest, diskVars, envVars
    <3>2. CASE UNCHANGED pos /\ pc' = [pc EXCEPT ![b] = "putLoad"]
      BY <2>8, <3>2 DEF OnTest, diskVars, envVars
    <3>3. QED
      BY <2>8, <3>1, <3>2 DEF OnTest
  <2>9. CASE PutLoad(b)
    BY <2>1, <2>9 DEF PutLoad, diskVars, envVars
  <2>10. CASE PutTruncate(b)
    BY <2>1, <2>10 DEF PutTruncate, envVars
  <2>11. CASE PutWrite(b)
    BY <2>1, <2>3, <2>11 DEF PutWrite, envVars
  <2>12. CASE Fails(b)
    BY <2>12 DEF Fails, diskVars, envVars
  <2>13. QED
    BY <1>4, <2>4, <2>5, <2>6, <2>7, <2>8, <2>9, <2>10, <2>11, <2>12
       DEF ModuleStep, Handle
<1>5. ASSUME NEW r \in Process, Crash(r)
      PROVE  TypeInv'
  BY <1>5, EnvStates DEF Crash, diskVars
<1>6. CASE UNCHANGED vars
  BY <1>6 DEF vars, buildVars, diskVars, envVars
<1>7. QED
  BY <1>1, <1>2, <1>3, <1>4, <1>5, <1>6, StrayTypes DEF Next, Step

\* The types hold in every reachable state of Build.
THEOREM TypeCorrect == Spec => []TypeOK
<1>1. Spec => []TypeInv
  BY InitTypeInv, NextTypeInv, PTL DEF Spec
<1>2. TypeInv => TypeOK
  BY DEF TypeInv
<1>3. QED
  BY <1>1, <1>2, PTL

-----------------------------------------------------------------------------
(* Mutual exclusion of overlapping graphs. *)

LEMMA InitLockInv == Init => LockInv
BY BuildAssumption
   DEF Init, LockInv, HoldersLive, WorkingHoldAll, LockedPrefix, Held, Working

\* A build at work that goes on, or starts to leave, disturbs no lock.
LEMMA WorkKeepsLocks ==
  ASSUME TypeInv, LockInv, NEW b \in Build, pc[b] \in Working,
         NEW s \in Working \cup {"unlock"},
         pc' = [pc EXCEPT ![b] = s], UNCHANGED holder
  PROVE  LockInv'
<1>1. \A c \in Build : pc'[c] = IF c = b THEN s ELSE pc[c]
  BY DEF TypeInv, TypeOK
<1>2. s \notin Over /\ s # "lock"
  BY DEF Over, Working
<1>3. HoldersLive'
  BY <1>1, <1>2 DEF LockInv, HoldersLive
<1>4. WorkingHoldAll'
  BY <1>1 DEF LockInv, WorkingHoldAll
<1>5. LockedPrefix'
  BY <1>1, <1>2 DEF LockInv, LockedPrefix, Held
<1>6. QED
  BY <1>3, <1>4, <1>5 DEF LockInv

\* The next lock of the sorted list extends the prefix that b holds.
LEMMA AcquireLockInv ==
  ASSUME TypeInv, LockInv, NEW b \in Build, AcquireLock(b)
  PROVE  LockInv'
<1> DEFINE m == Min(ToLock(b))
<1>1. ToLock(b) \in SUBSET Path
  BY GraphInPath DEF ToLock
<1>2. m \in ToLock(b) /\ \A q \in ToLock(b) : m <= q
  BY <1>1, MinOfPaths DEF AcquireLock
<1>3. m \in Graph[b] /\ m \in Path
  BY <1>1, <1>2 DEF ToLock
<1>4. \A p \in Path : holder'[p] = IF p = m THEN b ELSE holder[p]
  BY DEF AcquireLock, TypeInv, TypeOK
<1>5. /\ UNCHANGED pc
      /\ pc[b] = "lock"
      /\ holder[m] = None
      /\ None \notin Build
  BY BuildAssumption DEF AcquireLock, buildVars
<1>6. HoldersLive'
  BY <1>3, <1>4, <1>5 DEF LockInv, HoldersLive, Over
<1>7. WorkingHoldAll'
  BY <1>4, <1>5, GraphInPath DEF LockInv, WorkingHoldAll, Working
<1>8. LockedPrefix'
  <2>1. SUFFICES ASSUME NEW c \in Build, pc[c] = "lock",
                        NEW p \in Path, holder'[p] = c,
                        NEW q \in Graph[c], q < p
                 PROVE  holder'[q] = c
    BY <1>5 DEF LockedPrefix, Held
  <2>2. q \in Path /\ p \in Nat /\ q \in Nat /\ m \in Nat
    BY <1>3, GraphInPath, PathAssumption DEF Path
  <2>3. CASE p = m
    <3>1. c = b /\ ~(m <= q)
      BY <2>1, <2>2, <2>3, <1>4
    <3>2. holder[q] = b
      BY <3>1, <1>2, <2>2 DEF ToLock, Held
    <3>3. QED
      BY <3>1, <3>2, <2>2, <1>4
  <2>4. CASE p # m
    <3>1. holder[q] = c
      BY <2>1, <2>4, <1>4 DEF LockInv, LockedPrefix, Held
    <3>2. QED
      BY <3>1, <2>2, <1>4, <1>5
  <2>5. QED
    BY <2>3, <2>4
<1>9. QED
  BY <1>6, <1>7, <1>8 DEF LockInv

\* Releasing a lock concerns only its holder, which is past its work.
LEMMA ReleaseLockInv ==
  ASSUME TypeInv, LockInv, NEW b \in Build, ReleaseLock(b)
  PROVE  LockInv'
<1> DEFINE m == Max(Held(b))
<1>1. m \in Held(b)
  BY MaxOfPaths DEF ReleaseLock, Held
<1>2. m \in Path /\ holder[m] = b
  BY <1>1 DEF Held
<1>3. \A p \in Path : holder'[p] = IF p = m THEN None ELSE holder[p]
  BY DEF ReleaseLock, TypeInv, TypeOK
<1>4. /\ UNCHANGED pc
      /\ pc[b] = "unlock"
      /\ None \notin Build
  BY BuildAssumption DEF ReleaseLock, buildVars
<1>5. HoldersLive'
  BY <1>3, <1>4 DEF LockInv, HoldersLive
<1>6. WorkingHoldAll'
  BY <1>2, <1>3, <1>4, GraphInPath DEF LockInv, WorkingHoldAll, Working
<1>7. LockedPrefix'
  BY <1>2, <1>3, <1>4, GraphInPath DEF LockInv, LockedPrefix, Held
<1>8. QED
  BY <1>5, <1>6, <1>7 DEF LockInv

\* A crash releases the locks of the builds it ends, and of no other.
LEMMA CrashLockInv ==
  ASSUME TypeInv, LockInv, NEW r \in Process, Crash(r)
  PROVE  LockInv'
<1> DEFINE killed == {b \in Build : ProcessOf[b] = r /\ pc[b] \notin Over}
<1>1. /\ \A b \in Build : pc'[b] = IF b \in killed THEN "crashed" ELSE pc[b]
      /\ \A p \in Path :
            holder'[p] = IF holder[p] \in killed THEN None ELSE holder[p]
      /\ None \notin Build
  BY BuildAssumption DEF Crash
<1>2. HoldersLive'
  BY <1>1 DEF LockInv, HoldersLive
<1>3. WorkingHoldAll'
  BY <1>1, GraphInPath DEF LockInv, WorkingHoldAll, Working
<1>4. LockedPrefix'
  BY <1>1, GraphInPath DEF LockInv, LockedPrefix, Held
<1>5. QED
  BY <1>2, <1>3, <1>4 DEF LockInv

LEMMA NextLockInv == TypeInv /\ LockInv /\ [Next]_vars => LockInv'
<1> SUFFICES ASSUME TypeInv, LockInv, [Next]_vars
             PROVE  LockInv'
  OBVIOUS
<1>1. ASSUME NEW b \in Build, LockStep(b)
      PROVE  LockInv'
  <2>1. CASE LockFails(b)
    <3>1. /\ pc[b] = "lock" /\ UNCHANGED holder
          /\ \A c \in Build : pc'[c] = IF c = b THEN "unlock" ELSE pc[c]
      BY <2>1 DEF LockFails, Goto, TypeInv, TypeOK
    <3>2. QED
      BY <3>1 DEF LockInv, HoldersLive, WorkingHoldAll, LockedPrefix, Held,
                  Working, Over
  <2>2. CASE AllLocked(b)
    <3>1. /\ pc[b] = "lock" /\ UNCHANGED holder
          /\ \A c \in Build : pc'[c] = IF c = b THEN "saveEnv" ELSE pc[c]
      BY <2>2 DEF AllLocked, Goto, TypeInv, TypeOK
    <3>2. \A p \in Graph[b] : holder[p] = b
      BY <2>2, GraphInPath DEF AllLocked, ToLock, Held
    <3>3. QED
      BY <3>1, <3>2 DEF LockInv, HoldersLive, WorkingHoldAll, LockedPrefix,
                        Held, Over
  <2>3. QED
    BY <1>1, <2>1, <2>2, AcquireLockInv DEF LockStep, Take
<1>2. ASSUME NEW b \in Build, UnlockStep(b)
      PROVE  LockInv'
  <2>1. CASE Return(b)
    <3>1. /\ pc[b] = "unlock" /\ UNCHANGED holder
          /\ \A c \in Build : pc'[c] = IF c = b THEN "done" ELSE pc[c]
          /\ \A p \in Path : holder[p] # b
      BY <2>1 DEF Return, Goto, TypeInv, TypeOK, Held
    <3>2. QED
      BY <3>1 DEF LockInv, HoldersLive, WorkingHoldAll, LockedPrefix, Held,
                  Working
  <2>2. QED
    BY <1>2, <2>1, ReleaseLockInv DEF UnlockStep
<1>3. ASSUME NEW b \in Build, EnvStep(b)
      PROVE  LockInv'
  <2>1. /\ UNCHANGED holder
        /\ pc[b] \in Working
        /\ \E s \in Working \cup {"unlock"} : pc' = [pc EXCEPT ![b] = s]
    BY <1>3 DEF EnvStep, SaveEnv, ClearEnv, RestoreEnv, Goto, Working
  <2>2. QED
    BY <2>1, WorkKeepsLocks
<1>4. ASSUME NEW b \in Build, ModuleStep(b)
      PROVE  LockInv'
  <2>1. UNCHANGED holder /\ pc[b] \in Working
    BY <1>4 DEF ModuleStep, Handle, AllBuilt, CacheGet, Prepare, OnBuild, OnTest,
                PutLoad, PutTruncate, PutWrite, Fails, Working
  <2>2. \E s \in Working \cup {"unlock"} : pc' = [pc EXCEPT ![b] = s]
    <3>1. CASE UNCHANGED pc
      BY <3>1, <2>1 DEF TypeInv, TypeOK
    <3>2. CASE pc' # pc
      BY <1>4, <3>2 DEF ModuleStep, Handle, AllBuilt, CacheGet, Prepare, OnBuild,
           OnTest, PutLoad, PutTruncate, PutWrite, Fails, Goto, Working
    <3>3. QED
      BY <3>1, <3>2
  <2>3. QED
    BY <2>1, <2>2, WorkKeepsLocks
<1>5. ASSUME NEW r \in Process, Crash(r)
      PROVE  LockInv'
  BY <1>5, CrashLockInv
<1>6. CASE UNCHANGED <<buildVars, holder, diskVars>>
  BY <1>6 DEF buildVars, LockInv, HoldersLive, WorkingHoldAll, LockedPrefix, Held
<1>7. QED
  BY <1>1, <1>2, <1>3, <1>4, <1>5, <1>6, NextCases DEF Step

\* Two builds whose graphs share a path never work at the same time.
THEOREM Exclusive == Spec => []GraphExclusive
<1>1. Init => TypeInv /\ LockInv
  BY InitTypeInv, InitLockInv
<1>2. TypeInv /\ LockInv /\ [Next]_vars => (TypeInv /\ LockInv)'
  BY NextTypeInv, NextLockInv
<1>3. LockInv => GraphExclusive
  BY DEF LockInv, WorkingHoldAll, GraphExclusive
<1>4. QED
  BY <1>1, <1>2, <1>3, PTL DEF Spec

-----------------------------------------------------------------------------
(* The sorted order excludes deadlock, and one-by-one locking implements    *)
(* taking the whole graph.                                                  *)

\* Of the builds that wait, the one for the greatest path waits for nobody
\* that waits: the holder has every smaller path of its own graph already.
LEMMA LockOrder == TypeInv /\ LockInv => NoCircularWait
<1> SUFFICES ASSUME TypeInv, LockInv, NEW a \in Build, pc[a] \notin Over,
                    \A b \in Build : pc[b] \notin Over =>
                      /\ pc[b] = "lock"
                      /\ ToLock(b) # {}
                      /\ holder[Min(ToLock(b))] # None
             PROVE  FALSE
  BY DEF NoCircularWait
<1> DEFINE Waiting == {b \in Build : pc[b] \notin Over}
           Wanted == {Min(ToLock(b)) : b \in Waiting}
<1>1. \A b \in Waiting :
        /\ Min(ToLock(b)) \in ToLock(b)
        /\ Min(ToLock(b)) \in Path
  <2>1. SUFFICES ASSUME NEW b \in Waiting
                 PROVE  /\ Min(ToLock(b)) \in ToLock(b)
                        /\ Min(ToLock(b)) \in Path
    OBVIOUS
  <2>2. ToLock(b) \in SUBSET Path /\ ToLock(b) # {}
    BY GraphInPath DEF ToLock
  <2>3. QED
    BY <2>2, MinOfPaths
<1>2. Wanted \in SUBSET Path /\ Wanted # {}
  BY <1>1
<1>3. Max(Wanted) \in Wanted /\ \A q \in Wanted : Max(Wanted) >= q
  BY <1>2, MaxOfPaths
<1>4. PICK b \in Waiting : Max(Wanted) = Min(ToLock(b))
  BY <1>3
<1> DEFINE m == Min(ToLock(b))
<1>5. m \in Path /\ \A q \in Wanted : m >= q
  BY <1>1, <1>3, <1>4
<1>6. PICK c \in Build : holder[m] = c
  BY <1>5 DEF TypeInv, TypeOK
<1>7. c \in Waiting /\ m \in Held(c)
  BY <1>5, <1>6 DEF LockInv, HoldersLive, Held
<1> DEFINE n == Min(ToLock(c))
<1>8. n \in Graph[c] /\ n \notin Held(c) /\ n \in Path /\ n \in Wanted
  BY <1>1, <1>7 DEF ToLock
<1>9. m >= n /\ m \in Nat /\ n \in Nat
  BY <1>5, <1>8, PathAssumption DEF Path
<1>10. n # m
  BY <1>7, <1>8
<1>11. n < m
  BY <1>9, <1>10
<1>12. holder[n] = c
  BY <1>7, <1>8, <1>11 DEF LockInv, LockedPrefix
<1>13. QED
  BY <1>8, <1>12 DEF Held

\* Builds never end up waiting for each other in a circle.
THEOREM DeadlockFree == Spec => []NoCircularWait
<1>1. Init => TypeInv /\ LockInv
  BY InitTypeInv, InitLockInv
<1>2. TypeInv /\ LockInv /\ [Next]_vars => (TypeInv /\ LockInv)'
  BY NextTypeInv, NextLockInv
<1>3. QED
  BY <1>1, <1>2, LockOrder, PTL DEF Spec

\* The step that takes the last lock is the step that takes the graph.
THEOREM ImplementsGraphLock == Spec => GraphTakenAtOnce
<1> DEFINE st == [b \in Build |->
                    IF pc[b] \in Working THEN "inside"
                    ELSE IF pc[b] = "lock" THEN "waiting"
                    ELSE "over"]
<1>1. Init => Whole!Init
  BY DEF Init, Whole!Init, Working
<1>2. TypeInv /\ LockInv /\ LockInv' /\ [Next]_vars => [Whole!Next]_st
  <2> SUFFICES ASSUME TypeInv, LockInv, LockInv', [Next]_vars
               PROVE  [Whole!Next]_st
    OBVIOUS
  <2>1. ASSUME NEW b \in Build, LockStep(b)
        PROVE  [Whole!Next]_st
    <3>1. CASE AcquireLock(b)
      BY <3>1 DEF AcquireLock, buildVars
    <3>2. CASE LockFails(b)
      <4>1. st[b] = "waiting" /\ st' = [st EXCEPT ![b] = "over"]
        BY <3>2 DEF LockFails, Goto, TypeInv, TypeOK, Working
      <4>2. QED
        BY <4>1 DEF Whole!Next, Whole!GiveUp
    <3>3. CASE AllLocked(b)
      <4>1. /\ st[b] = "waiting" /\ st' = [st EXCEPT ![b] = "inside"]
            /\ \A c \in Build : c # b => pc'[c] = pc[c]
            /\ pc'[b] \in Working
        BY <3>3 DEF AllLocked, Goto, TypeInv, TypeOK, Working
      <4>2. \A c \in Build : st[c] = "inside" => ~Whole!Conflict(b, c)
        BY <4>1 DEF LockInv, WorkingHoldAll, Whole!Conflict
      <4>3. QED
        BY <4>1, <4>2 DEF Whole!Next, Whole!Enter, Whole!Inside
    <3>4. QED
      BY <2>1, <3>1, <3>2, <3>3 DEF LockStep, Take
  <2>2. ASSUME NEW b \in Build, UnlockStep(b)
        PROVE  [Whole!Next]_st
    <3>1. st' = st
      BY <2>2 DEF UnlockStep, ReleaseLock, Return, Goto, buildVars, TypeInv,
                  TypeOK, Working
    <3>2. QED
      BY <3>1
  <2>3. ASSUME NEW b \in Build, EnvStep(b) \/ ModuleStep(b)
        PROVE  [Whole!Next]_st
    <3>1. /\ pc[b] \in Working
          /\ \/ UNCHANGED pc
             \/ \E s \in Working \cup {"unlock"} : pc' = [pc EXCEPT ![b] = s]
      BY <2>3 DEF EnvStep, SaveEnv, ClearEnv, RestoreEnv, ModuleStep, Handle,
           AllBuilt, CacheGet, Prepare, OnBuild, OnTest, PutLoad,
           PutTruncate, PutWrite, Fails, Goto, Working
    <3>2. CASE UNCHANGED pc
      BY <3>2
    <3>3. ASSUME NEW s \in Working, pc' = [pc EXCEPT ![b] = s]
          PROVE  st' = st
      BY <3>1, <3>3 DEF TypeInv, TypeOK
    <3>4. CASE pc' = [pc EXCEPT ![b] = "unlock"]
      <4>1. st[b] = "inside" /\ st' = [st EXCEPT ![b] = "over"]
        BY <3>1, <3>4 DEF TypeInv, TypeOK, Working
      <4>2. QED
        BY <4>1 DEF Whole!Next, Whole!Leave
    <3>5. QED
      BY <3>1, <3>2, <3>3, <3>4
  <2>4. ASSUME NEW r \in Process, Crash(r)
        PROVE  [Whole!Next]_st
    <3> DEFINE killed == {b \in Build : ProcessOf[b] = r /\ pc[b] \notin Over}
    <3>1. st' = [b \in Build |-> IF b \in killed THEN "over" ELSE st[b]]
      BY <2>4 DEF Crash, Working
    <3>2. killed \in SUBSET Build
      OBVIOUS
    <3>3. QED
      BY <3>1, <3>2 DEF Whole!Next, Whole!Die
  <2>5. CASE UNCHANGED <<buildVars, holder, diskVars>>
    BY <2>5 DEF buildVars
  <2>6. QED
    BY <2>1, <2>2, <2>3, <2>4, <2>5, NextCases DEF Step
<1>3. Init => TypeInv /\ LockInv
  BY InitTypeInv, InitLockInv
<1>4. TypeInv /\ LockInv /\ [Next]_vars => (TypeInv /\ LockInv)'
  BY NextTypeInv, NextLockInv
<1>5. QED
  BY <1>1, <1>2, <1>3, <1>4, PTL DEF Spec, GraphTakenAtOnce, Whole!Spec

-----------------------------------------------------------------------------
(* What is in the cache and on the disk. *)

LEMMA InitDataInv == Init => DataInv
BY BuildAssumption
   DEF Init, DataInv, EntryMeansBuilt, BuildInv, LookupCurrent, CurrentBuilt,
       LoadedBuilt, HandledBuilt, Progress, Working, AtModule

\* A build's own list: what it has handled, what it is at.
LEMMA OwnModules ==
  ASSUME TypeInv, NEW b \in Build
  PROVE  /\ pc[b] \in AtModule =>
              /\ Current(b) \in Graph[b] /\ Current(b) \in Path
              /\ Key(b) \in Variant
              /\ \A i \in 1..pos[b] : BuildList[b][i] # Current(b)
         /\ \A i \in 1..pos[b] : BuildList[b][i] \in Graph[b]
<1>1. BuildList[b] \in Seq(Path) /\ pos[b] \in Nat /\ pos[b] <= Len(BuildList[b])
  BY BuildAssumption DEF TypeInv, TypeOK
<1>2. \A i \in 1..pos[b] : i \in 1..Len(BuildList[b])
  BY <1>1
<1>3. \A i \in 1..pos[b] : BuildList[b][i] \in Graph[b]
  BY <1>1, <1>2 DEF Graph, Range
<1>4. ASSUME pc[b] \in AtModule
      PROVE  /\ Current(b) \in Graph[b] /\ Current(b) \in Path
             /\ Key(b) \in Variant
             /\ \A i \in 1..pos[b] : BuildList[b][i] # Current(b)
  <2>1. pos[b] < Len(BuildList[b])
    BY <1>4 DEF TypeInv, InLoop
  <2>2. pos[b] + 1 \in 1..Len(BuildList[b])
    BY <1>1, <2>1
  <2>3. \A i \in 1..pos[b] : BuildList[b][i] # BuildList[b][pos[b] + 1]
    BY <1>1, <1>2, <2>2, DistinctAssumption
  <2>4. QED
    BY <1>1, <2>1, <2>3, CurrentInGraph DEF Current
<1>5. QED
  BY <1>3, <1>4

\* Another build at work has no path of the graph of b.
LEMMA Apart ==
  ASSUME LockInv, NEW b \in Build, NEW c \in Build, b # c,
         pc[b] \in Working, pc[c] \in Working
  PROVE  Graph[b] \cap Graph[c] = {}
BY DEF LockInv, WorkingHoldAll

\* A step of b that leaves alone the state of c, and the disk but for the
\* module that b is at, keeps the invariant of c.
LEMMA OtherBuild ==
  ASSUME TypeInv, LockInv, DataInv,
         NEW b \in Build, NEW c \in Build, b # c,
         pc'[c] = pc[c], pos'[c] = pos[c], lookup'[c] = lookup[c],
         loaded'[c] = loaded[c], outcome'[c] = outcome[c],
         \A p \in Path : \/ pc[b] \in AtModule /\ p = Current(b)
                         \/ tree'[p] = tree[p] /\ entries'[p] = entries[p]
  PROVE  BuildInv(c)'
<1>1. BuildInv(c)
  BY DEF DataInv
<1>2. AtModule \subseteq Working
  BY DEF AtModule, Working
<1>3. pc[c] \in Working =>
        \A p \in Graph[c] : tree'[p] = tree[p] /\ entries'[p] = entries[p]
  BY <1>2, Apart, OwnModules, GraphInPath
<1>4. Current(c)' = Current(c) /\ Key(c)' = Key(c)
  BY DEF Current, Key
<1>5. pc[c] \in AtModule =>
        /\ tree'[Current(c)] = tree[Current(c)]
        /\ entries'[Current(c)] = entries[Current(c)]
  BY <1>2, <1>3, OwnModules
<1>6. Found(c)' <=> Key(c) \in entries'[Current(c)]
  BY <1>4 DEF Found
<1>7. LookupCurrent(c)'
  BY <1>1, <1>5, <1>6 DEF BuildInv, LookupCurrent, Found, AtModule
<1>8. CurrentBuilt(c)'
  BY <1>1, <1>4, <1>5 DEF BuildInv, CurrentBuilt, AtModule
<1>9. LoadedBuilt(c)'
  BY <1>1, <1>4, <1>5 DEF BuildInv, LoadedBuilt, AtModule
<1>10. HandledBuilt(c)'
  <2>1. \A i \in 1..pos[c] : BuildList[c][i] \in Graph[c]
    BY OwnModules
  <2>2. QED
    BY <1>1, <1>3, <2>1 DEF BuildInv, HandledBuilt
<1>11. Progress(c)'
  BY <1>1 DEF BuildInv, Progress
<1>12. QED
  BY <1>7, <1>8, <1>9, <1>10, <1>11 DEF BuildInv

\* The state of the other builds that a step of b leaves alone.
OthersSame(b) ==
  \A c \in Build : c # b =>
    /\ pc'[c] = pc[c] /\ pos'[c] = pos[c] /\ lookup'[c] = lookup[c]
    /\ loaded'[c] = loaded[c] /\ outcome'[c] = outcome[c]

\* A step of b touches the disk at the module b is at, and nowhere else.
LEMMA StepFrame ==
  ASSUME TypeInv, NEW b \in Build, Step(b)
  PROVE  /\ OthersSame(b)
         /\ \A p \in Path : \/ pc[b] \in AtModule /\ p = Current(b)
                            \/ tree'[p] = tree[p] /\ entries'[p] = entries[p]
<1> USE DEF TypeInv, TypeOK, OthersSame, Goto, AtModule, buildVars, diskVars
<1>1. CASE LockStep(b)
  BY <1>1 DEF LockStep, Take, AcquireLock, LockFails, AllLocked
<1>2. CASE UnlockStep(b)
  BY <1>2 DEF UnlockStep, ReleaseLock, Return
<1>3. CASE EnvStep(b)
  BY <1>3 DEF EnvStep, SaveEnv, ClearEnv, RestoreEnv
<1>4. CASE AllBuilt(b) \/ CacheGet(b)
  BY <1>4 DEF AllBuilt, CacheGet
<1>5. CASE Prepare(b)
  BY <1>5 DEF Prepare
<1>6. CASE OnBuild(b) \/ OnTest(b)
  BY <1>6 DEF OnBuild, OnTest
<1>7. CASE PutLoad(b) \/ PutTruncate(b) \/ PutWrite(b) \/ Fails(b)
  BY <1>7 DEF PutLoad, PutTruncate, PutWrite, Fails
<1>8. QED
  BY <1>1, <1>2, <1>3, <1>4, <1>5, <1>6, <1>7 DEF Step, ModuleStep, Handle

\* A step of b that moves on, or ends the build, and does not touch the disk.
LEMMA QuietStep ==
  ASSUME TypeInv, DataInv, NEW b \in Build,
         LockStep(b) \/ UnlockStep(b) \/ EnvStep(b) \/ AllBuilt(b) \/ Fails(b)
  PROVE  EntryMeansBuilt' /\ BuildInv(b)'
<1> USE DEF Goto, buildVars, diskVars
<1>1. BuildInv(b) /\ EntryMeansBuilt
  BY DEF DataInv
<1>2. UNCHANGED <<pos, lookup, loaded, tree, entries>>
  BY DEF LockStep, Take, AcquireLock, LockFails, AllLocked, UnlockStep, ReleaseLock,
         Return, EnvStep, SaveEnv, ClearEnv, RestoreEnv, AllBuilt, Fails
<1>3. EntryMeansBuilt'
  BY <1>1, <1>2 DEF EntryMeansBuilt
<1>4. /\ pc'[b] \in {"lock", "saveEnv", "get", "clearEnv", "setEnv", "unlock", "done"}
      /\ pc'[b] = "get" => pc[b] = "saveEnv"
      /\ pc'[b] \in {"lock", "saveEnv"} => pc[b] = "lock"
      /\ pc'[b] \in Working => pc[b] \in Working \cup {"lock"}
      /\ pc[b] = "lock" => pc'[b] \in {"lock", "saveEnv", "unlock"}
  BY DEF LockStep, Take, AcquireLock, LockFails, AllLocked, UnlockStep, ReleaseLock,
         Return, EnvStep, SaveEnv, ClearEnv, RestoreEnv, AllBuilt, Fails,
         TypeInv, TypeOK, Working
<1>5. /\ outcome'[b] = "ok" => outcome[b] = "ok" \/ pos[b] = Len(BuildList[b])
      /\ pc'[b] \in {"lock", "saveEnv", "get"} => outcome'[b] = outcome[b]
  BY DEF LockStep, Take, AcquireLock, LockFails, AllLocked, UnlockStep, ReleaseLock,
         Return, EnvStep, SaveEnv, ClearEnv, RestoreEnv, AllBuilt, Fails,
         TypeInv, TypeOK
<1>6. LookupCurrent(b)' /\ CurrentBuilt(b)' /\ LoadedBuilt(b)'
  BY <1>4 DEF LookupCurrent, CurrentBuilt, LoadedBuilt, AtModule
<1>7. HandledBuilt(b)'
  <2>1. CASE pc[b] = "lock"
    <3>1. pos[b] = 0
      BY <1>1, <2>1 DEF BuildInv, Progress
    <3>2. QED
      BY <1>2, <3>1 DEF HandledBuilt
  <2>2. CASE pc[b] \in Working
    BY <1>1, <1>2, <2>2 DEF BuildInv, HandledBuilt
  <2>3. QED
    BY <1>4, <2>1, <2>2 DEF HandledBuilt
<1>8. Progress(b)'
  BY <1>1, <1>2, <1>4, <1>5 DEF BuildInv, Progress, AtModule
<1>9. QED
  BY <1>3, <1>6, <1>7, <1>8 DEF BuildInv

\* Once the module at hand is built, it may count as handled.
LEMMA HandleNext ==
  ASSUME TypeInv, NEW b \in Build, HandledBuilt(b), pc[b] \in Working,
         pos[b] < Len(BuildList[b]), tree[Current(b)][Key(b)] = "built",
         pos' = [pos EXCEPT ![b] = @ + 1], UNCHANGED tree
  PROVE  HandledBuilt(b)'
<1>1. pos[b] \in Nat /\ pos'[b] = pos[b] + 1
  BY DEF TypeInv, TypeOK
<1>2. ASSUME NEW i \in 1..pos'[b]
      PROVE  tree'[BuildList[b][i]][VariantOf[b][BuildList[b][i]]] = "built"
  <2>1. CASE i \in 1..pos[b]
    BY <2>1 DEF HandledBuilt
  <2>2. CASE i = pos[b] + 1
    BY <2>2 DEF Current, Key
  <2>3. QED
    BY <1>1, <2>1, <2>2
<1>3. QED
  BY <1>2 DEF HandledBuilt

LEMMA CacheGetInv ==
  ASSUME TypeInv, DataInv, NEW b \in Build, CacheGet(b)
  PROVE  EntryMeansBuilt' /\ BuildInv(b)'
<1>1. BuildInv(b) /\ EntryMeansBuilt
  BY DEF DataInv
<1>2. /\ pc[b] = "get" /\ pos[b] < Len(BuildList[b]) /\ pos[b] \in Nat
      /\ UNCHANGED <<loaded, outcome, tree, entries>>
      /\ lookup'[b] = IF Found(b) THEN "hit" ELSE "miss"
  BY DEF CacheGet, diskVars, TypeInv, TypeOK
<1>3. EntryMeansBuilt'
  BY <1>1, <1>2 DEF EntryMeansBuilt
<1>4. outcome'[b] = "none" /\ outcome'[b] # "ok"
  BY <1>1, <1>2 DEF BuildInv, Progress
<1>5. CASE Found(b) /\ pos' = [pos EXCEPT ![b] = @ + 1] /\ UNCHANGED pc
  <2>1. tree[Current(b)][Key(b)] = "built"
    BY <1>1, <1>2, <1>5, CurrentInGraph DEF EntryMeansBuilt, Found
  <2>2. HandledBuilt(b)'
    BY <1>1, <1>2, <1>5, <2>1, HandleNext DEF BuildInv, Working
  <2>3. QED
    BY <1>2, <1>3, <1>4, <1>5, <2>2
       DEF BuildInv, LookupCurrent, CurrentBuilt, LoadedBuilt, Progress, AtModule
<1>6. CASE pc' = [pc EXCEPT ![b] = "prepare"] /\ UNCHANGED pos
  <2>1. pc'[b] = "prepare"
    BY <1>6 DEF TypeInv, TypeOK
  <2>2. Found(b)' <=> Found(b)
    BY <1>2, <1>6 DEF Found, Key, Current
  <2>3. LookupCurrent(b)'
    BY <1>2, <2>1, <2>2 DEF LookupCurrent
  <2>4. HandledBuilt(b)'
    BY <1>1, <1>2, <1>6 DEF BuildInv, HandledBuilt, Working
  <2>5. QED
    BY <1>3, <1>4, <2>1, <2>3, <2>4
       DEF BuildInv, CurrentBuilt, LoadedBuilt, Progress
<1>7. QED
  BY <1>5, <1>6 DEF CacheGet, Goto

\* What stays of b's handled modules when only the module at hand is written.
LEMMA HandledKept ==
  ASSUME TypeInv, NEW b \in Build, pc[b] \in AtModule, HandledBuilt(b),
         UNCHANGED pos, \A p \in Path : p # Current(b) => tree'[p] = tree[p]
  PROVE  HandledBuilt(b)'
<1>1. \A i \in 1..pos[b] : BuildList[b][i] \in Path /\ BuildList[b][i] # Current(b)
  BY OwnModules, GraphInPath
<1>2. QED
  BY <1>1 DEF HandledBuilt, AtModule, Working

LEMMA PrepareInv ==
  ASSUME TypeInv, DataInv, NEW b \in Build, Prepare(b)
  PROVE  EntryMeansBuilt' /\ BuildInv(b)'
<1>1. BuildInv(b) /\ EntryMeansBuilt
  BY DEF DataInv
<1>2. /\ pc[b] = "prepare" /\ pc[b] \in AtModule
      /\ UNCHANGED <<pos, lookup, loaded, outcome, entries>>
  BY DEF Prepare, AtModule
<1>3. Current(b) \in Path /\ Key(b) \in Variant
  BY <1>2, OwnModules
<1>4. UNCHANGED <<Current(b), Key(b)>> /\ (Found(b)' <=> Found(b))
  BY <1>2 DEF Current, Key, Found
<1>5. outcome[b] = "none"
  BY <1>1, <1>2 DEF BuildInv, Progress
<1>6. CASE lookup[b] = "hit"
  <2>1. Found(b)
    BY <1>1, <1>2, <1>6 DEF BuildInv, LookupCurrent
  <2>2. tree[Current(b)][Key(b)] = "built"
    BY <1>1, <1>3, <2>1 DEF EntryMeansBuilt, Found
  <2>3. pc'[b] = "onTest" /\ UNCHANGED tree
    BY <1>3, <1>6, <2>2 DEF Prepare, Goto, TypeInv, TypeOK
  <2>4. EntryMeansBuilt' /\ HandledBuilt(b)'
    BY <1>1, <1>2, <2>3 DEF EntryMeansBuilt, BuildInv, HandledBuilt, Working
  <2>5. LookupCurrent(b)'
    BY <1>2, <1>4, <1>6, <2>1, <2>3 DEF LookupCurrent
  <2>6. QED
    BY <1>2, <1>4, <1>5, <2>2, <2>3, <2>4, <2>5
       DEF BuildInv, CurrentBuilt, LoadedBuilt, Progress
<1>7. CASE lookup[b] = "miss"
  <2>1. ~Found(b)
    BY <1>1, <1>2, <1>7 DEF BuildInv, LookupCurrent
  <2>2. pc'[b] = "onBuild"
    BY <1>7 DEF Prepare, Goto, TypeInv, TypeOK
  <2>3. tree' = [tree EXCEPT ![Current(b)][Key(b)] = "partial"]
    BY <1>7 DEF Prepare
  <2>4. \A p \in Path : p # Current(b) => tree'[p] = tree[p]
    BY <2>3 DEF TypeInv, TypeOK
  <2>5. \A v \in Variant : v # Key(b) => tree'[Current(b)][v] = tree[Current(b)][v]
    BY <1>3, <2>3 DEF TypeInv, TypeOK
  <2>6. EntryMeansBuilt'
    <3>1. SUFFICES ASSUME NEW p \in Path, NEW v \in entries[p]
                   PROVE  tree'[p][v] = "built"
      BY <1>2 DEF EntryMeansBuilt
    <3>2. v \in Variant /\ tree[p][v] = "built"
      BY <1>1 DEF EntryMeansBuilt, TypeInv, TypeOK
    <3>3. p = Current(b) => v # Key(b)
      BY <2>1 DEF Found
    <3>4. QED
      BY <2>4, <2>5, <3>2, <3>3
  <2>7. HandledBuilt(b)'
    BY <1>1, <1>2, <2>4, HandledKept DEF BuildInv
  <2>8. LookupCurrent(b)'
    BY <1>2, <1>4, <1>7, <2>1, <2>2 DEF LookupCurrent
  <2>9. QED
    BY <1>2, <1>5, <2>2, <2>6, <2>7, <2>8
       DEF BuildInv, CurrentBuilt, LoadedBuilt, Progress
<1>8. QED
  BY <1>6, <1>7 DEF TypeInv, TypeOK

LEMMA OnBuildInv ==
  ASSUME TypeInv, DataInv, NEW b \in Build, OnBuild(b)
  PROVE  EntryMeansBuilt' /\ BuildInv(b)'
<1>1. BuildInv(b) /\ EntryMeansBuilt
  BY DEF DataInv
<1>2. /\ pc[b] = "onBuild" /\ pc[b] \in AtModule
      /\ UNCHANGED <<pos, lookup, loaded, outcome, entries>>
      /\ pc'[b] \in {"onTest", "putLoad"}
  BY DEF OnBuild, AtModule, Goto, TypeInv, TypeOK
<1>3. Current(b) \in Path /\ Key(b) \in Variant
  BY <1>2, OwnModules
<1>4. UNCHANGED <<Current(b), Key(b)>> /\ (Found(b)' <=> Found(b))
  BY <1>2 DEF Current, Key, Found
<1>5. outcome[b] = "none" /\ lookup[b] = "miss" /\ ~Found(b)
  BY <1>1, <1>2 DEF BuildInv, Progress, LookupCurrent, AtModule
<1>6. tree' = [tree EXCEPT ![Current(b)][Key(b)] = "built"]
  BY DEF OnBuild
<1>7. \A p \in Path : p # Current(b) => tree'[p] = tree[p]
  BY <1>6 DEF TypeInv, TypeOK
<1>8. \A v \in Variant :
        tree'[Current(b)][v] = IF v = Key(b) THEN "built" ELSE tree[Current(b)][v]
  BY <1>3, <1>6 DEF TypeInv, TypeOK
<1>9. EntryMeansBuilt'
  <2>1. SUFFICES ASSUME NEW p \in Path, NEW v \in entries[p]
                 PROVE  tree'[p][v] = "built"
    BY <1>2 DEF EntryMeansBuilt
  <2>2. v \in Variant /\ tree[p][v] = "built"
    BY <1>1 DEF EntryMeansBuilt, TypeInv, TypeOK
  <2>3. QED
    BY <1>7, <1>8, <2>2
<1>10. HandledBuilt(b)'
  BY <1>1, <1>2, <1>7, HandledKept DEF BuildInv
<1>11. LookupCurrent(b)'
  BY <1>2, <1>4, <1>5 DEF LookupCurrent
<1>12. CurrentBuilt(b)'
  BY <1>3, <1>4, <1>8 DEF CurrentBuilt
<1>13. QED
  BY <1>2, <1>5, <1>9, <1>10, <1>11, <1>12 DEF BuildInv, LoadedBuilt, Progress

LEMMA OnTestInv ==
  ASSUME TypeInv, DataInv, NEW b \in Build, OnTest(b)
  PROVE  EntryMeansBuilt' /\ BuildInv(b)'
<1>1. BuildInv(b) /\ EntryMeansBuilt
  BY DEF DataInv
<1>2. /\ pc[b] = "onTest" /\ pc[b] \in AtModule /\ pc[b] \in Working
      /\ UNCHANGED <<lookup, loaded, outcome, tree, entries>>
  BY DEF OnTest, diskVars, AtModule, Working
<1>3. EntryMeansBuilt'
  BY <1>1, <1>2 DEF EntryMeansBuilt
<1>4. /\ outcome[b] = "none"
      /\ tree[Current(b)][Key(b)] = "built"
      /\ pos[b] < Len(BuildList[b])
  BY <1>1, <1>2 DEF BuildInv, Progress, CurrentBuilt, TypeInv, InLoop
<1>5. CASE pos' = [pos EXCEPT ![b] = @ + 1] /\ pc' = [pc EXCEPT ![b] = "get"]
  <2>1. HandledBuilt(b)'
    BY <1>1, <1>2, <1>4, <1>5, HandleNext DEF BuildInv
  <2>2. pc'[b] = "get"
    BY <1>5 DEF TypeInv, TypeOK
  <2>3. QED
    BY <1>2, <1>3, <1>4, <2>1, <2>2
       DEF BuildInv, LookupCurrent, CurrentBuilt, LoadedBuilt, Progress, AtModule
<1>6. CASE UNCHANGED pos /\ pc' = [pc EXCEPT ![b] = "putLoad"] /\ lookup[b] = "miss"
  <2>1. pc'[b] = "putLoad"
    BY <1>6 DEF TypeInv, TypeOK
  <2>2. UNCHANGED <<Current(b), Key(b)>> /\ (Found(b)' <=> Found(b))
    BY <1>2, <1>6 DEF Current, Key, Found
  <2>3. LookupCurrent(b)'
    BY <1>1, <1>2, <1>6, <2>1, <2>2 DEF BuildInv, LookupCurrent
  <2>4. HandledBuilt(b)'
    BY <1>1, <1>2, <1>6 DEF BuildInv, HandledBuilt
  <2>5. QED
    BY <1>2, <1>3, <1>4, <2>1, <2>2, <2>3, <2>4
       DEF BuildInv, CurrentBuilt, LoadedBuilt, Progress
<1>7. QED
  BY <1>5, <1>6 DEF OnTest, Goto

LEMMA PutLoadInv ==
  ASSUME TypeInv, DataInv, NEW b \in Build, PutLoad(b)
  PROVE  EntryMeansBuilt' /\ BuildInv(b)'
<1>1. BuildInv(b) /\ EntryMeansBuilt
  BY DEF DataInv
<1>2. /\ pc[b] = "putLoad" /\ pc[b] \in AtModule /\ pc[b] \in Working
      /\ UNCHANGED <<pos, lookup, outcome, tree, entries>>
      /\ pc'[b] = "putTruncate"
      /\ loaded'[b] = entries[Current(b)]
  BY DEF PutLoad, Goto, diskVars, AtModule, Working, TypeInv, TypeOK
<1>3. Current(b) \in Path
  BY <1>2, OwnModules
<1>4. UNCHANGED <<Current(b), Key(b)>> /\ (Found(b)' <=> Found(b))
  BY <1>2 DEF Current, Key, Found
<1>5. outcome[b] = "none" /\ tree[Current(b)][Key(b)] = "built"
  BY <1>1, <1>2 DEF BuildInv, Progress, CurrentBuilt
<1>6. EntryMeansBuilt' /\ HandledBuilt(b)'
  BY <1>1, <1>2 DEF EntryMeansBuilt, BuildInv, HandledBuilt
<1>7. LookupCurrent(b)'
  BY <1>1, <1>2, <1>4 DEF BuildInv, LookupCurrent, AtModule
<1>8. LoadedBuilt(b)'
  BY <1>1, <1>2, <1>3, <1>4 DEF LoadedBuilt, EntryMeansBuilt
<1>9. QED
  BY <1>2, <1>4, <1>5, <1>6, <1>7, <1>8 DEF BuildInv, CurrentBuilt, Progress

LEMMA PutTruncateInv ==
  ASSUME TypeInv, DataInv, NEW b \in Build, PutTruncate(b)
  PROVE  EntryMeansBuilt' /\ BuildInv(b)'
<1>1. BuildInv(b) /\ EntryMeansBuilt
  BY DEF DataInv
<1>2. /\ pc[b] = "putTruncate" /\ pc[b] \in AtModule /\ pc[b] \in Working
      /\ UNCHANGED <<pos, lookup, loaded, outcome, tree>>
      /\ pc'[b] = "putWrite"
      /\ \A p \in Path :
            entries'[p] = IF p = Current(b) THEN {} ELSE entries[p]
  BY DEF PutTruncate, Goto, AtModule, Working, TypeInv, TypeOK
<1>3. Current(b) \in Path
  BY <1>2, OwnModules
<1>4. UNCHANGED <<Current(b), Key(b)>> /\ ~Found(b)'
  BY <1>2, <1>3 DEF Current, Key, Found
<1>5. /\ outcome[b] = "none"
      /\ tree[Current(b)][Key(b)] = "built"
      /\ \A v \in loaded[b] : tree[Current(b)][v] = "built"
  BY <1>1, <1>2 DEF BuildInv, Progress, CurrentBuilt, LoadedBuilt
<1>6. EntryMeansBuilt'
  BY <1>1, <1>2 DEF EntryMeansBuilt
<1>7. HandledBuilt(b)'
  BY <1>1, <1>2 DEF BuildInv, HandledBuilt
<1>8. LookupCurrent(b)'
  BY <1>1, <1>2, <1>4 DEF BuildInv, LookupCurrent, AtModule
<1>9. QED
  BY <1>2, <1>4, <1>5, <1>6, <1>7, <1>8
     DEF BuildInv, CurrentBuilt, LoadedBuilt, Progress

LEMMA PutWriteInv ==
  ASSUME TypeInv, DataInv, NEW b \in Build, PutWrite(b)
  PROVE  EntryMeansBuilt' /\ BuildInv(b)'
<1>1. BuildInv(b) /\ EntryMeansBuilt
  BY DEF DataInv
<1>2. /\ pc[b] = "putWrite" /\ pc[b] \in AtModule /\ pc[b] \in Working
      /\ UNCHANGED <<lookup, loaded, outcome, tree>>
      /\ pc'[b] = "get"
      /\ pos' = [pos EXCEPT ![b] = @ + 1]
      /\ \A p \in Path :
            entries'[p] = IF p = Current(b) THEN loaded[b] \cup {Key(b)}
                          ELSE entries[p]
  BY DEF PutWrite, Goto, AtModule, Working, TypeInv, TypeOK
<1>3. /\ outcome[b] = "none"
      /\ tree[Current(b)][Key(b)] = "built"
      /\ \A v \in loaded[b] : tree[Current(b)][v] = "built"
      /\ pos[b] < Len(BuildList[b])
  BY <1>1, <1>2
     DEF BuildInv, Progress, CurrentBuilt, LoadedBuilt, TypeInv, InLoop
<1>4. EntryMeansBuilt'
  BY <1>1, <1>2, <1>3 DEF EntryMeansBuilt
<1>5. HandledBuilt(b)'
  BY <1>1, <1>2, <1>3, HandleNext DEF BuildInv
<1>6. QED
  BY <1>2, <1>3, <1>4, <1>5
     DEF BuildInv, LookupCurrent, CurrentBuilt, LoadedBuilt, Progress, AtModule

LEMMA NextDataInv == TypeInv /\ LockInv /\ DataInv /\ [Next]_vars => DataInv'
<1> SUFFICES ASSUME TypeInv, LockInv, DataInv, [Next]_vars
             PROVE  DataInv'
  OBVIOUS
<1>1. ASSUME NEW b \in Build, Step(b)
      PROVE  DataInv'
  <2>1. EntryMeansBuilt' /\ BuildInv(b)'
    BY <1>1, QuietStep, CacheGetInv, PrepareInv, OnBuildInv, OnTestInv,
       PutLoadInv, PutTruncateInv, PutWriteInv DEF Step, ModuleStep, Handle
  <2>2. ASSUME NEW c \in Build, c # b
        PROVE  BuildInv(c)'
    BY <1>1, <2>2, StepFrame, OtherBuild DEF OthersSame
  <2>3. QED
    BY <2>1, <2>2 DEF DataInv
<1>2. ASSUME NEW r \in Process, Crash(r)
      PROVE  DataInv'
  <2>1. /\ UNCHANGED <<pos, lookup, loaded, outcome, tree, entries>>
        /\ \A c \in Build : pc'[c] = pc[c] \/ pc'[c] = "crashed"
    BY <1>2 DEF Crash, diskVars
  <2>2. ASSUME NEW c \in Build
        PROVE  BuildInv(c)'
    <3>1. BuildInv(c)
      BY DEF DataInv
    <3>2. UNCHANGED <<Current(c), Key(c)>> /\ (Found(c)' <=> Found(c))
      BY <2>1 DEF Current, Key, Found
    <3>3. CASE pc'[c] = pc[c]
      BY <2>1, <3>1, <3>2, <3>3 DEF BuildInv, LookupCurrent, CurrentBuilt,
         LoadedBuilt, HandledBuilt, Progress
    <3>4. CASE pc'[c] = "crashed"
      BY <2>1, <3>1, <3>4 DEF BuildInv, LookupCurrent, CurrentBuilt,
         LoadedBuilt, HandledBuilt, Progress, AtModule, Working
    <3>5. QED
      BY <2>1, <3>3, <3>4
  <2>3. EntryMeansBuilt'
    BY <2>1 DEF DataInv, EntryMeansBuilt
  <2>4. QED
    BY <2>2, <2>3 DEF DataInv
<1>3. CASE UNCHANGED <<buildVars, holder, diskVars>>
  <2>1. UNCHANGED <<pc, pos, lookup, loaded, outcome, tree, entries>>
    BY <1>3 DEF buildVars, diskVars
  <2>2. QED
    BY <2>1 DEF DataInv, EntryMeansBuilt, BuildInv, LookupCurrent, CurrentBuilt,
       LoadedBuilt, HandledBuilt, Progress, Found, Current, Key
<1>4. QED
  BY <1>1, <1>2, <1>3, NextCases

\* The inductive invariant of the module.
THEOREM Invariance == Spec => []Inv
<1>1. Init => TypeInv /\ LockInv /\ DataInv
  BY InitTypeInv, InitLockInv, InitDataInv
<1>2. TypeInv /\ LockInv /\ DataInv /\ [Next]_vars
        => (TypeInv /\ LockInv /\ DataInv)'
  BY NextTypeInv, NextLockInv, NextDataInv
<1>3. TypeInv /\ LockInv /\ DataInv => Inv
  BY DEF Inv, TypeInv
<1>4. QED
  BY <1>1, <1>2, <1>3, PTL DEF Spec

-----------------------------------------------------------------------------
(* What the invariant gives. *)

\* Through every failure and crash, an entry of .cache.json stands for an
\* install directory that a successful OnBuild left.
THEOREM HitIsComplete == Spec => []EntryMeansBuilt
<1>1. Inv => EntryMeansBuilt
  BY DEF Inv, DataInv
<1>2. QED
  BY <1>1, Invariance, PTL

\* The lock of the path, not of the version, makes the rewrite of .cache.json
\* start from what the file has.
THEOREM NoLostEntry == Spec => []PutNotStale
<1>1. Inv => PutNotStale
  BY DEF Inv, DataInv, BuildInv, LoadedBuilt, PutNotStale
<1>2. QED
  BY <1>1, Invariance, PTL

\* Hooks run when all dependencies handed to them are in place.
THEOREM DependenciesReady == Spec => []DepsReady
<1>1. Inv => DepsReady
  <2>1. SUFFICES ASSUME Inv, NEW b \in Build, pc[b] \in {"onBuild", "onTest"},
                        NEW q \in Deps[b][Current(b)]
                 PROVE  tree[q][VariantOf[b][q]] = "built"
    BY DEF DepsReady
  <2>2. pc[b] \in AtModule /\ pc[b] \in Working
    BY <2>1 DEF AtModule, Working
  <2>3. pos[b] \in Nat /\ pos[b] < Len(BuildList[b]) /\ Len(BuildList[b]) \in Nat
    BY <2>1, <2>2, BuildAssumption DEF Inv, TypeOK, InLoop
  <2>4. PICK j \in 1..(pos[b] + 1 - 1) : q = BuildList[b][j]
    BY <2>1, <2>3, OrderAssumption DEF Current
  <2>5. j \in 1..pos[b]
    BY <2>3, <2>4
  <2>6. HandledBuilt(b)
    BY <2>1 DEF Inv, DataInv, BuildInv
  <2>7. QED
    BY <2>2, <2>4, <2>5, <2>6 DEF HandledBuilt
<1>2. QED
  BY <1>1, Invariance, PTL

\* A Build that succeeds has built or reused its whole graph.
THEOREM SuccessIsComplete == Spec => []SuccessComplete
<1>1. Inv => SuccessComplete
  <2>1. SUFFICES ASSUME Inv, NEW b \in Build, outcome[b] = "ok",
                        pc[b] \in {"clearEnv", "setEnv"}, NEW p \in Graph[b]
                 PROVE  tree[p][VariantOf[b][p]] = "built"
    BY DEF SuccessComplete
  <2>2. pos[b] = Len(BuildList[b]) /\ HandledBuilt(b)
    BY <2>1 DEF Inv, DataInv, BuildInv, Progress
  <2>3. PICK i \in 1..Len(BuildList[b]) : p = BuildList[b][i]
    BY BuildAssumption DEF Graph, Range
  <2>4. QED
    BY <2>1, <2>2, <2>3 DEF HandledBuilt, Working
<1>2. QED
  BY <1>1, Invariance, PTL

\* No step replaces an install directory under a build that relies on it.
THEOREM TreesStayPut == Spec => GraphStable
<1> DEFINE Stable ==
      \A b \in Build : pc[b] \in Working =>
        \A i \in 1..pos[b] : LET p == BuildList[b][i] IN
          UNCHANGED tree[p][VariantOf[b][p]]
<1>1. Inv /\ [Next]_vars => [Stable]_vars
  <2> SUFFICES ASSUME Inv, [Next]_vars,
                      NEW b \in Build, pc[b] \in Working,
                      NEW i \in 1..pos[b]
               PROVE  tree'[BuildList[b][i]] = tree[BuildList[b][i]]
    OBVIOUS
  <2>1. TypeInv /\ LockInv
    BY DEF Inv, TypeInv
  <2>2. BuildList[b][i] \in Graph[b] /\ BuildList[b][i] \in Path
    BY <2>1, OwnModules, GraphInPath
  <2>3. ASSUME NEW c \in Build, Step(c)
        PROVE  tree'[BuildList[b][i]] = tree[BuildList[b][i]]
    <3>1. CASE pc[c] \in AtModule /\ BuildList[b][i] = Current(c)
      <4>1. Current(c) \in Graph[c] /\ pc[c] \in Working
        BY <2>1, <3>1, OwnModules DEF AtModule, Working
      <4>2. b = c
        BY <2>1, <2>2, <3>1, <4>1, Apart
      <4>3. QED
        BY <2>1, <3>1, <4>2, OwnModules
    <3>2. QED
      BY <2>1, <2>2, <2>3, <3>1, StepFrame
  <2>4. ASSUME NEW r \in Process, Crash(r)
        PROVE  tree'[BuildList[b][i]] = tree[BuildList[b][i]]
    BY <2>4 DEF Crash, diskVars
  <2>5. CASE UNCHANGED <<buildVars, holder, diskVars>>
    BY <2>5 DEF diskVars
  <2>6. QED
    BY <2>3, <2>4, <2>5, NextCases
<1>2. QED
  BY <1>1, Invariance, PTL DEF Spec, GraphStable

-----------------------------------------------------------------------------
(* The environment of a process whose builds overlap.                       *)

\* b has saved the environment and not yet restored it.
Altering(b) == pc[b] \in Working \ {"saveEnv"}

\* The builds of r overlap pairwise.
Overlapping(r) ==
  \A b, c \in Build :
    ProcessOf[b] = r /\ ProcessOf[c] = r => Graph[b] \cap Graph[c] # {}

\* Whoever alters the environment of r has saved the original, when nobody
\* does it is the original, and a build that is to restore it has it empty.
EnvKept(r) ==
  /\ \A b \in Build : ProcessOf[b] = r /\ Altering(b) => saved[b] = Original
  /\ (\A b \in Build : ProcessOf[b] = r => ~Altering(b)) => env[r] = Original
  /\ \A b \in Build : ProcessOf[b] = r /\ pc[b] = "setEnv" => env[r] = Empty

\* A process that is dead has no environment to restore.
Died(r) == \E b \in Build : ProcessOf[b] = r /\ pc[b] = "crashed"

EnvInv ==
  \A r \in Process : Overlapping(r) /\ r \notin escaped => EnvKept(r) \/ Died(r)

LEMMA InitEnvInv == Init => EnvInv
BY BuildAssumption DEF Init, EnvInv, EnvKept, Altering, Working

\* What the restore makes of an environment that only Clearenv has touched.
Restored(old, from) ==
  [v \in Variable |-> IF from[v] = "unset" THEN old[v] ELSE from[v]]

LEMMA RestoredOriginal == Restored(Empty, Original) = Original
BY DEF Restored, Empty, Original

\* What a step of c does to the environment: it alters it, it leaves it alone,
\* it saves it, or it restores it.
EnvEffect(c) ==
  \/ /\ Altering(c) /\ Altering(c)' /\ saved'[c] = saved[c]
     /\ pc'[c] = "setEnv" => env'[ProcessOf[c]] = Empty
  \/ ~Altering(c) /\ ~Altering(c)' /\ UNCHANGED env
  \/ /\ pc[c] = "saveEnv" /\ pc'[c] = "get" /\ UNCHANGED env
     /\ saved'[c] = env[ProcessOf[c]]
  \/ /\ pc[c] = "setEnv" /\ ~Altering(c)'
     /\ env'[ProcessOf[c]] = Restored(env[ProcessOf[c]], saved[c])

\* A step of c only touches what c has saved and the process of c.
LEMMA EnvFrame ==
  ASSUME TypeInv, NEW c \in Build, Step(c)
  PROVE  /\ pc[c] \notin Over
         /\ \A b \in Build : b # c => pc'[b] = pc[b] /\ saved'[b] = saved[b]
         /\ \A r \in Process : r # ProcessOf[c] => env'[r] = env[r]
         /\ escaped' = escaped
         /\ EnvEffect(c)
<1> USE DEF TypeInv, TypeOK, EnvEffect, Altering, Working, Over, Goto, strayVars
<1>1. CASE LockStep(c)
  BY <1>1 DEF LockStep, Take, AcquireLock, AllLocked, LockFails, buildVars, envVars
<1>2. CASE UnlockStep(c)
  BY <1>2 DEF UnlockStep, ReleaseLock, Return, buildVars, envVars
<1>3. CASE EnvStep(c)
  <2>1. ProcessOf[c] \in Process
    BY BuildAssumption
  <2>2. CASE SaveEnv(c)
    BY <2>1, <2>2 DEF SaveEnv
  <2>3. CASE ClearEnv(c)
    BY <2>1, <2>3 DEF ClearEnv
  <2>4. CASE RestoreEnv(c)
    BY <2>1, <2>4 DEF RestoreEnv, Restored
  <2>5. QED
    BY <1>3, <2>2, <2>3, <2>4 DEF EnvStep
<1>4. CASE ModuleStep(c)
  <2>1. CASE AllBuilt(c) \/ CacheGet(c) \/ Prepare(c)
    BY <2>1 DEF AllBuilt, CacheGet, Prepare, envVars
  <2>2. CASE OnBuild(c) \/ OnTest(c) \/ Fails(c)
    BY <2>2 DEF OnBuild, OnTest, Fails, envVars
  <2>3. CASE PutLoad(c) \/ PutTruncate(c) \/ PutWrite(c)
    BY <2>3 DEF PutLoad, PutTruncate, PutWrite, envVars
  <2>4. QED
    BY <1>4, <2>1, <2>2, <2>3 DEF ModuleStep, Handle
<1>5. QED
  BY <1>1, <1>2, <1>3, <1>4 DEF Step

\* When a build of an overlapping process saves the environment, no other
\* is altering it: both would be working on overlapping graphs.
LEMMA SavesAlone ==
  ASSUME LockInv, NEW b \in Build, NEW c \in Build, b # c,
         pc[b] \in Working, Altering(c), ProcessOf[b] = ProcessOf[c]
  PROVE  ~Overlapping(ProcessOf[b])
<1>1. pc[c] \in Working
  BY DEF Altering
<1>2. Graph[b] \cap Graph[c] = {}
  BY <1>1 DEF LockInv, WorkingHoldAll
<1>3. QED
  BY <1>2 DEF Overlapping

LEMMA StepEnvInv ==
  ASSUME TypeInv, LockInv, EnvInv, NEW c \in Build, Step(c)
  PROVE  EnvInv'
<1>0. escaped' = escaped
  BY EnvFrame
<1> SUFFICES ASSUME NEW r \in Process, Overlapping(r), r \notin escaped
             PROVE  EnvKept(r)' \/ Died(r)'
  BY <1>0 DEF EnvInv, Overlapping
<1>1. /\ pc[c] \notin Over
      /\ \A b \in Build : b # c => pc'[b] = pc[b] /\ saved'[b] = saved[b]
      /\ r # ProcessOf[c] => env'[r] = env[r]
      /\ EnvEffect(c)
  BY EnvFrame
<1>2. CASE Died(r)
  BY <1>1, <1>2 DEF Died, Over
<1>3. CASE EnvKept(r) /\ ProcessOf[c] # r
  BY <1>1, <1>3 DEF EnvKept, Altering
<1>4. CASE EnvKept(r) /\ ProcessOf[c] = r
  <2>1. \A b \in Build : b # c => (Altering(b)' <=> Altering(b))
    BY <1>1 DEF Altering
  <2>2. \A b \in Build : b # c /\ ProcessOf[b] = r /\ pc[c] \in Working
                            => ~Altering(b) /\ pc'[b] # "setEnv"
    <3>1. \A b \in Build : b # c /\ ProcessOf[b] = r /\ pc[c] \in Working => ~Altering(b)
      BY <1>4, SavesAlone
    <3>2. QED
      BY <1>1, <3>1 DEF Altering, Working
  <2>3. CASE /\ Altering(c) /\ Altering(c)' /\ saved'[c] = saved[c]
             /\ pc'[c] = "setEnv" => env'[ProcessOf[c]] = Empty
    <3>1. pc[c] \in Working
      BY <2>3 DEF Altering
    <3>2. QED
      BY <1>1, <1>4, <2>1, <2>2, <2>3, <3>1 DEF EnvKept
  <2>4. CASE ~Altering(c) /\ ~Altering(c)' /\ UNCHANGED env
    <3>1. pc'[c] # "setEnv"
      BY <2>4 DEF Altering, Working
    <3>2. QED
      BY <1>1, <1>4, <2>1, <2>4, <3>1 DEF EnvKept
  <2>5. CASE /\ pc[c] = "saveEnv" /\ pc'[c] = "get" /\ UNCHANGED env
             /\ saved'[c] = env[ProcessOf[c]]
    <3>1. ~Altering(c) /\ Altering(c)' /\ pc[c] \in Working
      BY <2>5 DEF Altering, Working
    <3>2. env[r] = Original
      BY <1>4, <2>2, <3>1 DEF EnvKept
    <3>3. QED
      BY <1>1, <1>4, <2>1, <2>2, <2>5, <3>1, <3>2 DEF EnvKept
  <2>6. CASE /\ pc[c] = "setEnv" /\ ~Altering(c)'
             /\ env'[ProcessOf[c]] = Restored(env[ProcessOf[c]], saved[c])
    <3>1. Altering(c) /\ pc[c] \in Working /\ pc'[c] # "setEnv"
      BY <2>6 DEF Altering, Working
    <3>2. env'[r] = Original
      BY <1>4, <2>6, <3>1, RestoredOriginal DEF EnvKept
    <3>3. QED
      BY <1>1, <1>4, <2>1, <2>2, <2>6, <3>1, <3>2 DEF EnvKept
  <2>7. QED
    BY <1>1, <2>3, <2>4, <2>5, <2>6 DEF EnvEffect
<1>5. QED
  BY <1>2, <1>3, <1>4 DEF EnvInv

\* What a goroutine of a hook sets is undone by the build that is to restore
\* the environment, or has escaped.
LEMMA StrayEnvInv ==
  ASSUME TypeInv, LockInv, EnvInv, NEW c \in Build, StrayStep(c)
  PROVE  EnvInv'
<1>1. pc' = pc /\ saved' = saved /\ escaped \subseteq escaped'
  BY DEF StrayStep, StartStray, StraySets, StrayEnds, buildVars
<1>2. \A r \in Process : r # ProcessOf[c] => env'[r] = env[r]
  <2>1. CASE StraySets(c)
    BY <2>1, BuildAssumption DEF StraySets, TypeInv, TypeOK
  <2>2. QED
    BY <2>1 DEF StrayStep, StartStray, StrayEnds
<1>3. \/ UNCHANGED env
      \/ Undoing(ProcessOf[c])
      \/ ProcessOf[c] \in escaped'
  BY DEF StrayStep, StartStray, StraySets, StrayEnds
<1> SUFFICES ASSUME NEW r \in Process, Overlapping(r), r \notin escaped'
             PROVE  EnvKept(r)' \/ Died(r)'
  BY DEF EnvInv, Overlapping
<1>4. EnvKept(r) \/ Died(r)
  BY <1>1 DEF EnvInv
<1>5. CASE Died(r)
  BY <1>1, <1>5 DEF Died
<1>6. CASE EnvKept(r) /\ env'[r] = env[r]
  BY <1>1, <1>6 DEF EnvKept, Altering
<1>7. CASE EnvKept(r) /\ Undoing(r)
  <2>1. PICK b \in Build : ProcessOf[b] = r /\ pc[b] \in Working \ {"saveEnv", "setEnv"}
    BY <1>7 DEF Undoing
  <2>2. pc[b] \in Working /\ Altering(b) /\ pc[b] # "setEnv"
    BY <2>1 DEF Altering
  <2>3. \A d \in Build : d # b /\ ProcessOf[d] = r => ~Altering(d)
    BY <2>1, <2>2, SavesAlone
  <2>4. \A d \in Build : ProcessOf[d] = r => pc[d] # "setEnv"
    BY <2>2, <2>3 DEF Altering, Working
  <2>5. QED
    BY <1>1, <1>7, <2>1, <2>2, <2>4 DEF EnvKept, Altering
<1>8. QED
  BY <1>2, <1>3, <1>4, <1>5, <1>6, <1>7

LEMMA CrashEnvInv ==
  ASSUME TypeInv, EnvInv, NEW q \in Process, Crash(q)
  PROVE  EnvInv'
<1>1. /\ \A b \in Build : pc'[b] = IF ProcessOf[b] = q /\ pc[b] \notin Over
                                   THEN "crashed" ELSE pc[b]
      /\ \A b \in Build : ProcessOf[b] # q => saved'[b] = saved[b]
      /\ \E b \in Build : ProcessOf[b] = q /\ pc[b] \notin Over
      /\ \A r \in Process : r # q => env'[r] = env[r]
      /\ escaped' = escaped
  BY DEF Crash, TypeInv, TypeOK
<1>2. Died(q)'
  BY <1>1 DEF Died
<1>3. ASSUME NEW r \in Process, r # q, EnvKept(r) \/ Died(r)
      PROVE  EnvKept(r)' \/ Died(r)'
  BY <1>1, <1>3 DEF EnvKept, Died, Altering
<1>4. QED
  BY <1>1, <1>2, <1>3 DEF EnvInv, Overlapping

LEMMA NextEnvInv == TypeInv /\ LockInv /\ EnvInv /\ [Next]_vars => EnvInv'
<1> SUFFICES ASSUME TypeInv, LockInv, EnvInv, [Next]_vars
             PROVE  EnvInv'
  OBVIOUS
<1>1. CASE UNCHANGED vars
  BY <1>1 DEF vars, buildVars, envVars, strayVars, EnvInv, EnvKept, Died, Altering
<1>2. QED
  BY <1>1, StepEnvInv, StrayEnvInv, CrashEnvInv DEF Next

\* A process whose builds all overlap gets its environment back, to the
\* variable, from Clearenv and from what goroutines of hooks set while a build
\* was there to undo it: the locks that guard the graphs guard it too,
\* whichever builds fail (build.go:419-425).
THEOREM OverlapRestores == Spec => []OverlapEnvRestored
<1>1. Init => TypeInv /\ LockInv /\ EnvInv
  BY InitTypeInv, InitLockInv, InitEnvInv
<1>2. TypeInv /\ LockInv /\ EnvInv /\ [Next]_vars => (TypeInv /\ LockInv /\ EnvInv)'
  BY NextTypeInv, NextLockInv, NextEnvInv
<1>3. EnvInv => OverlapEnvRestored
  <2> SUFFICES ASSUME EnvInv, NEW r \in Process, EnvQuiet(r), r \notin escaped,
                      Overlapping(r)
               PROVE  env[r] = Original
    BY DEF OverlapEnvRestored, Overlapping
  <2>1. \A b \in Build : ProcessOf[b] = r => ~Altering(b) /\ pc[b] # "crashed"
    BY DEF EnvQuiet, Altering, Working
  <2>2. QED
    BY <2>1 DEF EnvInv, EnvKept, Died
<1>4. QED
  BY <1>1, <1>2, <1>3, PTL DEF Spec

=============================================================================
