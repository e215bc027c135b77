--------------------------- MODULE WorkSet_proofs ---------------------------
(***************************************************************************)
(* Theorems about WorkSet for any items, any number of runners and         *)
(* whatever f adds.                                                        *)
(***************************************************************************)
EXTENDS WorkSet, FiniteSetTheorems, TLAPS

\* Who works on what: added items that are not in the list, one each.
ItemsApart ==
  /\ todo \subseteq added
  /\ \A r \in Runner : at[r] = "run" => item[r] \in added \ todo
  /\ \A r, s \in Runner :
       r # s /\ at[r] = "run" /\ at[s] = "run" => item[r] # item[s]

Inv ==
  /\ WorkTypeOK
  /\ ItemsApart
  /\ WaitingCounts
  /\ NoEarlyReturn
  /\ NeverAllAsleep

-----------------------------------------------------------------------------
(* Counting idle runners. *)

\* The idle runners are finitely many, and all of them are only as many as
\* the runners when every runner is idle.
LEMMA IdleIsFinite ==
  /\ IsFiniteSet(Idle)
  /\ Cardinality(Idle) = Cardinality(Runner) => Idle = Runner
<1>1. Idle \subseteq Runner
  BY DEF Idle
<1>2. QED
  BY <1>1, RunnerAssumption, FS_Subset

\* Without r, the idle runners are one fewer if r is one of them.
LEMMA CountWithout ==
  ASSUME NEW S, IsFiniteSet(S), NEW r
  PROVE  /\ IsFiniteSet(S \ {r})
         /\ Cardinality(S) \in Nat
         /\ r \in S => Cardinality(S \ {r}) = Cardinality(S) - 1
         /\ r \notin S => Cardinality(S \ {r}) = Cardinality(S)
<1>1. r \notin S => S \ {r} = S
  OBVIOUS
<1>2. QED
  BY <1>1, FS_RemoveElement, FS_CardinalityType

\* With r back, they are one more.
LEMMA CountWith ==
  ASSUME NEW S, IsFiniteSet(S), NEW r
  PROVE  /\ IsFiniteSet((S \ {r}) \cup {r})
         /\ Cardinality((S \ {r}) \cup {r}) = Cardinality(S \ {r}) + 1
<1>1. IsFiniteSet(S \ {r})
  BY CountWithout
<1>2. QED
  BY <1>1, FS_AddElement

\* A runner that looks counts itself out: what is left are the others.
LEMMA OthersWaiting ==
  ASSUME Inv, NEW r \in Runner, Looking(r)
  PROVE  /\ WaitingWithout(r) = Cardinality(Idle \ {r})
         /\ WaitingWithout(r) \in Nat
<1>1. IsFiniteSet(Idle) /\ waiting = Cardinality(Idle)
  BY IdleIsFinite DEF Inv, WaitingCounts
<1>2. CASE at[r] = "woken"
  <2>1. r \in Idle
    BY <1>2 DEF Idle
  <2>2. Cardinality(Idle \ {r}) = waiting - 1
    BY <1>1, <2>1, CountWithout
  <2>3. Cardinality(Idle \ {r}) \in Nat
    BY <1>1, CountWithout, FS_CardinalityType
  <2>4. QED
    BY <1>2, <2>2, <2>3 DEF WaitingWithout
<1>3. CASE at[r] = "look"
  <2>1. r \notin Idle
    BY <1>3 DEF Idle
  <2>2. Cardinality(Idle \ {r}) = waiting /\ waiting \in Nat
    BY <1>1, <2>1, CountWithout
  <2>3. QED
    BY <1>3, <2>2 DEF WaitingWithout
<1>4. QED
  BY <1>2, <1>3 DEF Looking

-----------------------------------------------------------------------------
(* The steps. *)

\* Nobody has returned while a runner is in f or there is work.
LEMMA NoneReturned ==
  ASSUME Inv, NEW r \in Runner,
         at[r] \in {"run", "look"} \/ todo # {}
  PROVE  \A s \in Runner : at[s] # "returned"
BY DEF Inv, NoEarlyReturn

LEMMA TakeKeeps ==
  ASSUME Inv, NEW r \in Runner, Take(r)
  PROVE  Inv'
<1> USE DEF Inv
<1>1. PICK i \in todo : item' = [item EXCEPT ![r] = i] /\ todo' = todo \ {i}
  BY DEF Take
<1>2. /\ at' = [at EXCEPT ![r] = "run"] /\ waiting' = WaitingWithout(r)
      /\ added' = added /\ Looking(r)
  BY DEF Take
<1>3. WorkTypeOK'
  BY <1>1, <1>2, OthersWaiting DEF WorkTypeOK, Place
<1>4. ItemsApart'
  <2>1. item'[r] = i /\ at'[r] = "run" /\ i \in added
    BY <1>1, <1>2 DEF WorkTypeOK, ItemsApart
  <2>2. \A s \in Runner \ {r} : item'[s] = item[s] /\ at'[s] = at[s]
    BY <1>1, <1>2 DEF WorkTypeOK
  <2>3. QED
    BY <1>1, <1>2, <2>1, <2>2 DEF ItemsApart
<1>5. WaitingCounts'
  <2>1. Idle' = Idle \ {r}
    BY <1>2 DEF Idle, WorkTypeOK
  <2>2. QED
    BY <1>2, <2>1, OthersWaiting DEF WaitingCounts
<1>6. NoEarlyReturn'
  BY <1>1, <1>2, NoneReturned DEF NoEarlyReturn, WorkTypeOK
<1>7. NeverAllAsleep'
  BY <1>2 DEF NeverAllAsleep, Asleep, WorkTypeOK
<1>8. QED
  BY <1>3, <1>4, <1>5, <1>6, <1>7

\* After a runner has counted itself, the count is right.
LEMMA CountedBack ==
  ASSUME Inv, NEW r \in Runner, Looking(r), waiting' = WaitingWithout(r) + 1,
         Idle' = (Idle \ {r}) \cup {r}
  PROVE  WaitingCounts' /\ waiting' \in Nat
<1>1. WaitingWithout(r) = Cardinality(Idle \ {r}) /\ WaitingWithout(r) \in Nat
  BY OthersWaiting
<1>2. Cardinality((Idle \ {r}) \cup {r}) = Cardinality(Idle \ {r}) + 1
  BY IdleIsFinite, CountWith
<1>3. Cardinality(Idle') = waiting'
  BY <1>1, <1>2
<1>4. QED
  BY <1>1, <1>3 DEF WaitingCounts

LEMMA SleepKeeps ==
  ASSUME Inv, NEW r \in Runner, Sleep(r)
  PROVE  Inv'
<1> USE DEF Inv
<1>1. /\ Looking(r) /\ todo = {} /\ WaitingWithout(r) + 1 # Cardinality(Runner)
      /\ waiting' = WaitingWithout(r) + 1 /\ at' = [at EXCEPT ![r] = "asleep"]
      /\ UNCHANGED <<added, todo, item>>
  BY DEF Sleep
<1>2. Idle' = (Idle \ {r}) \cup {r}
  BY <1>1 DEF Idle, WorkTypeOK
<1>3. WaitingCounts' /\ waiting' \in Nat
  BY <1>1, <1>2, CountedBack
<1>4. WorkTypeOK'
  BY <1>1, <1>3 DEF WorkTypeOK, Place
<1>5. \A s \in Runner \ {r} : at'[s] = at[s]
  BY <1>1 DEF WorkTypeOK
<1>6. at'[r] = "asleep"
  BY <1>1 DEF WorkTypeOK
<1>7. ItemsApart'
  BY <1>1, <1>5, <1>6 DEF ItemsApart
<1>8. NoEarlyReturn'
  <2>1. SUFFICES ASSUME NEW s \in Runner, at'[s] = "returned" PROVE FALSE
    BY DEF NoEarlyReturn
  <2>2. at[s] = "returned"
    BY <1>5, <1>6, <2>1
  <2>3. \A q \in Runner : at[q] \in {"woken", "returned"}
    BY <2>2 DEF NoEarlyReturn
  <2>4. at[r] = "woken" /\ Idle = Runner
    BY <1>1, <2>3 DEF Looking, Idle
  <2>5. waiting = Cardinality(Runner) /\ WaitingWithout(r) = waiting - 1
    BY <2>4 DEF WaitingCounts, WaitingWithout
  <2>6. QED
    BY <1>1, <2>5 DEF WorkTypeOK
<1>9. NeverAllAsleep'
  <2>1. SUFFICES ASSUME Asleep' = Runner PROVE FALSE
    BY DEF NeverAllAsleep
  <2>2. Idle' = Runner
    BY <2>1 DEF Asleep, Idle
  <2>3. QED
    BY <1>1, <1>3, <2>2 DEF WaitingCounts
<1>10. QED
  BY <1>3, <1>4, <1>7, <1>8, <1>9

\* The runner that finds everybody idle: all are.
LEMMA AllIdle ==
  ASSUME Inv, NEW r \in Runner, Finish(r)
  PROVE  /\ Idle' = (Idle \ {r}) \cup {r}
         /\ Idle' = Runner
         /\ WaitingCounts'
         /\ waiting' \in Nat
<1>1. /\ Looking(r) /\ WaitingWithout(r) + 1 = Cardinality(Runner)
      /\ waiting' = WaitingWithout(r) + 1
      /\ at' = [s \in Runner |-> IF s = r THEN "returned"
                                   ELSE IF at[s] = "asleep" THEN "woken" ELSE at[s]]
  BY DEF Finish
<1>2. Idle' = (Idle \ {r}) \cup {r}
  <2>1. at'[r] = "returned"
    BY <1>1
  <2>2. \A s \in Runner \ {r} :
          at'[s] = IF at[s] = "asleep" THEN "woken" ELSE at[s]
    BY <1>1
  <2>3. QED
    BY <2>1, <2>2 DEF Idle
<1>3. WaitingCounts' /\ waiting' \in Nat
  BY <1>1, <1>2, CountedBack
<1>4. Idle' = Runner
  <2>1. Idle' \subseteq Runner /\ Cardinality(Idle') = Cardinality(Runner)
    BY <1>1, <1>3 DEF Idle, WaitingCounts
  <2>2. QED
    BY <2>1, RunnerAssumption, FS_Subset
<1>5. QED
  BY <1>2, <1>3, <1>4

LEMMA FinishKeeps ==
  ASSUME Inv, NEW r \in Runner, Finish(r)
  PROVE  Inv'
<1> USE DEF Inv
<1>1. /\ Looking(r) /\ todo = {} /\ UNCHANGED <<added, todo, item>>
      /\ at' = [s \in Runner |-> IF s = r THEN "returned"
                                   ELSE IF at[s] = "asleep" THEN "woken" ELSE at[s]]
  BY DEF Finish
<1>2. at'[r] = "returned"
  BY <1>1
<1>3. \A s \in Runner \ {r} : at'[s] = IF at[s] = "asleep" THEN "woken" ELSE at[s]
  BY <1>1
<1>4. WorkTypeOK'
  <2>1. at' \in [Runner -> Place]
    BY <1>1, <1>2, <1>3 DEF WorkTypeOK, Place
  <2>2. QED
    BY <1>1, <2>1, AllIdle DEF WorkTypeOK
<1>5. ItemsApart'
  <2>1. \A s \in Runner : at'[s] = "run" => at[s] = "run"
    BY <1>2, <1>3
  <2>2. QED
    BY <1>1, <2>1 DEF ItemsApart
<1>6. NoEarlyReturn'
  <2>1. \A s \in Runner : at'[s] \in {"asleep", "woken", "returned"}
    BY AllIdle DEF Idle
  <2>2. \A s \in Runner : at'[s] # "asleep"
    BY <1>2, <1>3
  <2>3. QED
    BY <1>1, <2>1, <2>2 DEF NoEarlyReturn
<1>7. NeverAllAsleep'
  BY <1>2 DEF NeverAllAsleep, Asleep
<1>8. QED
  BY <1>4, <1>5, <1>6, <1>7, AllIdle

LEMMA AddKeeps ==
  ASSUME Inv, NEW r \in Runner, NEW i \in Item, Add(r, i)
  PROVE  Inv'
<1> USE DEF Inv
<1>1. at[r] = "run" /\ added' = added \cup {i} /\ UNCHANGED <<waiting, item>>
  BY DEF Add
<1>2. /\ \/ i \in added /\ todo' = todo
         \/ i \notin added /\ todo' = todo \cup {i}
      /\ \/ at' = at
         \/ \E s \in Asleep : at' = [at EXCEPT ![s] = "woken"]
  BY DEF Add
<1>3. WorkTypeOK'
  BY <1>1, <1>2 DEF WorkTypeOK, Place, Asleep
<1>4. \A s \in Runner : \/ at'[s] = at[s]
                        \/ at[s] = "asleep" /\ at'[s] = "woken"
  BY <1>2 DEF Asleep, WorkTypeOK
<1>5. at'[r] = "run"
  BY <1>1, <1>4
<1>6. ItemsApart'
  <2>1. \A s \in Runner : at'[s] = "run" => at[s] = "run"
    BY <1>4
  <2>2. QED
    BY <1>1, <1>2, <2>1 DEF ItemsApart
<1>7. WaitingCounts'
  <2>1. Idle' = Idle
    BY <1>4 DEF Idle
  <2>2. QED
    BY <1>1, <2>1 DEF WaitingCounts
<1>8. NoEarlyReturn'
  <2>1. \A s \in Runner : at[s] # "returned"
    BY <1>1, NoneReturned
  <2>2. QED
    BY <1>4, <2>1 DEF NoEarlyReturn
<1>9. NeverAllAsleep'
  BY <1>5 DEF NeverAllAsleep, Asleep
<1>10. QED
  BY <1>3, <1>6, <1>7, <1>8, <1>9

LEMMA ReturnKeeps ==
  ASSUME Inv, NEW r \in Runner, Return(r)
  PROVE  Inv'
<1> USE DEF Inv
<1>1. /\ at[r] = "run" /\ at' = [at EXCEPT ![r] = "look"]
      /\ item' = [item EXCEPT ![r] = NoItem] /\ UNCHANGED <<added, todo, waiting>>
  BY DEF Return
<1>2. at'[r] = "look" /\ \A s \in Runner \ {r} : at'[s] = at[s] /\ item'[s] = item[s]
  BY <1>1 DEF WorkTypeOK
<1>3. WorkTypeOK'
  BY <1>1 DEF WorkTypeOK, Place
<1>4. ItemsApart'
  BY <1>1, <1>2 DEF ItemsApart
<1>5. WaitingCounts'
  <2>1. Idle' = Idle
    BY <1>1, <1>2 DEF Idle
  <2>2. QED
    BY <1>1, <2>1 DEF WaitingCounts
<1>6. NoEarlyReturn'
  <2>1. \A s \in Runner : at[s] # "returned"
    BY <1>1, NoneReturned
  <2>2. QED
    BY <1>2, <2>1 DEF NoEarlyReturn
<1>7. NeverAllAsleep'
  BY <1>2 DEF NeverAllAsleep, Asleep
<1>8. QED
  BY <1>3, <1>4, <1>5, <1>6, <1>7

-----------------------------------------------------------------------------
(* The invariant. *)

LEMMA InitInv ==
  ASSUME NEW first \in SUBSET Item, WorkInit(first)
  PROVE  Inv
<1>1. Idle = {} /\ Asleep = {}
  BY DEF WorkInit, Idle, Asleep
<1>2. WaitingCounts
  BY <1>1, FS_EmptySet DEF WorkInit, WaitingCounts
<1>3. WorkTypeOK /\ ItemsApart /\ NoEarlyReturn
  BY DEF WorkInit, WorkTypeOK, ItemsApart, NoEarlyReturn, Place
<1>4. NeverAllAsleep
  BY <1>1, RunnerAssumption DEF NeverAllAsleep
<1>5. QED
  BY <1>2, <1>3, <1>4 DEF Inv

LEMMA StutterKeeps == Inv /\ UNCHANGED workVars => Inv'
BY DEF Inv, workVars, WorkTypeOK, ItemsApart, WaitingCounts, NoEarlyReturn,
       NeverAllAsleep, Idle, Asleep

\* Inv holds in every reachable state.
THEOREM WorkSetInvariance == WorkSpec => []Inv
<1>1. (\E first \in SUBSET Item : WorkInit(first)) => Inv
  BY InitInv
<1>2. Inv /\ [WorkNext]_workVars => Inv'
  <2>1. SUFFICES ASSUME Inv, [WorkNext]_workVars PROVE Inv'
    OBVIOUS
  <2>2. CASE UNCHANGED workVars
    BY <2>1, <2>2, StutterKeeps
  <2>3. ASSUME NEW r \in Runner, Loop(r) PROVE Inv'
    BY <2>1, <2>3, TakeKeeps, SleepKeeps, FinishKeeps DEF Loop
  <2>4. ASSUME NEW r \in Runner, Return(r) PROVE Inv'
    BY <2>1, <2>4, ReturnKeeps
  <2>5. ASSUME NEW r \in Runner, NEW i \in Item, Add(r, i) PROVE Inv'
    BY <2>1, <2>5, AddKeeps
  <2>6. QED
    BY <2>1, <2>2, <2>3, <2>4, <2>5 DEF WorkNext
<1>3. QED
  BY <1>1, <1>2, PTL DEF WorkSpec

\* w.waiting is the number of idle runners (work.go:80-91).
THEOREM WaitingIsIdle == WorkSpec => []WaitingCounts
<1>1. Inv => WaitingCounts
  BY DEF Inv
<1>2. QED
  BY <1>1, WorkSetInvariance, PTL

\* Do does not return before the work is done (work.go:51).
THEOREM ReturnsAtTheEnd == WorkSpec => []NoEarlyReturn
<1>1. Inv => NoEarlyReturn
  BY DEF Inv
<1>2. QED
  BY <1>1, WorkSetInvariance, PTL

\* However Signal and the runners' locking interleave, a runner is awake.
THEOREM SomebodyAwake == WorkSpec => []NeverAllAsleep
<1>1. Inv => NeverAllAsleep
  BY DEF Inv
<1>2. QED
  BY <1>1, WorkSetInvariance, PTL

-----------------------------------------------------------------------------
(* The refinement of WorkPromise. *)

Done == added \ (todo \cup Working)
Over == \E r \in Runner : at[r] = "returned"

LEMMA TakeBegins ==
  ASSUME Inv, NEW r \in Runner, Take(r)
  PROVE  \E i \in Item : Promise!Begin(i)
<1>1. PICK i \in todo : item' = [item EXCEPT ![r] = i] /\ todo' = todo \ {i}
  BY DEF Take
<1>2. at' = [at EXCEPT ![r] = "run"] /\ added' = added /\ at[r] \in {"look", "woken"}
  BY DEF Take, Looking
<1>3. i \in Item /\ i \in added
  BY DEF Inv, WorkTypeOK, ItemsApart
<1>4. at'[r] = "run" /\ item'[r] = i
      /\ \A s \in Runner \ {r} : at'[s] = at[s] /\ item'[s] = item[s]
  BY <1>1, <1>2 DEF Inv, WorkTypeOK
<1>5. Working' = Working \cup {i}
  BY <1>2, <1>4 DEF Working
<1>6. Done' = Done
  BY <1>1, <1>2, <1>3, <1>5 DEF Done
<1>7. Over' = Over
  BY <1>2, <1>4 DEF Over
<1>8. Promise!Begin(i)
  BY <1>1, <1>5, <1>6, <1>7 DEF Promise!Begin, Done, Over
<1>9. QED
  BY <1>3, <1>8

LEMMA SleepStutters ==
  ASSUME Inv, NEW r \in Runner, Sleep(r)
  PROVE  UNCHANGED <<todo, Working, Done, Over>>
<1>1. at' = [at EXCEPT ![r] = "asleep"] /\ at[r] \in {"look", "woken"}
      /\ UNCHANGED <<added, todo, item>>
  BY DEF Sleep, Looking
<1>2. at'[r] = "asleep" /\ \A s \in Runner \ {r} : at'[s] = at[s]
  BY <1>1 DEF Inv, WorkTypeOK
<1>3. Working' = Working /\ Over' = Over
  BY <1>1, <1>2 DEF Working, Over
<1>4. QED
  BY <1>1, <1>3 DEF Done

LEMMA FinishConcludes ==
  ASSUME Inv, NEW r \in Runner, Finish(r)
  PROVE  Promise!Conclude
<1>1. /\ Looking(r) /\ todo = {} /\ UNCHANGED <<added, todo, item>>
      /\ at' = [s \in Runner |-> IF s = r THEN "returned"
                                   ELSE IF at[s] = "asleep" THEN "woken" ELSE at[s]]
  BY DEF Finish
<1>2. \A s \in Runner : at'[s] \in {"asleep", "woken", "returned"}
  BY AllIdle DEF Idle
<1>3. \A s \in Runner : at[s] # "run"
  BY <1>1, <1>2 DEF Looking
<1>4. Working = {} /\ Working' = {}
  BY <1>2, <1>3 DEF Working
<1>5. Over'
  BY <1>1 DEF Over
<1>6. Done' = Done
  BY <1>1, <1>4 DEF Done
<1>7. QED
  BY <1>1, <1>4, <1>5, <1>6 DEF Promise!Conclude, Done, Over

LEMMA AddSubmits ==
  ASSUME Inv, NEW r \in Runner, NEW i \in Item, Add(r, i)
  PROVE  Promise!Submit(i) \/ UNCHANGED <<todo, Working, Done, Over>>
<1>1. at[r] = "run" /\ added' = added \cup {i} /\ item' = item
  BY DEF Add
<1>2. /\ \/ i \in added /\ todo' = todo
         \/ i \notin added /\ todo' = todo \cup {i}
      /\ \/ at' = at
         \/ \E s \in Asleep : at' = [at EXCEPT ![s] = "woken"]
  BY DEF Add
<1>3. \A s \in Runner : \/ at'[s] = at[s]
                        \/ at[s] = "asleep" /\ at'[s] = "woken"
  BY <1>2 DEF Asleep, Inv, WorkTypeOK
<1>4. Working' = Working /\ Over' = Over
  BY <1>1, <1>3 DEF Working, Over
<1>5. Working # {} /\ Working \subseteq added /\ todo \subseteq added
  BY <1>1 DEF Working, Inv, ItemsApart
<1>6. CASE i \in added
  <2>1. added' = added /\ todo' = todo
    BY <1>1, <1>2, <1>6
  <2>2. QED
    BY <1>4, <2>1 DEF Done
<1>7. CASE i \notin added
  <2>1. todo' = todo \cup {i}
    BY <1>2, <1>7
  <2>2. Done' = Done
    BY <1>1, <1>4, <1>5, <1>7, <2>1 DEF Done
  <2>3. i \notin todo \cup Working \cup Done
    BY <1>5, <1>7 DEF Done
  <2>4. QED
    BY <1>4, <1>5, <2>1, <2>2, <2>3 DEF Promise!Submit, Promise!Known, Done, Over
<1>8. QED
  BY <1>6, <1>7

LEMMA ReturnEnds ==
  ASSUME Inv, NEW r \in Runner, Return(r)
  PROVE  item[r] \in Item /\ Promise!End(item[r])
<1>1. /\ at[r] = "run" /\ at' = [at EXCEPT ![r] = "look"]
      /\ item' = [item EXCEPT ![r] = NoItem] /\ UNCHANGED <<added, todo>>
  BY DEF Return
<1>2. at'[r] = "look" /\ \A s \in Runner \ {r} : at'[s] = at[s] /\ item'[s] = item[s]
  BY <1>1 DEF Inv, WorkTypeOK
<1>3. item[r] \in added \ todo /\ item[r] \in Item /\ item[r] \in Working
  BY <1>1 DEF Inv, ItemsApart, WorkTypeOK, Working
<1>4. \A s \in Runner \ {r} : at[s] = "run" => item[s] # item[r]
  BY <1>1 DEF Inv, ItemsApart
<1>5. Working' = Working \ {item[r]}
  BY <1>1, <1>2, <1>4 DEF Working
<1>6. Done' = Done \cup {item[r]}
  BY <1>1, <1>3, <1>5 DEF Done
<1>7. Over' = Over
  BY <1>1, <1>2 DEF Over
<1>8. Promise!End(item[r])
  BY <1>1, <1>3, <1>5, <1>6, <1>7 DEF Promise!End, Done, Over
<1>9. QED
  BY <1>3, <1>8

\* The work set implements WorkPromise: every item is worked on exactly once
\* and nobody returns before all of it is done.
THEOREM WorkSetKeepsPromise == WorkSpec => PromiseKept
<1>1. (\E first \in SUBSET Item : WorkInit(first)) => Promise!Init
  <2>1. SUFFICES ASSUME NEW first \in SUBSET Item, WorkInit(first)
                 PROVE  Promise!Init
    OBVIOUS
  <2>2. Working = {} /\ todo = added /\ todo \subseteq Item
        /\ \A r \in Runner : at[r] # "returned"
    BY <2>1 DEF WorkInit, Working
  <2>3. QED
    BY <2>2 DEF Promise!Init
<1>2. Inv /\ [WorkNext]_workVars => [Promise!Next]_(Promise!promiseVars)
  <2>1. SUFFICES ASSUME Inv, [WorkNext]_workVars
                 PROVE  Promise!Next \/ UNCHANGED <<todo, Working, Done, Over>>
    BY DEF Promise!promiseVars, Done, Over
  <2>2. CASE UNCHANGED workVars
    BY <2>2 DEF workVars, Working, Done, Over
  <2>3. ASSUME NEW r \in Runner, Loop(r)
        PROVE  Promise!Next \/ UNCHANGED <<todo, Working, Done, Over>>
    BY <2>1, <2>3, TakeBegins, SleepStutters, FinishConcludes DEF Loop, Promise!Next
  <2>4. ASSUME NEW r \in Runner, Return(r) PROVE Promise!Next
    BY <2>1, <2>4, ReturnEnds DEF Promise!Next
  <2>5. ASSUME NEW r \in Runner, NEW i \in Item, Add(r, i)
        PROVE  Promise!Next \/ UNCHANGED <<todo, Working, Done, Over>>
    BY <2>1, <2>5, AddSubmits DEF Promise!Next
  <2>6. QED
    BY <2>1, <2>2, <2>3, <2>4, <2>5 DEF WorkNext
<1>3. QED
  BY <1>1, <1>2, WorkSetInvariance, PTL DEF WorkSpec, PromiseKept, Promise!Spec

=============================================================================
