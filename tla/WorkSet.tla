------------------------------ MODULE WorkSet ------------------------------
(***************************************************************************)
(* The parallel work set (src/internal/mvs/par/work.go).  Do starts the    *)
(* runners; each takes items until nothing is left and nobody can add any. *)
(* Idle runners sleep on a condition variable; the last one to become idle *)
(* wakes them all, and they return.  What f does with an item is left open *)
(* here: it adds any items, one at a time, and returns.                    *)
(*                                                                         *)
(* w.mu makes each critical section one step, and Wait re-acquires it:     *)
(* what a woken runner does up to its next Wait, return or unlock is one   *)
(* step too.                                                               *)
(***************************************************************************)
EXTENDS Naturals, FiniteSets

CONSTANTS
  Item,        \* what can be added
  Runner,      \* the goroutines that Do starts, its own included
  NoItem       \* the item of a runner that is not in f

ASSUME RunnerAssumption == IsFiniteSet(Runner) /\ Runner # {}
ASSUME ItemAssumption == NoItem \notin Item

VARIABLES
  added,       \* w.added
  todo,        \* w.todo; the order is left out, a runner picks at random
  waiting,     \* w.waiting
  at,          \* at[r]: where runner r is in its loop
  item         \* item[r]: the item r runs f on

workVars == <<added, todo, waiting, at, item>>

\* "look": about to lock w.mu; "asleep": in Wait; "woken": in Wait, signalled;
\* "run": in f; "returned": out of runner.
Place == {"look", "asleep", "woken", "run", "returned"}

Idle == {r \in Runner : at[r] \in {"asleep", "woken", "returned"}}
Asleep == {r \in Runner : at[r] = "asleep"}

WorkTypeOK ==
  /\ added \subseteq Item
  /\ todo \subseteq Item
  /\ waiting \in Nat
  /\ at \in [Runner -> Place]
  /\ item \in [Runner -> Item \cup {NoItem}]

\* Do is called with the items of first added.
WorkInit(first) ==
  /\ added = first
  /\ todo = first
  /\ waiting = 0
  /\ at = [r \in Runner |-> "look"]
  /\ item = [r \in Runner |-> NoItem]

\* w.waiting once r is out of Wait.
WaitingWithout(r) == IF at[r] = "woken" THEN waiting - 1 ELSE waiting

Looking(r) == at[r] \in {"look", "woken"}

\* There is something to do: r takes one item, any of them.
Take(r) ==
  /\ Looking(r)
  /\ \E i \in todo :
       /\ item' = [item EXCEPT ![r] = i]
       /\ todo' = todo \ {i}
  /\ at' = [at EXCEPT ![r] = "run"]
  /\ waiting' = WaitingWithout(r)
  /\ UNCHANGED added

\* Variant: the last runner to become idle sleeps like the others.
Sleep_Always(r) ==
  /\ Looking(r)
  /\ todo = {}
  /\ waiting' = WaitingWithout(r) + 1
  /\ at' = [at EXCEPT ![r] = "asleep"]
  /\ UNCHANGED <<added, todo, item>>

\* Nothing to do, and somebody is not idle yet.
Sleep(r) ==
  /\ Looking(r)
  /\ todo = {}
  /\ WaitingWithout(r) + 1 # Cardinality(Runner)
  /\ waiting' = WaitingWithout(r) + 1
  /\ at' = [at EXCEPT ![r] = "asleep"]
  /\ UNCHANGED <<added, todo, item>>

\* Variant: the last runner returns without waking the others.
Finish_Silent(r) ==
  /\ Looking(r)
  /\ todo = {}
  /\ WaitingWithout(r) + 1 = Cardinality(Runner)
  /\ waiting' = WaitingWithout(r) + 1
  /\ at' = [at EXCEPT ![r] = "returned"]
  /\ UNCHANGED <<added, todo, item>>

\* Nothing to do and everybody idle: Broadcast, return.
Finish(r) ==
  /\ Looking(r)
  /\ todo = {}
  /\ WaitingWithout(r) + 1 = Cardinality(Runner)
  /\ waiting' = WaitingWithout(r) + 1
  /\ at' = [s \in Runner |-> IF s = r THEN "returned"
                               ELSE IF at[s] = "asleep" THEN "woken" ELSE at[s]]
  /\ UNCHANGED <<added, todo, item>>

Loop(r) == Take(r) \/ Sleep(r) \/ Finish(r)

\* Variant: the items already added are not looked up.
Add_Again(r, i) ==
  /\ at[r] = "run"
  /\ added' = added \cup {i}
  /\ todo' = todo \cup {i}
  /\ \/ (waiting = 0 \/ Asleep = {}) /\ UNCHANGED at
     \/ waiting > 0 /\ \E s \in Asleep : at' = [at EXCEPT ![s] = "woken"]
  /\ UNCHANGED <<waiting, item>>

\* f, in runner r, calls Add(i).  Signal wakes one sleeper, if there is one.
Add(r, i) ==
  /\ at[r] = "run"
  /\ added' = added \cup {i}
  /\ IF i \in added
     THEN UNCHANGED <<todo, at>>
     ELSE /\ todo' = todo \cup {i}
          /\ \/ (waiting = 0 \/ Asleep = {}) /\ UNCHANGED at
             \/ waiting > 0 /\ \E s \in Asleep : at' = [at EXCEPT ![s] = "woken"]
  /\ UNCHANGED <<waiting, item>>

\* f returns.
Return(r) ==
  /\ at[r] = "run"
  /\ at' = [at EXCEPT ![r] = "look"]
  /\ item' = [item EXCEPT ![r] = NoItem]
  /\ UNCHANGED <<added, todo, waiting>>

WorkNext ==
  \E r \in Runner : Loop(r) \/ Return(r) \/ \E i \in Item : Add(r, i)

WorkSpec ==
  /\ \E first \in SUBSET Item : WorkInit(first)
  /\ [][WorkNext]_workVars

-----------------------------------------------------------------------------
(* The counter and the sleepers. *)

\* w.waiting counts the runners that are idle, woken ones included until
\* they hold w.mu again: the test waiting == running rests on it.
WaitingCounts == waiting = Cardinality(Idle)

\* A runner returns only when nothing is left and nobody is in f or about
\* to take an item: Do never returns before its work is done.
NoEarlyReturn ==
  (\E r \in Runner : at[r] = "returned") =>
    /\ todo = {}
    /\ \A r \in Runner : at[r] \in {"woken", "returned"}

\* Some runner is always awake: no lost wake-up leaves them all asleep.
NeverAllAsleep == Asleep # Runner

-----------------------------------------------------------------------------
(* The work set keeps the promise of WorkPromise. *)

Working == {item[r] : r \in {s \in Runner : at[s] = "run"}}

Promise == INSTANCE WorkPromise WITH
  pending <- todo,
  active <- Working,
  done <- added \ (todo \cup Working),
  over <- \E r \in Runner : at[r] = "returned"

\* Every item is worked on exactly once, and no runner returns before all
\* work is done.
PromiseKept == Promise!Spec

=============================================================================
