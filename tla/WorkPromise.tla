---------------------------- MODULE WorkPromise ----------------------------
(***************************************************************************)
(* What a parallel work set promises (src/internal/mvs/par/work.go): every *)
(* item ever added is worked on exactly once, only work in progress adds   *)
(* more, and Do is over when nothing is pending and nothing in progress.   *)
(***************************************************************************)
CONSTANT Item

VARIABLES
  pending,    \* added, not started
  active,     \* in progress
  done,       \* worked on
  over        \* somebody was told that all is done

promiseVars == <<pending, active, done, over>>

Known == pending \cup active \cup done

Init ==
  /\ pending \subseteq Item
  /\ active = {}
  /\ done = {}
  /\ over = FALSE

Submit(i) ==
  /\ active # {}
  /\ i \notin Known
  /\ pending' = pending \cup {i}
  /\ UNCHANGED <<active, done, over>>

Begin(i) ==
  /\ i \in pending
  /\ pending' = pending \ {i}
  /\ active' = active \cup {i}
  /\ UNCHANGED <<done, over>>

End(i) ==
  /\ i \in active
  /\ active' = active \ {i}
  /\ done' = done \cup {i}
  /\ UNCHANGED <<pending, over>>

Conclude ==
  /\ pending = {}
  /\ active = {}
  /\ over' = TRUE
  /\ UNCHANGED <<pending, active, done>>

Next == Conclude \/ \E i \in Item : Submit(i) \/ Begin(i) \/ End(i)

Spec == Init /\ [][Next]_promiseVars

=============================================================================
