-------------------------- MODULE InfoStream_proofs --------------------------
(***************************************************************************)
(* Theorems about InfoStream for any number of requests and lines.         *)
(***************************************************************************)
EXTENDS InfoStream, TLAPS

\* Who has a fanout, who has joined a call, and who has made one.
Placed ==
  \A r \in Request :
    /\ pc[r] # "arrive" => stream[r] \in Fanout
    /\ pc[r] \notin {"arrive", "add", "join"} => joined[r] \in Request
    /\ call[r] # "none" => pc[r] \notin {"arrive", "add", "join"}

\* A fanout only has requests that are between their add and their remove,
\* and a Write only has writers still to reach that are there: whoever wants
\* to remove one waits for f.mu.
WritersPresent ==
  \A f \in Fanout :
    /\ pending[f] \subseteq writers[f]
    /\ \A r \in writers[f] : stream[r] = f /\ pc[r] \in {"join", "wait", "remove"}

\* No build ends canceled: it runs without the cancelation of any request.
BuildsNotCanceled == \A r \in Request : outcome[r] # "canceled"

Inv == TypeOK /\ Placed /\ WritersPresent /\ BuildsNotCanceled /\ CancelIsOwn

LEMMA InitInv == Init => Inv
BY RequestAssumption
   DEF Init, Inv, TypeOK, Placed, WritersPresent, BuildsNotCanceled, CancelIsOwn, Fanout

-----------------------------------------------------------------------------
(* The steps of a request. *)

LEMMA ClientInv ==
  ASSUME Inv, NEW r \in Request, Client(r) \/ Disconnect(r)
  PROVE  Inv'
<1> USE RequestAssumption
    DEF Inv, TypeOK, Placed, BuildsNotCanceled, CancelIsOwn, Fanout, Goto, callVars
<1>1. CASE Arrive(r)
  <2>1. infos' \in Request /\ stream' = [stream EXCEPT ![r] = infos']
    BY <1>1 DEF Arrive
  <2>2. WritersPresent'
    BY <1>1 DEF Arrive, WritersPresent
  <2>3. QED
    BY <1>1, <2>1, <2>2 DEF Arrive
<1>2. CASE Add(r)
  <2>1. WritersPresent'
    BY <1>2 DEF Add, WritersPresent, Unlocked
  <2>2. QED
    BY <1>2, <2>1 DEF Add
<1>3. CASE Join(r)
  <2>1. joined' = [joined EXCEPT ![r] = inFlight'] /\ inFlight' \in Request
    BY <1>3 DEF Join
  <2>2. WritersPresent'
    BY <1>3 DEF Join, WritersPresent
  <2>3. call' \in [Request -> {"none", "build", "clear", "forget", "over"}]
    BY <1>3 DEF Join
  <2>4. \A s \in Request : s # r => call'[s] = call[s]
    BY <1>3 DEF Join
  <2>5. TypeOK'
    <3>1. joined' \in [Request -> Request \cup {None}] /\ inFlight' \in Request \cup {None}
      BY <2>1
    <3>2. pc' \in [Request -> {"arrive", "add", "join", "wait", "remove", "respond", "done"}]
      BY <1>3 DEF Join
    <3>3. UNCHANGED <<gone, answer, stream, infos, writers, pending, outcome, written>>
      BY <1>3 DEF Join
    <3>4. QED
      BY <2>3, <3>1, <3>2, <3>3
  <2>6. Placed'
    BY <1>3, <2>1, <2>3, <2>4 DEF Join
  <2>7. BuildsNotCanceled' /\ CancelIsOwn'
    BY <1>3 DEF Join
  <2>8. QED
    BY <2>2, <2>5, <2>6, <2>7
<1>4. CASE Receive(r)
  <2>1. WritersPresent'
    BY <1>4 DEF Receive, WritersPresent
  <2>2. QED
    BY <1>4, <2>1 DEF Receive
<1>5. CASE GiveUp(r)
  <2>1. WritersPresent'
    BY <1>5 DEF GiveUp, WritersPresent
  <2>2. QED
    BY <1>5, <2>1 DEF GiveUp
<1>6. CASE Remove(r)
  <2>1. WritersPresent'
    BY <1>6 DEF Remove, WritersPresent, Unlocked
  <2>2. QED
    BY <1>6, <2>1 DEF Remove
<1>7. CASE Respond(r)
  <2>1. WritersPresent'
    BY <1>7 DEF Respond, WritersPresent
  <2>2. QED
    BY <1>7, <2>1 DEF Respond
<1>8. CASE Disconnect(r)
  <2>1. WritersPresent'
    BY <1>8 DEF Disconnect, WritersPresent
  <2>2. QED
    BY <1>8, <2>1 DEF Disconnect
<1>9. QED
  BY <1>1, <1>2, <1>3, <1>4, <1>5, <1>6, <1>7, <1>8 DEF Client

-----------------------------------------------------------------------------
(* The steps of a call. *)

LEMMA CallInv ==
  ASSUME Inv, NEW l \in Request, Call(l)
  PROVE  Inv'
<1> USE RequestAssumption
    DEF Inv, TypeOK, Placed, BuildsNotCanceled, CancelIsOwn, Fanout, clientVars
<1>1. CASE WriteLine(l)
  <2>1. stream[l] \in Request /\ written[l] + 1 \in 0..Lines
    BY <1>1 DEF WriteLine
  <2>2. WritersPresent'
    BY <1>1, <2>1 DEF WriteLine, WritersPresent
  <2>3. QED
    BY <1>1, <2>1, <2>2 DEF WriteLine
<1>2. ASSUME NEW r \in Request, WriteTo(l, r)
      PROVE  Inv'
  <2>1. stream[l] \in Request
    BY <1>2 DEF WriteTo
  <2>2. WritersPresent'
    BY <1>2, <2>1 DEF WriteTo, WritersPresent, callVars
  <2>3. QED
    BY <1>2, <2>1, <2>2 DEF WriteTo, callVars
<1>3. CASE BuildEnds(l)
  <2>1. PICK o \in {"result", "error"} : outcome' = [outcome EXCEPT ![l] = o]
    BY <1>3 DEF BuildEnds
  <2>2. WritersPresent'
    BY <1>3 DEF BuildEnds, WritersPresent
  <2>3. QED
    BY <1>3, <2>1, <2>2 DEF BuildEnds
<1>4. CASE DeleteInfo(l)
  <2>1. WritersPresent'
    BY <1>4 DEF DeleteInfo, WritersPresent
  <2>2. QED
    BY <1>4, <2>1 DEF DeleteInfo
<1>5. CASE Forget(l)
  <2>1. WritersPresent'
    BY <1>5 DEF Forget, WritersPresent
  <2>2. QED
    BY <1>5, <2>1 DEF Forget
<1>6. QED
  BY <1>1, <1>2, <1>3, <1>4, <1>5 DEF Call

-----------------------------------------------------------------------------
\* The invariant holds in every reachable state.
THEOREM InfoStreamInvariance == Spec => []Inv
<1>1. Inv /\ [Next]_vars => Inv'
  <2> SUFFICES ASSUME Inv, [Next]_vars
               PROVE  Inv'
    OBVIOUS
  <2>1. ASSUME NEW r \in Request, Client(r) \/ Disconnect(r) \/ Call(r)
        PROVE  Inv'
    BY <2>1, ClientInv, CallInv
  <2>2. CASE UNCHANGED vars
    BY <2>2 DEF Inv, TypeOK, Placed, WritersPresent, BuildsNotCanceled, CancelIsOwn,
                vars, clientVars, callVars, Fanout
  <2>3. QED
    BY <2>1, <2>2 DEF Next
<1>2. QED
  BY InitInv, <1>1, PTL DEF Spec

\* No info line goes to a response whose handler is past its removal from
\* the fanout, however many requests share the build.
THEOREM LinesAreInTime == Spec => []NoLateLine
<1>1. Inv => NoLateLine
  BY DEF Inv, WritersPresent, NoLateLine, TypeOK
<1>2. QED
  BY InfoStreamInvariance, <1>1, PTL

\* A request is only ever canceled by its own client.
THEOREM CancelationIsOwn == Spec => []CancelIsOwn
<1>1. Inv => CancelIsOwn
  BY DEF Inv
<1>2. QED
  BY InfoStreamInvariance, <1>1, PTL

=============================================================================
