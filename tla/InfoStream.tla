----------------------------- MODULE InfoStream -----------------------------
(***************************************************************************)
(* Requests for one artifact at one llard (src/internal/build/http/http.go)*)
(* share a build: singleflight lets one goroutine build for all who ask    *)
(* meanwhile, and a fanout, found by the same key in the map infos, copies *)
(* the output of that build to all of them as info lines.  Requests with   *)
(* other keys share nothing of this.                                       *)
(*                                                                         *)
(* A fanout, and a call of singleflight, is named by the request that      *)
(* makes it.                                                               *)
(***************************************************************************)
EXTENDS Naturals

CONSTANTS
  Request,   \* the requests for the key
  Lines,     \* bound: the info lines of a build
  None       \* no fanout, no call

ASSUME RequestAssumption == None \notin Request /\ Lines \in Nat

VARIABLES
  pc,         \* pc[r]: what r does next
  gone,       \* gone[r]: the client of r has disconnected
  answer,     \* answer[r]: what do returned to r
  stream,     \* stream[r]: the fanout that r found or stored in infos
  joined,     \* joined[r]: the call that r waits for
  infos,      \* the fanout in the map infos
  writers,    \* writers[f]: the requests added to fanout f
  pending,    \* pending[f]: those a Write, which holds f.mu, has yet to reach
  inFlight,   \* the call in the singleflight group
  call,       \* call[r]: the step that the call made by r is at
  outcome,    \* outcome[r]: what that call returns
  written     \* written[r]: how many info lines it has written

clientVars == <<pc, gone, answer, stream, joined>>
callVars == <<inFlight, call, outcome, written>>
vars == <<clientVars, infos, writers, pending, callVars>>

Fanout == Request

\* f.mu is free.
Unlocked(f) == pending[f] = {}

TypeOK ==
  /\ pc \in [Request -> {"arrive", "add", "join", "wait", "remove", "respond", "done"}]
  /\ gone \in [Request -> BOOLEAN]
  /\ answer \in [Request -> {"none", "result", "error", "canceled"}]
  /\ stream \in [Request -> Fanout \cup {None}]
  /\ joined \in [Request -> Request \cup {None}]
  /\ infos \in Fanout \cup {None}
  /\ writers \in [Fanout -> SUBSET Request]
  /\ pending \in [Fanout -> SUBSET Request]
  /\ inFlight \in Request \cup {None}
  /\ call \in [Request -> {"none", "build", "clear", "forget", "over"}]
  /\ outcome \in [Request -> {"none", "result", "error", "canceled"}]
  /\ written \in [Request -> 0..Lines]

Init ==
  /\ pc = [r \in Request |-> "arrive"]
  /\ gone = [r \in Request |-> FALSE]
  /\ answer = [r \in Request |-> "none"]
  /\ stream = [r \in Request |-> None]
  /\ joined = [r \in Request |-> None]
  /\ infos = None
  /\ writers = [f \in Fanout |-> {}]
  /\ pending = [f \in Fanout |-> {}]
  /\ inFlight = None
  /\ call = [r \in Request |-> "none"]
  /\ outcome = [r \in Request |-> "none"]
  /\ written = [r \in Request |-> 0]

Goto(r, step) == pc' = [pc EXCEPT ![r] = step]

-----------------------------------------------------------------------------
(* A request: ServeHTTP and do.                                             *)

\* infos.LoadOrStore with a new fanout.
Arrive(r) ==
  /\ pc[r] = "arrive"
  /\ infos' = IF infos = None THEN r ELSE infos
  /\ stream' = [stream EXCEPT ![r] = infos']
  /\ Goto(r, "add")
  /\ UNCHANGED <<gone, answer, joined, writers, pending, callVars>>

\* fanout.add, under the mutex of the fanout.
Add(r) ==
  /\ pc[r] = "add" /\ Unlocked(stream[r])
  /\ writers' = [writers EXCEPT ![stream[r]] = @ \cup {r}]
  /\ Goto(r, "join")
  /\ UNCHANGED <<gone, answer, stream, joined, infos, pending, callVars>>

\* group.DoChan: join the call in flight, or make one.
Join(r) ==
  /\ pc[r] = "join"
  /\ \/ /\ inFlight = None
        /\ inFlight' = r
        /\ call' = [call EXCEPT ![r] = "build"]
     \/ inFlight # None /\ UNCHANGED <<inFlight, call>>
  /\ joined' = [joined EXCEPT ![r] = inFlight']
  /\ Goto(r, "wait")
  /\ UNCHANGED <<gone, answer, stream, infos, writers, pending, outcome, written>>

\* The result of the call arrives.
Receive(r) ==
  /\ pc[r] = "wait" /\ call[joined[r]] = "over"
  /\ answer' = [answer EXCEPT ![r] = outcome[joined[r]]]
  /\ Goto(r, "remove")
  /\ UNCHANGED <<gone, stream, joined, infos, writers, pending, callVars>>

\* The context of the request is done.
GiveUp(r) ==
  /\ pc[r] = "wait" /\ gone[r]
  /\ answer' = [answer EXCEPT ![r] = "canceled"]
  /\ Goto(r, "remove")
  /\ UNCHANGED <<gone, stream, joined, infos, writers, pending, callVars>>

\* Variant: the writer is removed without taking the mutex.
Remove_Unlocked(r) ==
  /\ pc[r] = "remove"
  /\ writers' = [writers EXCEPT ![stream[r]] = @ \ {r}]
  /\ Goto(r, "respond")
  /\ UNCHANGED <<gone, answer, stream, joined, infos, pending, callVars>>

\* The deferred removal from the fanout.
Remove(r) ==
  /\ pc[r] = "remove" /\ Unlocked(stream[r])
  /\ writers' = [writers EXCEPT ![stream[r]] = @ \ {r}]
  /\ Goto(r, "respond")
  /\ UNCHANGED <<gone, answer, stream, joined, infos, pending, callVars>>

\* The rest of the info line, and the artifacts or the error.
Respond(r) ==
  /\ pc[r] = "respond"
  /\ Goto(r, "done")
  /\ UNCHANGED <<gone, answer, stream, joined, infos, writers, pending, callVars>>

\* The client goes away.  It makes a difference only where the context of
\* the request is looked at: a write to it returns, if with an error.
Disconnect(r) ==
  /\ ~gone[r] /\ pc[r] = "wait"
  /\ gone' = [gone EXCEPT ![r] = TRUE]
  /\ UNCHANGED <<pc, answer, stream, joined, infos, writers, pending, callVars>>

-----------------------------------------------------------------------------
(* The call of singleflight that request l has made.                        *)

\* The build writes a line to the fanout that l has: Write takes the mutex
\* until it has written to every writer.
WriteLine(l) ==
  /\ call[l] = "build" /\ written[l] < Lines /\ Unlocked(stream[l])
  /\ written' = [written EXCEPT ![l] = @ + 1]
  /\ pending' = [pending EXCEPT ![stream[l]] = writers[stream[l]]]
  /\ UNCHANGED <<clientVars, infos, writers, inFlight, call, outcome>>

\* Variant: the write to a client that has gone never returns.
WriteTo_Stalls(l, r) ==
  /\ call[l] = "build" /\ r \in pending[stream[l]] /\ ~gone[r]
  /\ pending' = [pending EXCEPT ![stream[l]] = @ \ {r}]
  /\ UNCHANGED <<clientVars, infos, writers, callVars>>

\* infoWriter.Write for one of them returns, with an error or without.
WriteTo(l, r) ==
  /\ call[l] = "build" /\ r \in pending[stream[l]]
  /\ pending' = [pending EXCEPT ![stream[l]] = @ \ {r}]
  /\ UNCHANGED <<clientVars, infos, writers, callVars>>

\* Variant: the build runs in the context of the request that started it.
BuildEnds_OwnContext(l) ==
  /\ call[l] = "build" /\ Unlocked(stream[l])
  /\ \E o \in {"result", "error"} :
       outcome' = [outcome EXCEPT ![l] = IF gone[l] THEN "canceled" ELSE o]
  /\ call' = [call EXCEPT ![l] = "clear"]
  /\ UNCHANGED <<clientVars, infos, writers, pending, inFlight, written>>

\* h.build returns; it runs context.WithoutCancel.
BuildEnds(l) ==
  /\ call[l] = "build" /\ Unlocked(stream[l])
  /\ \E o \in {"result", "error"} : outcome' = [outcome EXCEPT ![l] = o]
  /\ call' = [call EXCEPT ![l] = "clear"]
  /\ UNCHANGED <<clientVars, infos, writers, pending, inFlight, written>>

\* The deferred infos.Delete of the key, whatever fanout is there.
DeleteInfo(l) ==
  /\ call[l] = "clear"
  /\ infos' = None
  /\ call' = [call EXCEPT ![l] = "forget"]
  /\ UNCHANGED <<clientVars, writers, pending, inFlight, outcome, written>>

\* singleflight takes the call out of its map and sends the result.
Forget(l) ==
  /\ call[l] = "forget"
  /\ inFlight' = None
  /\ call' = [call EXCEPT ![l] = "over"]
  /\ UNCHANGED <<clientVars, infos, writers, pending, outcome, written>>

Client(r) ==
  Arrive(r) \/ Add(r) \/ Join(r) \/ Receive(r) \/ GiveUp(r) \/ Remove(r) \/ Respond(r)

Call(l) ==
  \/ WriteLine(l) \/ (\E r \in Request : WriteTo(l, r))
  \/ BuildEnds(l) \/ DeleteInfo(l) \/ Forget(l)

Next == \E r \in Request : Client(r) \/ Disconnect(r) \/ Call(r)

\* A request waits for a mutex at two points, and every Write lets it go:
\* builds write finitely many lines, and clients read theirs or disconnect.
Spec ==
  /\ Init /\ [][Next]_vars
  /\ \A r \in Request : WF_vars(Client(r)) /\ WF_vars(Call(r))

-----------------------------------------------------------------------------
(* Properties. *)

\* No info line goes to a response whose handler is past the removal: not
\* between its artifacts, not after ServeHTTP has returned.
NoLateLine ==
  \A f \in Fanout : \A r \in pending[f] : pc[r] \in {"join", "wait", "remove"}

\* A request fails as canceled only if its own client went away, never
\* because that of the request which started the shared build did.
CancelIsOwn == \A r \in Request : answer[r] = "canceled" => gone[r]

\* Every request is answered, whoever comes, joins or goes meanwhile.
EveryRequestAnswered == \A r \in Request : <>(pc[r] = "done")

\* Who waits for a build reads the fanout which that build writes to.
JoinersShareStream ==
  \A r \in Request :
    pc[r] = "wait" /\ call[joined[r]] = "build" => stream[r] = stream[joined[r]]
=============================================================================
