--------------------------- MODULE RuntimeLifecycle ---------------------------
(***************************************************************************)
(* createStagingCaseRuntimeLifecycle of                                    *)
(* src/src/staging-case-runtime-lifecycle.ts: start, drain and close of    *)
(* one HTTP listener, here for every listener of a process at once.        *)
(*                                                                         *)
(* Node runs one callback at a time, so a step is what the code does       *)
(* between two awaits.  start and close are called at any time and in any  *)
(* order; the bind settles, requests arrive and the drain timer fires in   *)
(* between.  A tracked socket, request and response are one request.       *)
(***************************************************************************)
EXTENDS Naturals, Sequences, FiniteSets

CONSTANTS Listeners, Requests

VARIABLES
    phase,       \* listener -> what health() reports
    startState,  \* listener -> where its startPromise is
    closeState,  \* listener -> where its closePromise is
    server,      \* listener -> the Node server
    requests,    \* listener -> the requests it tracks
    handlers,    \* listener -> the requests whose handler is still running
    releases     \* listener -> how often config.release was called

lifecycle == <<phase, startState, closeState, server, requests, handlers, releases>>

RInit ==
    /\ phase = [l \in Listeners |-> "new"]
    /\ startState = [l \in Listeners |-> "none"]
    /\ closeState = [l \in Listeners |-> "none"]
    /\ server = [l \in Listeners |-> "unbound"]
    /\ requests = [l \in Listeners |-> {}]
    /\ handlers = [l \in Listeners |-> {}]
    /\ releases = [l \in Listeners |-> 0]

Settled(l) == startState[l] \in {"resolved", "rejected"}
ClosingRequested(l) == closeState[l] # "none"

SetPhase(l, p) == phase' = [phase EXCEPT ![l] = p]
SetStart(l, s) == startState' = [startState EXCEPT ![l] = s]
SetClose(l, s) == closeState' = [closeState EXCEPT ![l] = s]
SetServer(l, s) == server' = [server EXCEPT ![l] = s]

\* invokeRelease: the first call makes the promise, every later one shares it.
InvokeRelease(l) == releases' = [releases EXCEPT ![l] = IF @ = 0 THEN 1 ELSE @]

\* The end of every path through finishClose: stopped, tracking removed, released.
FinishClose(l) ==
    /\ SetPhase(l, "stopped")
    /\ SetClose(l, "done")
    /\ requests' = [requests EXCEPT ![l] = {}]
    /\ InvokeRelease(l)

-----------------------------------------------------------------------------
\* start: listen on a server nobody has bound, once.
Start(l) ==
    /\ startState[l] = "none"
    /\ phase[l] = "new"
    /\ server[l] = "unbound"
    /\ SetPhase(l, "starting")
    /\ SetStart(l, "binding")
    /\ UNCHANGED <<closeState, server, requests, handlers, releases>>

\* start of a server that somebody else has bound since: it is stopped.
StartOnBoundServer(l) ==
    /\ startState[l] = "none"
    /\ phase[l] = "new"
    /\ server[l] # "unbound"
    /\ SetPhase(l, "failed")
    /\ SetStart(l, "stopping")
    /\ SetServer(l, "closing")
    /\ UNCHANGED <<closeState, requests, handlers, releases>>

\* start after close: nothing to do, and no error.
StartStopped(l) ==
    /\ startState[l] = "none"
    /\ phase[l] = "stopped"
    /\ SetStart(l, "resolved")
    /\ UNCHANGED <<phase, closeState, server, requests, handlers, releases>>

\* onListening at the promised address; a close that came first keeps draining.
Listening(l) ==
    /\ startState[l] = "binding"
    /\ SetServer(l, "listening")
    /\ SetStart(l, "resolved")
    /\ SetPhase(l, IF ClosingRequested(l) THEN phase[l] ELSE "ready")
    /\ UNCHANGED <<closeState, requests, handlers, releases>>

\* failBind: the bind failed, or the address is not the promised one and the
\* server is closed at once.
FailBind(l, s) ==
    /\ startState[l] = "binding"
    /\ SetServer(l, s)
    /\ SetPhase(l, "failed")
    /\ SetStart(l, "stopping")
    /\ UNCHANGED <<closeState, requests, handlers, releases>>

\* stopUnexpectedListener is done, or its timer is; then release and reject.
StopUnexpectedListener(l) ==
    /\ startState[l] = "stopping"
    /\ SetServer(l, IF server[l] = "unbound" THEN "unbound" ELSE "closed")
    /\ InvokeRelease(l)
    /\ SetStart(l, "rejected")
    /\ UNCHANGED <<phase, closeState, requests, handlers>>

-----------------------------------------------------------------------------
\* Requests, from outside: accepted while the server listens, answered at any
\* later time, or never, and aborted by a client while the handler runs on.
Accept(l, r) ==
    /\ server[l] = "listening"
    /\ r \notin handlers[l]
    /\ requests' = [requests EXCEPT ![l] = @ \cup {r}]
    /\ handlers' = [handlers EXCEPT ![l] = @ \cup {r}]
    /\ UNCHANGED <<phase, startState, closeState, server, releases>>

Answer(l, r) ==
    /\ r \in handlers[l]
    /\ requests' = [requests EXCEPT ![l] = @ \ {r}]
    /\ handlers' = [handlers EXCEPT ![l] = @ \ {r}]
    /\ UNCHANGED <<phase, startState, closeState, server, releases>>

Abort(l, r) ==
    /\ r \in requests[l]
    /\ requests' = [requests EXCEPT ![l] = @ \ {r}]
    /\ UNCHANGED <<phase, startState, closeState, server, handlers, releases>>

\* Somebody else binds the server before start.
BindElsewhere(l) ==
    /\ phase[l] = "new"
    /\ server[l] = "unbound"
    /\ SetServer(l, "foreign")
    /\ UNCHANGED <<phase, startState, closeState, requests, handlers, releases>>

-----------------------------------------------------------------------------
\* waitForServerClose and waitForDrain: no more accepts, wait for the requests.
BeginDrain(l) ==
    /\ SetPhase(l, "draining")
    /\ SetServer(l, "closing")
    /\ SetClose(l, "draining")
    /\ UNCHANGED <<startState, requests, handlers, releases>>

\* close, up to its first await.
Close(l) ==
    /\ closeState[l] = "none"
    /\ \/ /\ phase[l] = "new" \/ (phase[l] = "failed" /\ Settled(l))
          /\ FinishClose(l)
          /\ UNCHANGED <<startState, server, handlers>>
       \/ /\ phase[l] = "ready"
          /\ BeginDrain(l)
       \/ /\ phase[l] \in {"starting", "failed"} /\ ~Settled(l)
          /\ SetPhase(l, IF phase[l] = "starting" THEN "draining" ELSE phase[l])
          /\ SetClose(l, "awaitStart")
          /\ UNCHANGED <<startState, server, requests, handlers, releases>>

\* close, once the bind it raced has settled.
CloseAfterStart(l) ==
    /\ closeState[l] = "awaitStart"
    /\ Settled(l)
    /\ \/ phase[l] = "failed" /\ FinishClose(l) /\ UNCHANGED <<startState, server, handlers>>
       \/ phase[l] # "failed" /\ BeginDrain(l)

\* The last request is gone, and with it the server's last connection.
Drained(l) ==
    /\ closeState[l] = "draining"
    /\ requests[l] = {}
    /\ SetServer(l, "closed")
    /\ FinishClose(l)
    /\ UNCHANGED <<startState, handlers>>

\* Mutant: the drain has no deadline.
NoDeadline(l) == FALSE /\ UNCHANGED lifecycle

\* The drain timer: close every connection.  Handlers are not stopped by that.
DrainTimeout(l) ==
    /\ closeState[l] = "draining"
    /\ requests[l] # {}
    /\ SetClose(l, "forced")
    /\ requests' = [requests EXCEPT ![l] = {}]
    /\ UNCHANGED <<phase, startState, server, handlers, releases>>

\* One turn later close finishes, whether or not the server has.
CloseForced(l) ==
    /\ closeState[l] = "forced"
    /\ SetServer(l, "closed")
    /\ FinishClose(l)
    /\ UNCHANGED <<startState, handlers>>

-----------------------------------------------------------------------------
\* What the event loop owes: settled binds, timers and continuations.
BindSettles(l) == Listening(l) \/ \E s \in {"unbound", "closing"} : FailBind(l, s)
Runs(l) ==
    \/ BindSettles(l)
    \/ StopUnexpectedListener(l)
    \/ CloseAfterStart(l)
    \/ Drained(l)
    \/ DrainTimeout(l)
    \/ CloseForced(l)

Outside(l) ==
    \/ \E r \in Requests : Accept(l, r) \/ Answer(l, r) \/ Abort(l, r)
    \/ BindElsewhere(l)

RNext ==
    \E l \in Listeners :
        \/ Start(l) \/ StartOnBoundServer(l) \/ StartStopped(l)
        \/ Close(l)
        \/ Runs(l)
        \/ Outside(l)

RSpec == RInit /\ [][RNext]_lifecycle /\ \A l \in Listeners : WF_lifecycle(Runs(l))

-----------------------------------------------------------------------------
\* Type invariant.
RTypeOK ==
    /\ phase \in [Listeners -> {"new", "starting", "ready", "draining", "stopped", "failed"}]
    /\ startState \in [Listeners -> {"none", "binding", "stopping", "resolved", "rejected"}]
    /\ closeState \in [Listeners -> {"none", "awaitStart", "draining", "forced", "done"}]
    /\ server \in [Listeners -> {"unbound", "foreign", "listening", "closing", "closed"}]
    /\ requests \in [Listeners -> SUBSET Requests]
    /\ handlers \in [Listeners -> SUBSET Requests]
    /\ releases \in [Listeners -> 0..1]

\* Whatever raced, a lifecycle that reports stopped has no listening server
\* and has released, and one that reports ready accepts requests.
PhaseIsHonest ==
    \A l \in Listeners :
        /\ phase[l] = "stopped" => server[l] # "listening" /\ releases[l] = 1
        /\ phase[l] = "ready" => server[l] = "listening"

-----------------------------------------------------------------------------
(* The strengthening with which PhaseIsHonest is inductive, also for the   *)
(* processes that own listeners.                                           *)

\* One listener: its reported phase fixes where its promises and server are.
ListenerOK(l) ==
    /\ phase[l] = "new" =>
         /\ startState[l] = "none" /\ closeState[l] = "none"
         /\ server[l] \in {"unbound", "foreign"}
    /\ phase[l] = "starting" => startState[l] = "binding" /\ closeState[l] = "none"
    /\ phase[l] = "ready" =>
         /\ startState[l] = "resolved" /\ closeState[l] = "none"
         /\ server[l] = "listening"
    /\ phase[l] = "draining" =>
         \/ closeState[l] = "awaitStart" /\ startState[l] \in {"binding", "resolved"}
         \/ closeState[l] \in {"draining", "forced"} /\ server[l] = "closing"
    /\ phase[l] = "failed" =>
         /\ startState[l] \in {"stopping", "rejected"}
         /\ closeState[l] \in {"none", "awaitStart"}
         /\ server[l] \in {"unbound", "closing", "closed"}
         /\ startState[l] = "rejected" => server[l] # "closing"
    /\ phase[l] = "stopped" =>
         /\ closeState[l] = "done" /\ startState[l] \notin {"binding", "stopping"}
         /\ server[l] \in {"unbound", "foreign", "closed"} /\ releases[l] = 1
    /\ closeState[l] \in {"draining", "forced"} => phase[l] = "draining"
    /\ closeState[l] \in {"draining", "forced"} => startState[l] = "resolved"

ListenersOK == \A l \in Listeners : ListenerOK(l)

\* The inductive invariant of the listeners.
RInv == RTypeOK /\ ListenersOK

\* Nothing that the tasks look at is undone: new, ready and closed children
\* stay so, and no child is started or asked to close.
Quiet ==
    \A l \in Listeners :
        /\ phase[l] = "ready" => phase'[l] = "ready"
        /\ closeState'[l] = "none" <=> closeState[l] = "none"
        /\ closeState[l] = "done" => closeState'[l] = "done"
        /\ startState'[l] = "none" <=> startState[l] = "none"
        /\ startState[l] = "resolved" => startState'[l] = "resolved"
        /\ phase[l] = "new" => phase'[l] = "new"
=============================================================================
