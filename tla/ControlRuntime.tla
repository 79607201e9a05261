---------------------------- MODULE ControlRuntime ----------------------------
(***************************************************************************)
(* The staging control process: createStagingCaseProcessLifecycle of       *)
(* src/src/staging-case-process-lifecycle.ts over the listeners of         *)
(* RuntimeLifecycle, with the release callback and the start wrapper of    *)
(* composeStagingCaseControlRuntime in                                     *)
(* src/src/staging-case-control-runtime.ts.                                *)
(*                                                                         *)
(* start binds the listeners in order and rolls back on a failure; close   *)
(* may be called at any time.  Both are promises that run to their next    *)
(* await, so they are tasks with a program counter here.                   *)
(***************************************************************************)
EXTENDS RuntimeLifecycle

CONSTANT Order    \* the listeners, in the order they are bound

ASSUME OrderAssumption ==
    /\ Listeners # {}
    /\ Order \in Seq(Listeners)
    /\ \A l \in Listeners : \E i \in 1..Len(Order) : Order[i] = l
    /\ \A i, j \in 1..Len(Order) : Order[i] = Order[j] => i = j

VARIABLES
    processPhase,      \* what the process's health() reports
    closingRequested,
    startTask,         \* [at, child]: where startPromise is, and with which child
    closeTask,         \* [at, child]: where closePromise is
    releasePromise,    \* "none", "pending", "resolved" or "rejected"
    mode,              \* "tmp", "durable" or "recovery", fixed at construction
    expired,           \* the recovery authorization is no longer fresh
    readyForSeal,      \* recoveryReadyForSeal
    durable,           \* the case store: "open", "closed", "sealed" or "unsealed"
    wasReady           \* every listener was ready at once (history)

process == <<processPhase, closingRequested, startTask, closeTask, releasePromise,
             mode, expired, readyForSeal, durable, wasReady>>
vars == <<lifecycle, process>>

At(place, child) == [at |-> place, child |-> child]
Last == Len(Order)

\* A store started with recovery evidence is not ready to be sealed.
Init ==
    /\ RInit
    /\ processPhase = "new"
    /\ closingRequested = FALSE
    /\ startTask = At("none", 0)
    /\ closeTask = At("none", 0)
    /\ releasePromise = "none"
    /\ mode \in {"tmp", "durable", "recovery"}
    /\ expired = FALSE
    /\ readyForSeal = (mode # "recovery")
    /\ durable = "open"
    /\ wasReady = FALSE

StoreUnchanged == UNCHANGED <<releasePromise, mode, expired, readyForSeal, durable>>

\* health().ready of every child.
AllReady == \A l \in Listeners : phase[l] = "ready"

-----------------------------------------------------------------------------
\* The loop of start at child i: give up if a close came, run beforeBind, and
\* start the child.  A failure stops every child, last one first.
BeforeBindOK == ~(mode = "recovery" /\ expired)

BindChild(i, current) ==
    \/ /\ closingRequested
       /\ startTask' = At("resolved", 0)
       /\ processPhase' = current
       /\ UNCHANGED lifecycle
    \/ /\ ~closingRequested /\ ~BeforeBindOK
       /\ startTask' = At("stopping", Last)
       /\ processPhase' = "failed"
       /\ UNCHANGED lifecycle
    \/ /\ ~closingRequested /\ BeforeBindOK
       /\ startTask' = At("binding", i)
       /\ processPhase' = current
       /\ Start(Order[i]) \/ StartOnBoundServer(Order[i])

ProcessStart ==
    /\ startTask.at = "none"
    /\ processPhase = "new"
    /\ BindChild(1, "starting")
    /\ UNCHANGED <<closingRequested, closeTask, wasReady>>
    /\ StoreUnchanged

\* start after close has finished.
ProcessStartStopped ==
    /\ startTask.at = "none"
    /\ processPhase = "stopped"
    /\ startTask' = At("resolved", 0)
    /\ UNCHANGED <<lifecycle, processPhase, closingRequested, closeTask, wasReady>>
    /\ StoreUnchanged

\* The child's start has settled and it is ready: on to the next one.
ChildStarted ==
    /\ startTask.at = "binding" /\ startTask.child < Last
    /\ Settled(Order[startTask.child])
    /\ phase[Order[startTask.child]] = "ready"
    /\ BindChild(startTask.child + 1, processPhase)
    /\ UNCHANGED <<closingRequested, closeTask, wasReady>>
    /\ StoreUnchanged

\* Mutant: the last child makes the process ready though a close is under way.
ReadyThoughClosing ==
    /\ startTask = At("binding", Last)
    /\ phase[Order[Last]] = "ready"
    /\ startTask' = At("resolved", 0)
    /\ processPhase' = "ready"
    /\ wasReady' = (wasReady \/ AllReady)
    /\ UNCHANGED <<lifecycle, closingRequested, closeTask>>
    /\ StoreUnchanged

\* The last child is ready, and so is the process unless a close came.
LastChildStarted ==
    /\ startTask = At("binding", Last)
    /\ Settled(Order[Last])
    /\ phase[Order[Last]] = "ready"
    /\ startTask' = At("resolved", 0)
    /\ processPhase' = IF closingRequested THEN processPhase ELSE "ready"
    /\ wasReady' = (wasReady \/ (AllReady /\ ~closingRequested))
    /\ UNCHANGED <<lifecycle, closingRequested, closeTask>>
    /\ StoreUnchanged

ChildFailed ==
    LET l == Order[startTask.child] IN
    /\ startTask.at = "binding" /\ Settled(l)
    /\ phase[l] # "ready"
    /\ startTask' = At("stopping", Last)
    /\ processPhase' = "failed"
    /\ UNCHANGED <<lifecycle, closingRequested, closeTask, wasReady>>
    /\ StoreUnchanged

\* Mutant: a start that resolved is taken for a runtime that is ready.
StartReturnsUnchecked ==
    /\ startTask.at = "resolved"
    /\ startTask' = At("returned", 0)
    /\ readyForSeal' = TRUE
    /\ UNCHANGED <<lifecycle, processPhase, closingRequested, closeTask, releasePromise,
                   mode, expired, durable, wasReady>>

\* The wrapper around start: only a runtime that is ready now may be sealed
\* later, if it is a recovered one.
StartReturns ==
    /\ startTask.at = "resolved"
    /\ startTask' = At("returned", 0)
    /\ readyForSeal' = (readyForSeal \/ processPhase = "ready")
    /\ UNCHANGED <<lifecycle, processPhase, closingRequested, closeTask, releasePromise,
                   mode, expired, durable, wasReady>>

-----------------------------------------------------------------------------
\* Mutant: the children are stopped in the order they were started.
StopChildInOrder(task, next) ==
    LET l == Order[Last + 1 - task.child] IN
    /\ task.at = "stopping" /\ task.child > 0
    /\ \/ closeState[l] = "none" /\ Close(l) /\ next = task
       \/ closeState[l] = "done" /\ next = At("stopping", task.child - 1) /\ UNCHANGED lifecycle

\* Mutant: a child's close is called and not awaited.
StopChildUnawaited(task, next) ==
    /\ task.at = "stopping" /\ task.child > 0
    /\ closeState[Order[task.child]] = "none"
    /\ Close(Order[task.child])
    /\ next = At("stopping", task.child - 1)

\* stopChildrenInReverse, for the task that is at child i: close it, wait for
\* it, go on to the one before.
StopChild(task, next) ==
    /\ task.at = "stopping" /\ task.child > 0
    /\ \/ /\ closeState[Order[task.child]] = "none"
          /\ Close(Order[task.child])
          /\ next = task
       \/ /\ closeState[Order[task.child]] = "done"
          /\ next = At("stopping", task.child - 1)
          /\ UNCHANGED lifecycle

\* invokeRelease of the process: one promise, however many callers.
InvokeProcessRelease ==
    releasePromise' = IF releasePromise = "none" THEN "pending" ELSE releasePromise

StartStopsChild ==
    /\ \E next \in [at : {"stopping"}, child : 0..Last] :
         StopChild(startTask, next) /\ startTask' = next
    /\ UNCHANGED <<processPhase, closingRequested, closeTask, wasReady>>
    /\ StoreUnchanged

StartReleases ==
    /\ startTask = At("stopping", 0)
    /\ startTask' = At("releasing", 0)
    /\ InvokeProcessRelease
    /\ UNCHANGED <<lifecycle, processPhase, closingRequested, closeTask, mode, expired,
                   readyForSeal, durable, wasReady>>

StartRejects ==
    /\ startTask.at = "releasing"
    /\ releasePromise \in {"resolved", "rejected"}
    /\ startTask' = At("rejected", 0)
    /\ UNCHANGED <<lifecycle, processPhase, closingRequested, closeTask, wasReady>>
    /\ StoreUnchanged

StartSettled == startTask.at \in {"none", "resolved", "returned", "rejected"}

\* close: what start has begun is let finish first.
ProcessClose ==
    /\ closeTask.at = "none"
    /\ closingRequested' = TRUE
    /\ processPhase' = IF processPhase \in {"starting", "ready"} THEN "draining" ELSE processPhase
    /\ closeTask' = At(IF startTask.at = "none" THEN "stopping" ELSE "awaitStart", Last)
    /\ UNCHANGED <<lifecycle, startTask, wasReady>>
    /\ StoreUnchanged

CloseResumes ==
    /\ closeTask.at = "awaitStart" /\ StartSettled
    /\ closeTask' = At("stopping", Last)
    /\ UNCHANGED <<lifecycle, processPhase, closingRequested, startTask, wasReady>>
    /\ StoreUnchanged

CloseStopsChild ==
    /\ \E next \in [at : {"stopping"}, child : 0..Last] :
         StopChild(closeTask, next) /\ closeTask' = next
    /\ UNCHANGED <<processPhase, closingRequested, startTask, wasReady>>
    /\ StoreUnchanged

CloseReleases ==
    /\ closeTask = At("stopping", 0)
    /\ closeTask' = At("releasing", 0)
    /\ processPhase' = "stopped"
    /\ InvokeProcessRelease
    /\ UNCHANGED <<lifecycle, closingRequested, startTask, mode, expired, readyForSeal,
                   durable, wasReady>>

\* A failed release rejects close, also when start had swallowed it.
CloseSettles ==
    /\ closeTask.at = "releasing"
    /\ releasePromise \in {"resolved", "rejected"}
    /\ closeTask' = At(releasePromise, 0)
    /\ UNCHANGED <<lifecycle, processPhase, closingRequested, startTask, wasReady>>
    /\ StoreUnchanged

-----------------------------------------------------------------------------
\* The release callback.  sealAndClose throws before it closes the database
\* (a failed check) or after (a failed write of the seal).
ReleaseResult(store, promise) ==
    /\ releasePromise = "pending"
    /\ releasePromise' = promise
    /\ durable' = store
    /\ UNCHANGED <<lifecycle, processPhase, closingRequested, startTask, closeTask, mode,
                   expired, readyForSeal, wasReady>>

SealsOnRelease == mode # "tmp" /\ readyForSeal
ReleaseSeals == SealsOnRelease /\ ReleaseResult("sealed", "resolved")
ReleaseCloses == ~SealsOnRelease /\ ReleaseResult("closed", "resolved")
ReleaseThrows == SealsOnRelease /\ \E s \in {"open", "unsealed"} : ReleaseResult(s, "rejected")
Release == ReleaseSeals \/ ReleaseCloses \/ ReleaseThrows

\* The recovery evidence gets too old.
Expire ==
    /\ mode = "recovery" /\ ~expired
    /\ expired' = TRUE
    /\ UNCHANGED <<lifecycle, processPhase, closingRequested, startTask, closeTask,
                   releasePromise, mode, readyForSeal, durable, wasReady>>

\* Promise continuations of the process, in the order the event loop likes.
Continues ==
    \/ ChildStarted \/ LastChildStarted \/ ChildFailed \/ StartReturns \/ StartStopsChild
    \/ StartReleases \/ StartRejects \/ CloseResumes \/ CloseStopsChild \/ CloseReleases \/ CloseSettles
    \/ Release

ListenerRuns(l) == Runs(l) /\ UNCHANGED process
ListenerOutside(l) == Outside(l) /\ UNCHANGED process

Next ==
    \/ ProcessStart \/ ProcessStartStopped \/ ProcessClose \/ Expire
    \/ Continues
    \/ \E l \in Listeners : ListenerRuns(l) \/ ListenerOutside(l)

\* Node runs every continuation, timer and bind callback in the end.
Fairness ==
    /\ WF_vars(Continues)
    /\ \A l \in Listeners : WF_vars(ListenerRuns(l))

Spec == Init /\ [][Next]_vars /\ Fairness

-----------------------------------------------------------------------------
TaskPlaces == {"none", "binding", "awaitStart", "stopping", "releasing", "resolved",
               "returned", "rejected"}

\* Type invariant.
TypeOK ==
    /\ RTypeOK
    /\ processPhase \in {"new", "starting", "ready", "draining", "stopped", "failed"}
    /\ closingRequested \in BOOLEAN
    /\ startTask \in [at : TaskPlaces, child : 0..Last]
    /\ closeTask \in [at : TaskPlaces, child : 0..Last]
    /\ releasePromise \in {"none", "pending", "resolved", "rejected"}
    /\ mode \in {"tmp", "durable", "recovery"}
    /\ expired \in BOOLEAN
    /\ readyForSeal \in BOOLEAN
    /\ durable \in {"open", "closed", "sealed", "unsealed"}
    /\ wasReady \in BOOLEAN

\* The listeners that accept requests are always the first few of the order:
\* admissions are taken only while the outbox replays and the probe answers,
\* during startup, rollback and shutdown alike.
ListeningIsPrefix ==
    \A i, j \in 1..Last :
        i < j /\ server[Order[j]] = "listening" => server[Order[i]] = "listening"

\* The case store is released only after every listener was closed and its
\* drain is over, also when close races a start that fails.
ReleaseAfterListeners ==
    releasePromise # "none" => \A l \in Listeners : closeState[l] = "done"

\* A recovered store is sealed only if the process once was ready with every
\* listener: a recovery cut short leaves its marker for the next attempt.
RecoverySealsOnlyAfterReady == mode = "recovery" /\ durable = "sealed" => wasReady

\* A process that reports ready has every listener up and its store open.
ReadyIsHonest == processPhase = "ready" => AllReady /\ durable = "open"

\* close resolves only if the store was closed or sealed; a failed release,
\* even one that start has swallowed, rejects it.
CloseReportsRelease ==
    /\ closeTask.at = "resolved" => durable \in {"closed", "sealed"}
    /\ closeTask.at = "rejected" => durable \in {"open", "unsealed"}

\* What an operator is told is so, whatever raced: ready means that everything
\* is up, a listener that says stopped takes no request and one that says ready
\* does, and close resolves exactly if the store was released.
ReportsAreHonest == ReadyIsHonest /\ CloseReportsRelease /\ PhaseIsHonest

\* start and close always settle, whichever listener fails to bind, whatever
\* they race and however many handlers never answer.
PromisesSettle ==
    /\ startTask.at # "none" ~> startTask.at \in {"returned", "rejected"}
    /\ closeTask.at # "none" ~> closeTask.at \in {"resolved", "rejected"}
=============================================================================
