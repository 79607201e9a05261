------------------------- MODULE PublicBindingRuntime -------------------------
(***************************************************************************)
(* composePublicRuntime of src/src/staging-public-case-binding-runtime.ts: *)
(* the probe is bound first, the projector hydrates, the public listener   *)
(* is bound, and a timer pulls the outbox until close.  The two listeners  *)
(* are those of RuntimeLifecycle, the projector and its pulls those of     *)
(* BindingReplay.                                                          *)
(*                                                                         *)
(* start and close are promises that run to their next await, the timer's  *)
(* callback is a third one; any of them may be between two awaits when     *)
(* another one runs.                                                       *)
(***************************************************************************)
EXTENDS RuntimeLifecycle, BindingReplay

ASSUME ChildrenAssumption == Listeners = {"probe", "public"}

VARIABLES
    runtimePhase,      \* phase of health()
    outboxAvailable,
    closingRequested,
    startAt,           \* where startPromise is
    closeAt,           \* where closePromise is
    timer,             \* the reconcile timer is armed
    reconciling,       \* reconcilePromise is not null
    publicLifecycle    \* the public child exists

runtime == <<runtimePhase, outboxAvailable, closingRequested, startAt, closeAt, timer,
             reconciling, publicLifecycle>>
vars == <<lifecycle, runtime, replay>>

Init ==
    /\ RInit
    /\ BInit
    /\ runtimePhase = "new"
    /\ outboxAvailable = FALSE
    /\ closingRequested = FALSE
    /\ startAt = "none" /\ closeAt = "none"
    /\ timer = FALSE /\ reconciling = FALSE
    /\ publicLifecycle = FALSE

\* What /livez and /readyz answer.  The probe takes a phase and a ready flag
\* that contradict each other for a broken runtime.
HealthReady == runtimePhase = "ready" /\ outboxAvailable
HealthSnapshotValid == HealthReady = (runtimePhase = "ready")
Live == HealthSnapshotValid /\ runtimePhase \notin {"failed", "stopped"}

-----------------------------------------------------------------------------
\* start: phase starting, and the probe's bind before any outbox I/O.
RuntimeStart ==
    /\ startAt = "none" /\ runtimePhase = "new"
    /\ runtimePhase' = "starting"
    /\ startAt' = "probe"
    /\ Start("probe")
    /\ UNCHANGED <<outboxAvailable, closingRequested, closeAt, timer, reconciling,
                   publicLifecycle, replay>>

\* The catch block of start, up to stopChildren.
StartFails ==
    /\ outboxAvailable' = FALSE
    /\ runtimePhase' = IF closingRequested THEN runtimePhase ELSE "failed"
    /\ timer' = FALSE
    /\ startAt' = "stopPublic"
    /\ UNCHANGED <<closingRequested, closeAt, reconciling, publicLifecycle>>

\* The projector is created with a first reconcile.
ProbeStarted ==
    /\ startAt = "probe" /\ Settled("probe")
    /\ UNCHANGED lifecycle
    /\ \/ /\ startState["probe"] = "resolved"
          /\ startAt' = "hydrate" /\ Reconcile
          /\ UNCHANGED <<runtimePhase, outboxAvailable, closingRequested, closeAt, timer,
                         reconciling, publicLifecycle>>
       \/ /\ startState["probe"] = "rejected"
          /\ StartFails /\ UNCHANGED replay

\* A pull fails when its reply is refused or does not come, or when close has
\* aborted it.
Aborted == closingRequested /\ op.at = "awaiting" /\ Fail
PullFails == Unavailable \/ ReceiveRefused(reply) \/ Aborted

\* A page came, and the pull asks for the next one.
PullGoesOn ==
    /\ ReceivePage(reply)
    /\ UNCHANGED <<lifecycle, runtime>>

HydrationFails ==
    /\ startAt = "hydrate" /\ PullFails
    /\ UNCHANGED lifecycle
    /\ StartFails

\* Hydrated: unless a close came, the public child is created and bound.
Hydrated ==
    /\ startAt = "hydrate" /\ ReceiveLastPage(reply)
    /\ \/ /\ closingRequested
          /\ startAt' = "resolved"
          /\ UNCHANGED <<lifecycle, publicLifecycle>>
       \/ /\ ~closingRequested
          /\ publicLifecycle' = TRUE
          /\ startAt' = "public"
          /\ Start("public")
    /\ UNCHANGED <<runtimePhase, outboxAvailable, closingRequested, closeAt, timer, reconciling>>

\* The end of start: ready, and the first pull is scheduled, unless a close came.
BecomeReady ==
    /\ startAt' = "resolved"
    /\ \/ /\ closingRequested
          /\ UNCHANGED <<runtimePhase, outboxAvailable, timer>>
       \/ /\ ~closingRequested
          /\ runtimePhase' = "ready" /\ outboxAvailable' = TRUE /\ timer' = TRUE

PublicStarted ==
    /\ startAt = "public" /\ Settled("public")
    /\ UNCHANGED <<lifecycle, replay>>
    /\ \/ /\ startState["public"] = "resolved"
          /\ BecomeReady
          /\ UNCHANGED <<closingRequested, closeAt, reconciling, publicLifecycle>>
       \/ /\ startState["public"] = "rejected"
          /\ StartFails

-----------------------------------------------------------------------------
\* stopChildren awaits the public child, if there is one, and then the probe.
StopPublic(at, next, here, then) ==
    /\ at = here
    /\ \/ /\ publicLifecycle /\ closeState["public"] = "none"
          /\ Close("public") /\ next = at
       \/ /\ ~publicLifecycle \/ closeState["public"] = "done"
          /\ next = then /\ UNCHANGED lifecycle

StopProbe(at, next, after) ==
    /\ at = "stopProbe"
    /\ \/ /\ closeState["probe"] = "none"
          /\ Close("probe") /\ next = at
       \/ /\ closeState["probe"] = "done"
          /\ next = after /\ UNCHANGED lifecycle

StartStopsChildren ==
    /\ StopPublic(startAt, startAt', "stopPublic", "stopProbe") \/ StopProbe(startAt, startAt', "failed")
    /\ UNCHANGED <<runtimePhase, outboxAvailable, closingRequested, closeAt, timer,
                   reconciling, publicLifecycle, replay>>

\* A start that a close cut short resolves, any other one rejects.
StartSettles ==
    /\ startAt = "failed"
    /\ startAt' = IF closingRequested THEN "resolved" ELSE "rejected"
    /\ runtimePhase' = IF closingRequested THEN "stopped" ELSE runtimePhase
    /\ UNCHANGED <<lifecycle, outboxAvailable, closingRequested, closeAt, timer, reconciling,
                   publicLifecycle, replay>>

-----------------------------------------------------------------------------
\* The timer's callback begins a pull.
TimerFires ==
    /\ timer /\ timer' = FALSE
    /\ reconciling' = TRUE /\ Reconcile
    /\ UNCHANGED <<lifecycle, runtimePhase, outboxAvailable, closingRequested, startAt, closeAt,
                   publicLifecycle>>

Serving == ~closingRequested /\ runtimePhase \in {"ready", "degraded"}

\* Mutant: an outage is final.
SetHealthDegradesForGood(ok) ==
    IF Serving
    THEN /\ outboxAvailable' = ok
         /\ runtimePhase' = (IF ok THEN runtimePhase ELSE "degraded")
    ELSE UNCHANGED <<outboxAvailable, runtimePhase>>

\* A pull's outcome is the phase, unless the runtime closes.
SetHealth(ok) ==
    IF Serving
    THEN outboxAvailable' = ok /\ runtimePhase' = (IF ok THEN "ready" ELSE "degraded")
    ELSE UNCHANGED <<outboxAvailable, runtimePhase>>

\* scheduleReconcile in the finally block.
ScheduleReconcile == timer' = (timer \/ Serving)

PullEnds ==
    /\ reconciling
    /\ \E ok \in BOOLEAN :
         /\ IF ok THEN ReceiveLastPage(reply) ELSE PullFails
         /\ SetHealth(ok)
         /\ ScheduleReconcile
    /\ reconciling' = FALSE
    /\ UNCHANGED <<lifecycle, closingRequested, startAt, closeAt, publicLifecycle>>

-----------------------------------------------------------------------------
\* close: no more pulls, the current one aborted, then everything awaited.
RuntimeClose ==
    /\ closeAt = "none"
    /\ closingRequested' = TRUE
    /\ timer' = FALSE
    /\ runtimePhase' = IF runtimePhase \in {"new", "starting", "ready", "degraded"}
                       THEN "draining" ELSE runtimePhase
    /\ closeAt' = "stopPublic"
    /\ UNCHANGED <<lifecycle, outboxAvailable, startAt, reconciling, publicLifecycle, replay>>

CloseStopsChildren ==
    /\ StopPublic(closeAt, closeAt', "stopPublic", "stopProbe") \/ StopProbe(closeAt, closeAt', "awaitStart")
    /\ UNCHANGED <<runtimePhase, outboxAvailable, closingRequested, startAt, timer,
                   reconciling, publicLifecycle, replay>>

StartSettled == startAt \in {"none", "resolved", "rejected"}

\* Mutant: close does not wait for the pull.
CloseForgetsPull ==
    /\ closeAt = "awaitStart" /\ StartSettled
    /\ closeAt' = "stopAgain"
    /\ UNCHANGED <<lifecycle, runtimePhase, outboxAvailable, closingRequested, startAt, timer,
                   reconciling, publicLifecycle, replay>>

\* What start and the pull have begun ends before close goes on.
CloseAwaits ==
    /\ closeAt = "awaitStart" /\ StartSettled /\ ~reconciling
    /\ closeAt' = "stopAgain"
    /\ UNCHANGED <<lifecycle, runtimePhase, outboxAvailable, closingRequested, startAt, timer,
                   reconciling, publicLifecycle, replay>>

\* The second stopChildren, for a child that start made meanwhile; the probe is
\* closed already.
CloseStopsAgain ==
    /\ StopPublic(closeAt, closeAt', "stopAgain", "closed")
    /\ UNCHANGED <<runtimePhase, outboxAvailable, closingRequested, startAt, timer,
                   reconciling, publicLifecycle, replay>>

CloseSettles ==
    /\ closeAt = "closed"
    /\ closeAt' = "resolved"
    /\ runtimePhase' = "stopped" /\ outboxAvailable' = FALSE
    /\ UNCHANGED <<lifecycle, closingRequested, startAt, timer, reconciling, publicLifecycle,
                   replay>>

\* The private outbox grows, goes away and comes back, and answers.
OutboxActs ==
    /\ \/ \E schema \in Schemas, gap \in 0..MaxGap : Commit(schema, gap)
       \/ Disturb
       \/ \E after \in {0, op.cursor} : Misdeliver(after)
    /\ UNCHANGED <<lifecycle, runtime>>
OutboxServes == Serve /\ UNCHANGED <<lifecycle, runtime>>

Continues ==
    \/ ProbeStarted \/ PullGoesOn \/ HydrationFails \/ Hydrated \/ PublicStarted \/ StartStopsChildren
    \/ StartSettles \/ TimerFires \/ PullEnds \/ CloseStopsChildren \/ CloseAwaits
    \/ CloseStopsAgain \/ CloseSettles

\* Sockets: what RuntimeLifecycle does by itself, except for foreign binds,
\* which nobody outside can do to servers that never leave the runtime.
ListenerRuns(l) == Runs(l) /\ UNCHANGED <<runtime, replay>>
Traffic(l) ==
    /\ \E r \in Requests : Accept(l, r) \/ Answer(l, r) \/ Abort(l, r)
    /\ UNCHANGED <<runtime, replay>>

Next ==
    \/ RuntimeStart \/ RuntimeClose \/ OutboxActs \/ OutboxServes
    \/ Continues
    \/ \E l \in Listeners : ListenerRuns(l) \/ Traffic(l)

Spec ==
    /\ Init /\ [][Next]_vars
    /\ WF_vars(Continues) /\ WF_vars(OutboxServes)
    /\ \A l \in Listeners : WF_vars(ListenerRuns(l))

-----------------------------------------------------------------------------
Places == {"none", "probe", "hydrate", "public", "stopPublic", "stopProbe", "failed",
           "awaitStart", "stopAgain", "closed", "resolved", "rejected"}

\* Type invariant.
TypeOK ==
    /\ RTypeOK
    /\ runtimePhase \in {"new", "starting", "ready", "degraded", "draining", "failed", "stopped"}
    /\ startAt \in Places /\ closeAt \in Places
    /\ {outboxAvailable, closingRequested, timer, reconciling, publicLifecycle} \subseteq BOOLEAN
    /\ BTypeOK

\* What health() and the probe report is so.  A runtime that reports ready or
\* degraded serves a hydrated projection, with its probe, and has exactly one
\* pull scheduled or under way; no start and no pull that ends after close was
\* called makes it ready or degraded again; and once close has resolved nothing
\* is left behind: no listener, no timer, no pull and no start that could bind.
ServingIsHonest ==
    /\ runtimePhase \in {"ready", "degraded"} =>
         /\ server["public"] = "listening" /\ server["probe"] = "listening"
         /\ hydrated /\ timer # reconciling /\ ~closingRequested
         /\ Live
    /\ closeAt = "resolved" =>
         /\ runtimePhase = "stopped" /\ ~timer /\ op = Idle /\ StartSettled
         /\ \A l \in Listeners : server[l] \notin {"listening", "closing"} /\ startState[l] # "binding"

\* Once pulls get through, a runtime that serves becomes ready by itself and
\* every receipt becomes public, as long as there are no more than the
\* projection may hold.
EventuallyPublic ==
    <>[](Serving /\ healthy /\ Len(outbox) <= MaxReceipts) =>
        /\ <>[](runtimePhase = "ready")
        /\ \A n \in 1..MaxOutbox : []<>(Len(outbox) < n \/ Len(receipts) >= n)
=============================================================================
