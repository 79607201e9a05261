------------------------- MODULE ControlRuntimeProofs -------------------------
(***************************************************************************)
(* Proofs about the control process of ControlRuntime: the listeners that  *)
(* accept requests are a prefix of the order, the case store is released   *)
(* after all of them, and what health(), start and close report is so.     *)
(*                                                                         *)
(* The argument rests on two facts about the tasks start and close: at     *)
(* most one of them is stopping children at any time, and the one that is  *)
(* at child c has every later child closed for good.                       *)
(***************************************************************************)
EXTENDS ControlRuntime, TLAPS

-----------------------------------------------------------------------------
(* One listener, in every order of start, close, bind outcomes, requests   *)
(* and timers.                                                             *)

\* Nobody has called start or close.
LEMMA ListenersAtFirst ==
    ASSUME RInit
    PROVE  RTypeOK /\ ListenersOK
<1>1. RTypeOK
  BY DEF RInit, RTypeOK
<1>2. ListenersOK
  BY DEF RInit, ListenersOK, ListenerOK
<1> QED BY <1>1, <1>2

\* The event loop and the outside keep a listener's phase honest.
LEMMA RunsKeepListeners ==
    ASSUME RTypeOK, ListenersOK, NEW l \in Listeners, Runs(l) \/ Outside(l)
    PROVE  RTypeOK' /\ ListenersOK' /\ Quiet
<1> USE DEF RTypeOK, ListenersOK, ListenerOK, Quiet
<1>1. CASE Listening(l)
  BY <1>1 DEF Listening, SetServer, SetStart, SetPhase, ClosingRequested
<1>2. CASE \E s \in {"unbound", "closing"} : FailBind(l, s)
  BY <1>2 DEF FailBind, SetServer, SetStart, SetPhase
<1>3. CASE StopUnexpectedListener(l)
  BY <1>3 DEF StopUnexpectedListener, SetServer, SetStart, InvokeRelease
<1>4. CASE CloseAfterStart(l)
  BY <1>4 DEF CloseAfterStart, Settled, FinishClose, BeginDrain, SetServer, SetPhase,
              SetClose, InvokeRelease
<1>5. CASE Drained(l) \/ CloseForced(l)
  BY <1>5 DEF Drained, CloseForced, FinishClose, SetServer, SetPhase, SetClose, InvokeRelease
<1>6. CASE DrainTimeout(l)
  BY <1>6 DEF DrainTimeout, SetClose
<1>7. CASE Outside(l)
  BY <1>7 DEF Outside, Accept, Answer, Abort, BindElsewhere, SetServer
<1> QED BY <1>1, <1>2, <1>3, <1>4, <1>5, <1>6, <1>7 DEF Runs, BindSettles

\* A child's start keeps every phase honest and touches no other child.
LEMMA StartKeepsListeners ==
    ASSUME RTypeOK, ListenersOK, NEW l \in Listeners, Start(l) \/ StartOnBoundServer(l)
    PROVE  /\ RTypeOK' /\ ListenersOK'
           /\ phase[l] = "new" /\ closeState' = closeState
           /\ \A m \in Listeners \ {l} :
                 phase'[m] = phase[m] /\ startState'[m] = startState[m]
<1> USE DEF RTypeOK, ListenersOK, ListenerOK, SetServer, SetStart, SetPhase
<1>1. CASE Start(l) BY <1>1 DEF Start
<1>2. CASE StartOnBoundServer(l) BY <1>2 DEF StartOnBoundServer
<1> QED BY <1>1, <1>2

\* So does a child's close, and a closed child stays closed.
LEMMA CloseKeepsListeners ==
    ASSUME RTypeOK, ListenersOK, NEW l \in Listeners, Close(l)
    PROVE  /\ RTypeOK' /\ ListenersOK'
           /\ startState' = startState
           /\ \A m \in Listeners \ {l} :
                 phase'[m] = phase[m] /\ closeState'[m] = closeState[m]
           /\ \A m \in Listeners : closeState[m] = "done" => closeState'[m] = "done"
BY DEF RTypeOK, ListenersOK, ListenerOK, Close, Settled, FinishClose, BeginDrain,
       SetServer, SetPhase, SetClose, InvokeRelease

\* An unchanged listener state is a quiet step.
LEMMA UnchangedIsQuiet ==
    ASSUME RTypeOK, ListenersOK, UNCHANGED lifecycle
    PROVE  RTypeOK' /\ ListenersOK' /\ Quiet
BY DEF lifecycle, RTypeOK, ListenersOK, ListenerOK, Quiet

\* start after close leaves the phase alone.
LEMMA StartStoppedKeepsListeners ==
    ASSUME RTypeOK, ListenersOK, NEW l \in Listeners, StartStopped(l)
    PROVE  RTypeOK' /\ ListenersOK'
BY DEF StartStopped, SetStart, RTypeOK, ListenersOK, ListenerOK

-----------------------------------------------------------------------------
\* However start, close, binds, requests and timers interleave: a listener
\* that reports stopped accepts nothing and has released what it held, and one
\* that reports ready accepts requests.
THEOREM PhasesAreHonest == RSpec => []PhaseIsHonest
<1>1. RInit => RInv
  BY ListenersAtFirst DEF RInv
<1>2. RInv /\ [RNext]_lifecycle => RInv'
  <2> SUFFICES ASSUME RInv, [RNext]_lifecycle PROVE RInv'
    OBVIOUS
  <2> USE DEF RInv
  <2>1. CASE UNCHANGED lifecycle BY <2>1, UnchangedIsQuiet
  <2>2. ASSUME NEW l \in Listeners, Start(l) \/ StartOnBoundServer(l) PROVE RInv'
    BY <2>2, StartKeepsListeners
  <2>3. ASSUME NEW l \in Listeners, StartStopped(l) PROVE RInv'
    BY <2>3, StartStoppedKeepsListeners
  <2>4. ASSUME NEW l \in Listeners, Close(l) PROVE RInv'
    BY <2>4, CloseKeepsListeners
  <2>5. ASSUME NEW l \in Listeners, Runs(l) \/ Outside(l) PROVE RInv'
    BY <2>5, RunsKeepListeners
  <2> QED BY <2>1, <2>2, <2>3, <2>4, <2>5 DEF RNext
<1>3. RInv => PhaseIsHonest
  BY DEF RInv, ListenersOK, ListenerOK, PhaseIsHonest
<1> QED BY <1>1, <1>2, <1>3, PTL DEF RSpec

-----------------------------------------------------------------------------

\* start or close has begun to stop children.
StartStops == startTask.at \in {"stopping", "releasing", "rejected"}
CloseStops == closeTask.at \in {"stopping", "releasing", "resolved", "rejected"}

\* The places each task can be at.
TasksOK ==
    /\ startTask.at # "awaitStart"
    /\ startTask.at = "binding" => startTask.child # 0
    /\ closeTask.at \notin {"binding", "returned"}
    /\ closingRequested <=> closeTask.at # "none"

\* close stops children only when start will not, and before either does no
\* child has been asked to close.
OneStopper ==
    /\ CloseStops => StartSettled
    /\ ~StartStops /\ ~CloseStops => \A l \in Listeners : closeState[l] = "none"

\* A task that stops child c has closed every later one.
LaterAreClosed ==
    /\ startTask.at = "stopping" =>
         \A j \in 1..Last : startTask.child < j => closeState[Order[j]] = "done"
    /\ closeTask.at = "stopping" =>
         \A j \in 1..Last : closeTask.child < j => closeState[Order[j]] = "done"

\* While a child has been started and is not closed, every earlier one is ready.
EarlierAreReady ==
    \A i, j \in 1..Last :
        i < j /\ startState[Order[j]] # "none" /\ closeState[Order[j]] # "done"
            => phase[Order[i]] = "ready"

\* How the tasks, the release promise and the store go together.
ReleaseOK ==
    /\ ReleaseAfterListeners
    /\ closeTask.at = "releasing" => releasePromise # "none"
    /\ closeTask.at \in {"resolved", "rejected"} => releasePromise = closeTask.at
    /\ releasePromise \in {"none", "pending"} => durable = "open"
    /\ releasePromise = "resolved" => durable \in {"closed", "sealed"}
    /\ releasePromise = "rejected" => durable \in {"open", "unsealed"}
    /\ durable = "sealed" => readyForSeal

\* A process that reports ready is past its start and not yet in its close.
ReadyOK ==
    /\ processPhase = "ready" =>
         /\ AllReady /\ wasReady
         /\ closeTask.at = "none" /\ startTask.at \in {"resolved", "returned"}
    /\ mode = "recovery" /\ readyForSeal => wasReady

IInv ==
    /\ TypeOK
    /\ ListenersOK
    /\ TasksOK
    /\ OneStopper
    /\ LaterAreClosed
    /\ EarlierAreReady
    /\ ReleaseOK
    /\ ReadyOK

-----------------------------------------------------------------------------
\* The order names every listener, each once.
LEMMA OrderFacts ==
    /\ Last \in Nat /\ Last # 0
    /\ \A i \in 1..Last : Order[i] \in Listeners
    /\ \A l \in Listeners : \E i \in 1..Last : Order[i] = l
    /\ \A i, j \in 1..Last : Order[i] = Order[j] => i = j
BY OrderAssumption DEF Last

\* When a task has stopped the first child too, all are closed.
LEMMA StoppedAreClosed ==
    ASSUME LaterAreClosed,
           startTask = At("stopping", 0) \/ closeTask = At("stopping", 0)
    PROVE  \A l \in Listeners : closeState[l] = "done"
<1>1. \A j \in 1..Last : closeState[Order[j]] = "done"
  BY OrderFacts DEF LaterAreClosed, At
<1> QED BY <1>1, OrderFacts

\* The order of the children survives a quiet step.
LEMMA QuietKeepsOrder ==
    ASSUME EarlierAreReady, Quiet
    PROVE  EarlierAreReady'
BY OrderFacts DEF EarlierAreReady, Quiet, Last

\* It survives the close of a child whose later siblings are closed.
LEMMA ClosingKeepsOrder ==
    ASSUME RTypeOK, ListenersOK, EarlierAreReady, NEW c \in 1..Last, Close(Order[c]),
           \A j \in 1..Last : c < j => closeState[Order[j]] = "done"
    PROVE  EarlierAreReady'
<1>1. /\ startState' = startState
      /\ \A m \in Listeners \ {Order[c]} : phase'[m] = phase[m]
      /\ \A m \in Listeners : closeState[m] = "done" => closeState'[m] = "done"
  BY OrderFacts, CloseKeepsListeners
<1>2. SUFFICES ASSUME NEW i \in 1..Last, NEW j \in 1..Last, i < j,
                      startState'[Order[j]] # "none", closeState'[Order[j]] # "done"
               PROVE  phase'[Order[i]] = "ready"
  BY DEF EarlierAreReady, Last
<1>3. closeState[Order[j]] # "done"
  BY <1>1, <1>2, OrderFacts
<1>4. phase[Order[i]] = "ready"
  BY <1>1, <1>2, <1>3 DEF EarlierAreReady
<1>5. i # c
  BY <1>2, <1>3
<1> QED BY <1>1, <1>4, <1>5, OrderFacts

\* So does the start of a child when every earlier one is ready.
LEMMA StartingKeepsOrder ==
    ASSUME RTypeOK, ListenersOK, EarlierAreReady, NEW c \in 1..Last,
           Start(Order[c]) \/ StartOnBoundServer(Order[c]),
           \A i \in 1..Last : i < c => phase[Order[i]] = "ready"
    PROVE  EarlierAreReady'
<1>1. /\ phase[Order[c]] = "new" /\ closeState' = closeState
      /\ \A m \in Listeners \ {Order[c]} :
            phase'[m] = phase[m] /\ startState'[m] = startState[m]
  BY OrderFacts, StartKeepsListeners
<1>2. SUFFICES ASSUME NEW i \in 1..Last, NEW j \in 1..Last, i < j,
                      startState'[Order[j]] # "none", closeState'[Order[j]] # "done"
               PROVE  phase'[Order[i]] = "ready"
  BY DEF EarlierAreReady, Last
<1>3. phase[Order[i]] = "ready"
  <2>1. CASE j = c BY <2>1, <1>2
  <2>2. CASE j # c
    <3>1. startState[Order[j]] # "none" /\ closeState[Order[j]] # "done"
      BY <1>1, <1>2, <2>2, OrderFacts
    <3> QED BY <3>1, <1>2 DEF EarlierAreReady
  <2> QED BY <2>1, <2>2
<1>4. Order[i] # Order[c]
  BY <1>1, <1>3
<1> QED BY <1>1, <1>3, <1>4, OrderFacts

\* start after close has finished only resolves.
LEMMA ProcessStartStoppedStep ==
    ASSUME IInv, ProcessStartStopped
    PROVE  IInv'
<1> USE OrderFacts DEF ProcessStartStopped, At, StoreUnchanged
<1>1. RTypeOK' /\ ListenersOK' /\ Quiet
  BY UnchangedIsQuiet DEF IInv, TypeOK
<1>2. EarlierAreReady'
  BY <1>1, QuietKeepsOrder DEF IInv
<1>3. TypeOK'
  BY <1>1 DEF IInv, TypeOK, TaskPlaces, Last
<1>4. TasksOK'
  BY <1>1 DEF IInv, TasksOK, TypeOK
<1>5. OneStopper'
  BY <1>1 DEF IInv, OneStopper, TasksOK, StartStops, CloseStops, StartSettled, Quiet
<1>6. LaterAreClosed'
  BY <1>1 DEF IInv, LaterAreClosed, OneStopper, StartStops, CloseStops, StartSettled, Quiet, Last
<1>7. ReleaseOK'
  BY <1>1 DEF IInv, ReleaseOK, ReleaseAfterListeners, TypeOK, TasksOK, Quiet
<1>8. ReadyOK'
  BY <1>1 DEF IInv, ReadyOK, AllReady, TasksOK, TypeOK, OneStopper, StartStops, CloseStops, Quiet
<1> QED BY <1>1, <1>2, <1>3, <1>4, <1>5, <1>6, <1>7, <1>8 DEF IInv

\* close asks, and waits for a start that is under way.
LEMMA ProcessCloseStep ==
    ASSUME IInv, ProcessClose
    PROVE  IInv'
<1> USE OrderFacts DEF ProcessClose, At, StoreUnchanged
<1>1. RTypeOK' /\ ListenersOK' /\ Quiet
  BY UnchangedIsQuiet DEF IInv, TypeOK
<1>2. EarlierAreReady'
  BY <1>1, QuietKeepsOrder DEF IInv
<1>3. TypeOK'
  BY <1>1 DEF IInv, TypeOK, TaskPlaces, Last
<1>4. TasksOK'
  BY <1>1 DEF IInv, TasksOK, TypeOK
<1>5. OneStopper'
  BY <1>1 DEF IInv, OneStopper, TasksOK, StartStops, CloseStops, StartSettled, Quiet
<1>6. LaterAreClosed'
  BY <1>1 DEF IInv, LaterAreClosed, OneStopper, StartStops, CloseStops, StartSettled, Quiet, Last
<1>7. ReleaseOK'
  BY <1>1 DEF IInv, ReleaseOK, ReleaseAfterListeners, TypeOK, TasksOK, Quiet
<1>8. ReadyOK'
  BY <1>1 DEF IInv, ReadyOK, AllReady, TasksOK, TypeOK, OneStopper, StartStops, CloseStops, Quiet
<1> QED BY <1>1, <1>2, <1>3, <1>4, <1>5, <1>6, <1>7, <1>8 DEF IInv

\* The evidence's age touches nothing else.
LEMMA ExpireStep ==
    ASSUME IInv, Expire
    PROVE  IInv'
<1> USE OrderFacts DEF Expire, At, StoreUnchanged
<1>1. RTypeOK' /\ ListenersOK' /\ Quiet
  BY UnchangedIsQuiet DEF IInv, TypeOK
<1>2. EarlierAreReady'
  BY <1>1, QuietKeepsOrder DEF IInv
<1>3. TypeOK'
  BY <1>1 DEF IInv, TypeOK, TaskPlaces, Last
<1>4. TasksOK'
  BY <1>1 DEF IInv, TasksOK, TypeOK
<1>5. OneStopper'
  BY <1>1 DEF IInv, OneStopper, TasksOK, StartStops, CloseStops, StartSettled, Quiet
<1>6. LaterAreClosed'
  BY <1>1 DEF IInv, LaterAreClosed, OneStopper, StartStops, CloseStops, StartSettled, Quiet, Last
<1>7. ReleaseOK'
  BY <1>1 DEF IInv, ReleaseOK, ReleaseAfterListeners, TypeOK, TasksOK, Quiet
<1>8. ReadyOK'
  BY <1>1 DEF IInv, ReadyOK, AllReady, TasksOK, TypeOK, OneStopper, StartStops, CloseStops, Quiet
<1> QED BY <1>1, <1>2, <1>3, <1>4, <1>5, <1>6, <1>7, <1>8 DEF IInv

\* A failed child hands start over to its rollback.
LEMMA ChildFailedStep ==
    ASSUME IInv, ChildFailed
    PROVE  IInv'
<1> USE OrderFacts DEF ChildFailed, Settled, At, StoreUnchanged
<1>1. RTypeOK' /\ ListenersOK' /\ Quiet
  BY UnchangedIsQuiet DEF IInv, TypeOK
<1>2. EarlierAreReady'
  BY <1>1, QuietKeepsOrder DEF IInv
<1>3. TypeOK'
  BY <1>1 DEF IInv, TypeOK, TaskPlaces, Last
<1>4. TasksOK'
  BY <1>1 DEF IInv, TasksOK, TypeOK
<1>5. OneStopper'
  BY <1>1 DEF IInv, OneStopper, TasksOK, StartStops, CloseStops, StartSettled, Quiet
<1>6. LaterAreClosed'
  BY <1>1 DEF IInv, LaterAreClosed, OneStopper, StartStops, CloseStops, StartSettled, Quiet, Last
<1>7. ReleaseOK'
  BY <1>1 DEF IInv, ReleaseOK, ReleaseAfterListeners, TypeOK, TasksOK, Quiet
<1>8. ReadyOK'
  BY <1>1 DEF IInv, ReadyOK, AllReady, TasksOK, TypeOK, OneStopper, StartStops, CloseStops, Quiet
<1> QED BY <1>1, <1>2, <1>3, <1>4, <1>5, <1>6, <1>7, <1>8 DEF IInv

\* The wrapper unlocks the seal only for a process that is ready.
LEMMA StartReturnsStep ==
    ASSUME IInv, StartReturns
    PROVE  IInv'
<1> USE OrderFacts DEF StartReturns, At, StoreUnchanged
<1>1. RTypeOK' /\ ListenersOK' /\ Quiet
  BY UnchangedIsQuiet DEF IInv, TypeOK
<1>2. EarlierAreReady'
  BY <1>1, QuietKeepsOrder DEF IInv
<1>3. TypeOK'
  BY <1>1 DEF IInv, TypeOK, TaskPlaces, Last
<1>4. TasksOK'
  BY <1>1 DEF IInv, TasksOK, TypeOK
<1>5. OneStopper'
  BY <1>1 DEF IInv, OneStopper, TasksOK, StartStops, CloseStops, StartSettled, Quiet
<1>6. LaterAreClosed'
  BY <1>1 DEF IInv, LaterAreClosed, OneStopper, StartStops, CloseStops, StartSettled, Quiet, Last
<1>7. ReleaseOK'
  BY <1>1 DEF IInv, ReleaseOK, ReleaseAfterListeners, TypeOK, TasksOK, Quiet
<1>8. ReadyOK'
  BY <1>1 DEF IInv, ReadyOK, AllReady, TasksOK, TypeOK, OneStopper, StartStops, CloseStops, Quiet
<1> QED BY <1>1, <1>2, <1>3, <1>4, <1>5, <1>6, <1>7, <1>8 DEF IInv

\* start releases the store when every child is closed.
LEMMA StartReleasesStep ==
    ASSUME IInv, StartReleases
    PROVE  IInv'
<1> USE OrderFacts DEF StartReleases, InvokeProcessRelease, At, StoreUnchanged
<1>1. RTypeOK' /\ ListenersOK' /\ Quiet
  BY UnchangedIsQuiet DEF IInv, TypeOK
<1>2. EarlierAreReady'
  BY <1>1, QuietKeepsOrder DEF IInv
<1>3. TypeOK'
  BY <1>1 DEF IInv, TypeOK, TaskPlaces, Last
<1>4. TasksOK'
  BY <1>1 DEF IInv, TasksOK, TypeOK
<1>5. OneStopper'
  BY <1>1 DEF IInv, OneStopper, TasksOK, StartStops, CloseStops, StartSettled, Quiet
<1>6. LaterAreClosed'
  BY <1>1 DEF IInv, LaterAreClosed, OneStopper, StartStops, CloseStops, StartSettled, Quiet, Last
<1>7. ReleaseOK'
  BY <1>1, StoppedAreClosed DEF IInv, ReleaseOK, ReleaseAfterListeners, TypeOK, TasksOK, Quiet
<1>8. ReadyOK'
  BY <1>1 DEF IInv, ReadyOK, AllReady, TasksOK, TypeOK, OneStopper, StartStops, CloseStops, Quiet
<1> QED BY <1>1, <1>2, <1>3, <1>4, <1>5, <1>6, <1>7, <1>8 DEF IInv

\* start rejects when the release has settled.
LEMMA StartRejectsStep ==
    ASSUME IInv, StartRejects
    PROVE  IInv'
<1> USE OrderFacts DEF StartRejects, At, StoreUnchanged
<1>1. RTypeOK' /\ ListenersOK' /\ Quiet
  BY UnchangedIsQuiet DEF IInv, TypeOK
<1>2. EarlierAreReady'
  BY <1>1, QuietKeepsOrder DEF IInv
<1>3. TypeOK'
  BY <1>1 DEF IInv, TypeOK, TaskPlaces, Last
<1>4. TasksOK'
  BY <1>1 DEF IInv, TasksOK, TypeOK
<1>5. OneStopper'
  BY <1>1 DEF IInv, OneStopper, TasksOK, StartStops, CloseStops, StartSettled, Quiet
<1>6. LaterAreClosed'
  BY <1>1 DEF IInv, LaterAreClosed, OneStopper, StartStops, CloseStops, StartSettled, Quiet, Last
<1>7. ReleaseOK'
  BY <1>1 DEF IInv, ReleaseOK, ReleaseAfterListeners, TypeOK, TasksOK, Quiet
<1>8. ReadyOK'
  BY <1>1 DEF IInv, ReadyOK, AllReady, TasksOK, TypeOK, OneStopper, StartStops, CloseStops, Quiet
<1> QED BY <1>1, <1>2, <1>3, <1>4, <1>5, <1>6, <1>7, <1>8 DEF IInv

\* close goes on once start has settled.
LEMMA CloseResumesStep ==
    ASSUME IInv, CloseResumes
    PROVE  IInv'
<1> USE OrderFacts DEF CloseResumes, StartSettled, At, StoreUnchanged
<1>1. RTypeOK' /\ ListenersOK' /\ Quiet
  BY UnchangedIsQuiet DEF IInv, TypeOK
<1>2. EarlierAreReady'
  BY <1>1, QuietKeepsOrder DEF IInv
<1>3. TypeOK'
  BY <1>1 DEF IInv, TypeOK, TaskPlaces, Last
<1>4. TasksOK'
  BY <1>1 DEF IInv, TasksOK, TypeOK
<1>5. OneStopper'
  BY <1>1 DEF IInv, OneStopper, TasksOK, StartStops, CloseStops, StartSettled, Quiet
<1>6. LaterAreClosed'
  BY <1>1 DEF IInv, LaterAreClosed, OneStopper, StartStops, CloseStops, StartSettled, Quiet, Last
<1>7. ReleaseOK'
  BY <1>1 DEF IInv, ReleaseOK, ReleaseAfterListeners, TypeOK, TasksOK, Quiet
<1>8. ReadyOK'
  BY <1>1 DEF IInv, ReadyOK, AllReady, TasksOK, TypeOK, OneStopper, StartStops, CloseStops, Quiet
<1> QED BY <1>1, <1>2, <1>3, <1>4, <1>5, <1>6, <1>7, <1>8 DEF IInv

\* close releases the store when every child is closed.
LEMMA CloseReleasesStep ==
    ASSUME IInv, CloseReleases
    PROVE  IInv'
<1> USE OrderFacts DEF CloseReleases, InvokeProcessRelease, At, StoreUnchanged
<1>1. RTypeOK' /\ ListenersOK' /\ Quiet
  BY UnchangedIsQuiet DEF IInv, TypeOK
<1>2. EarlierAreReady'
  BY <1>1, QuietKeepsOrder DEF IInv
<1>3. TypeOK'
  BY <1>1 DEF IInv, TypeOK, TaskPlaces, Last
<1>4. TasksOK'
  BY <1>1 DEF IInv, TasksOK, TypeOK
<1>5. OneStopper'
  BY <1>1 DEF IInv, OneStopper, TasksOK, StartStops, CloseStops, StartSettled, Quiet
<1>6. LaterAreClosed'
  BY <1>1 DEF IInv, LaterAreClosed, OneStopper, StartStops, CloseStops, StartSettled, Quiet, Last
<1>7. ReleaseOK'
  BY <1>1, StoppedAreClosed DEF IInv, ReleaseOK, ReleaseAfterListeners, TypeOK, TasksOK, Quiet
<1>8. ReadyOK'
  BY <1>1 DEF IInv, ReadyOK, AllReady, TasksOK, TypeOK, OneStopper, StartStops, CloseStops, Quiet
<1> QED BY <1>1, <1>2, <1>3, <1>4, <1>5, <1>6, <1>7, <1>8 DEF IInv

\* close reports what the release did.
LEMMA CloseSettlesStep ==
    ASSUME IInv, CloseSettles
    PROVE  IInv'
<1> USE OrderFacts DEF CloseSettles, At, StoreUnchanged
<1>1. RTypeOK' /\ ListenersOK' /\ Quiet
  BY UnchangedIsQuiet DEF IInv, TypeOK
<1>2. EarlierAreReady'
  BY <1>1, QuietKeepsOrder DEF IInv
<1>3. TypeOK'
  BY <1>1 DEF IInv, TypeOK, TaskPlaces, Last
<1>4. TasksOK'
  BY <1>1 DEF IInv, TasksOK, TypeOK
<1>5. OneStopper'
  BY <1>1 DEF IInv, OneStopper, TasksOK, StartStops, CloseStops, StartSettled, Quiet
<1>6. LaterAreClosed'
  BY <1>1 DEF IInv, LaterAreClosed, OneStopper, StartStops, CloseStops, StartSettled, Quiet, Last
<1>7. ReleaseOK'
  BY <1>1 DEF IInv, ReleaseOK, ReleaseAfterListeners, TypeOK, TasksOK, Quiet
<1>8. ReadyOK'
  BY <1>1 DEF IInv, ReadyOK, AllReady, TasksOK, TypeOK, OneStopper, StartStops, CloseStops, Quiet
<1> QED BY <1>1, <1>2, <1>3, <1>4, <1>5, <1>6, <1>7, <1>8 DEF IInv

\* The release callback closes or seals the store, or throws.
LEMMA ReleaseStep ==
    ASSUME IInv, Release
    PROVE  IInv'
<1> USE OrderFacts
    DEF Release, ReleaseSeals, ReleaseCloses, ReleaseThrows, ReleaseResult, SealsOnRelease, At, StoreUnchanged
<1>1. RTypeOK' /\ ListenersOK' /\ Quiet
  BY UnchangedIsQuiet DEF IInv, TypeOK
<1>2. EarlierAreReady'
  BY <1>1, QuietKeepsOrder DEF IInv
<1>3. TypeOK'
  BY <1>1 DEF IInv, TypeOK, TaskPlaces, Last
<1>4. TasksOK'
  BY <1>1 DEF IInv, TasksOK, TypeOK
<1>5. OneStopper'
  BY <1>1 DEF IInv, OneStopper, TasksOK, StartStops, CloseStops, StartSettled, Quiet
<1>6. LaterAreClosed'
  BY <1>1 DEF IInv, LaterAreClosed, OneStopper, StartStops, CloseStops, StartSettled, Quiet, Last
<1>7. ReleaseOK'
  BY <1>1 DEF IInv, ReleaseOK, ReleaseAfterListeners, TypeOK, TasksOK, Quiet
<1>8. ReadyOK'
  BY <1>1 DEF IInv, ReadyOK, AllReady, TasksOK, TypeOK, OneStopper, StartStops, CloseStops, Quiet
<1> QED BY <1>1, <1>2, <1>3, <1>4, <1>5, <1>6, <1>7, <1>8 DEF IInv

\* One turn of start's loop, at a child whose earlier siblings are all ready.
LEMMA BindChildStep ==
    ASSUME IInv, NEW c \in 1..Last, NEW current, BindChild(c, current),
           current \in {"new", "starting", "draining", "stopped", "failed"},
           startTask.at \in {"none", "binding"},
           \A i \in 1..Last : i < c => phase[Order[i]] = "ready",
           UNCHANGED <<closingRequested, closeTask, wasReady>>, StoreUnchanged
    PROVE  IInv'
<1> USE OrderFacts DEF At, StoreUnchanged
<1>1. RTypeOK' /\ ListenersOK' /\ EarlierAreReady'
  <2>1. CASE UNCHANGED lifecycle
    BY <2>1, UnchangedIsQuiet, QuietKeepsOrder DEF IInv, TypeOK
  <2>2. CASE Start(Order[c]) \/ StartOnBoundServer(Order[c])
    BY <2>2, StartKeepsListeners, StartingKeepsOrder DEF IInv, TypeOK
  <2> QED BY <2>1, <2>2 DEF BindChild
<1>2. closeState' = closeState
  <2>1. CASE UNCHANGED lifecycle
    BY <2>1 DEF lifecycle
  <2>2. CASE Start(Order[c]) \/ StartOnBoundServer(Order[c])
    BY <2>2, StartKeepsListeners DEF IInv, TypeOK
  <2> QED BY <2>1, <2>2 DEF BindChild
<1>3. /\ startTask' \in {At("resolved", 0), At("stopping", Last), At("binding", c)}
      /\ startTask'.at # "resolved" => ~closingRequested
      /\ processPhase' \in {current, "failed"}
  BY DEF BindChild
<1>4. ~closingRequested => closeTask.at = "none"
  BY DEF IInv, TasksOK
<1>5. TypeOK'
  BY <1>1, <1>3 DEF IInv, TypeOK, TaskPlaces, Last
<1>6. TasksOK'
  BY <1>3 DEF IInv, TasksOK
<1>7. OneStopper'
  BY <1>2, <1>3, <1>4 DEF IInv, OneStopper, StartStops, CloseStops, StartSettled
<1>8. LaterAreClosed'
  BY <1>2, <1>3 DEF IInv, LaterAreClosed, Last
<1>9. ReleaseOK'
  BY <1>2 DEF IInv, ReleaseOK, ReleaseAfterListeners
<1>10. ReadyOK'
  BY <1>3 DEF IInv, ReadyOK, TypeOK
<1> QED BY <1>1, <1>5, <1>6, <1>7, <1>8, <1>9, <1>10 DEF IInv

\* start's first turn: there is no earlier child.
LEMMA ProcessStartStep ==
    ASSUME IInv, ProcessStart
    PROVE  IInv'
<1>1. 1 \in 1..Last /\ \A i \in 1..Last : ~(i < 1)
  BY OrderFacts
<1> QED BY <1>1, BindChildStep DEF ProcessStart

\* A ready child lets start go on: it was started, so all before it are ready.
LEMMA ChildStartedStep ==
    ASSUME IInv, ChildStarted
    PROVE  IInv'
<1> DEFINE c == startTask.child
<1>1. c \in 1..Last /\ c + 1 \in 1..Last
  BY OrderFacts DEF ChildStarted, IInv, TasksOK, TypeOK
<1>2. startState[Order[c]] # "none" /\ closeState[Order[c]] # "done"
  BY <1>1, OrderFacts DEF ChildStarted, IInv, ListenersOK, ListenerOK
<1>3. \A i \in 1..Last : i < c + 1 => phase[Order[i]] = "ready"
  BY <1>1, <1>2, OrderFacts DEF ChildStarted, IInv, EarlierAreReady
<1>4. processPhase \in {"new", "starting", "draining", "stopped", "failed"}
  BY DEF ChildStarted, IInv, ReadyOK, TypeOK
<1> QED BY <1>1, <1>3, <1>4, BindChildStep DEF ChildStarted

\* The last child is ready, so every listener is.
LEMMA LastChildStartedStep ==
    ASSUME IInv, LastChildStarted
    PROVE  IInv'
<1> USE OrderFacts DEF LastChildStarted, At, StoreUnchanged
<1>1. RTypeOK' /\ ListenersOK' /\ Quiet
  BY UnchangedIsQuiet DEF IInv, TypeOK
<1>2. EarlierAreReady'
  BY <1>1, QuietKeepsOrder DEF IInv
<1>3. startState[Order[Last]] # "none" /\ closeState[Order[Last]] # "done"
  BY DEF IInv, ListenersOK, ListenerOK
<1>4. \A i \in 1..Last : phase[Order[i]] = "ready"
  BY <1>3 DEF IInv, EarlierAreReady
<1>5. AllReady
  BY <1>4 DEF AllReady
<1>6. TypeOK'
  BY <1>1 DEF IInv, TypeOK, TaskPlaces, Last
<1>7. TasksOK'
  BY DEF IInv, TasksOK
<1>8. OneStopper'
  BY <1>1 DEF IInv, OneStopper, StartStops, CloseStops, StartSettled, Quiet
<1>9. LaterAreClosed'
  BY <1>1 DEF IInv, LaterAreClosed, Quiet, Last
<1>10. ReleaseOK'
  BY <1>1 DEF IInv, ReleaseOK, ReleaseAfterListeners, Quiet
<1>11. ReadyOK'
  BY <1>1, <1>5 DEF IInv, ReadyOK, AllReady, TasksOK, Quiet
<1> QED BY <1>1, <1>2, <1>6, <1>7, <1>8, <1>9, <1>10, <1>11 DEF IInv

\* Stopping child c: the order holds, and it is closed before c - 1 is.
LEMMA StopChildEffect ==
    ASSUME RTypeOK, ListenersOK, EarlierAreReady, NEW task, NEW next,
           task \in [at : TaskPlaces, child : 0..Last], StopChild(task, next),
           \A j \in 1..Last : task.child < j => closeState[Order[j]] = "done"
    PROVE  /\ RTypeOK' /\ ListenersOK' /\ EarlierAreReady'
           /\ \A l \in Listeners : closeState[l] = "done" => closeState'[l] = "done"
           /\ next \in [at : {"stopping"}, child : 0..Last]
           /\ \A j \in 1..Last : next.child < j => closeState'[Order[j]] = "done"
<1> USE OrderFacts
<1> DEFINE c == task.child
<1>1. c \in 1..Last /\ task.at = "stopping"
  BY DEF StopChild
<1>2. CASE Close(Order[c]) /\ next = task
  <2>1. RTypeOK' /\ ListenersOK'
        /\ \A l \in Listeners : closeState[l] = "done" => closeState'[l] = "done"
    BY <1>1, <1>2, CloseKeepsListeners
  <2>2. EarlierAreReady'
    BY <1>1, <1>2, ClosingKeepsOrder
  <2> QED BY <1>1, <1>2, <2>1, <2>2
<1>3. CASE closeState[Order[c]] = "done" /\ next = At("stopping", c - 1) /\ UNCHANGED lifecycle
  <2>1. RTypeOK' /\ ListenersOK' /\ EarlierAreReady'
    BY <1>3, UnchangedIsQuiet, QuietKeepsOrder
  <2>2. closeState' = closeState
    BY <1>3 DEF lifecycle
  <2>3. next \in [at : {"stopping"}, child : 0..Last] /\ next.child = c - 1
    BY <1>1, <1>3 DEF At
  <2>4. ASSUME NEW j \in 1..Last, next.child < j
        PROVE  closeState[Order[j]] = "done"
    <3>1. j = c \/ c < j
      BY <1>1, <2>3, <2>4
    <3> QED BY <3>1, <1>3, <2>4
  <2> QED BY <2>1, <2>2, <2>3, <2>4
<1> QED BY <1>1, <1>2, <1>3 DEF StopChild

\* The rollback of start stops one child.
LEMMA StartStopsChildStep ==
    ASSUME IInv, StartStopsChild
    PROVE  IInv'
<1> USE OrderFacts
<1>1. PICK next : StopChild(startTask, next) /\ startTask' = next
  BY DEF StartStopsChild
<1>2. startTask.at = "stopping"
  BY <1>1 DEF StopChild
<1>3. /\ RTypeOK' /\ ListenersOK' /\ EarlierAreReady'
      /\ \A l \in Listeners : closeState[l] = "done" => closeState'[l] = "done"
      /\ next \in [at : {"stopping"}, child : 0..Last]
      /\ \A j \in 1..Last : next.child < j => closeState'[Order[j]] = "done"
  BY <1>1, <1>2, StopChildEffect DEF IInv, TypeOK, LaterAreClosed
<1>4. UNCHANGED <<processPhase, closingRequested, closeTask, wasReady>> /\ StoreUnchanged
  BY DEF StartStopsChild
<1>5. TypeOK'
  BY <1>1, <1>3, <1>4 DEF IInv, TypeOK, TaskPlaces, StoreUnchanged, Last
<1>6. TasksOK'
  BY <1>1, <1>2, <1>3, <1>4 DEF IInv, TasksOK
<1>7. OneStopper'
  BY <1>1, <1>2, <1>3, <1>4 DEF IInv, OneStopper, StartStops, CloseStops, StartSettled
<1>8. LaterAreClosed'
  BY <1>1, <1>2, <1>3, <1>4
  DEF IInv, LaterAreClosed, OneStopper, CloseStops, StartSettled, Last
<1>9. ReleaseOK'
  BY <1>1, <1>2, <1>3, <1>4 DEF IInv, ReleaseOK, ReleaseAfterListeners, StoreUnchanged
<1>10. ReadyOK'
  BY <1>2, <1>4 DEF IInv, ReadyOK, StoreUnchanged
<1> QED BY <1>3, <1>5, <1>6, <1>7, <1>8, <1>9, <1>10 DEF IInv

\* The shutdown stops one child.
LEMMA CloseStopsChildStep ==
    ASSUME IInv, CloseStopsChild
    PROVE  IInv'
<1> USE OrderFacts
<1>1. PICK next : StopChild(closeTask, next) /\ closeTask' = next
  BY DEF CloseStopsChild
<1>2. closeTask.at = "stopping"
  BY <1>1 DEF StopChild
<1>3. /\ RTypeOK' /\ ListenersOK' /\ EarlierAreReady'
      /\ \A l \in Listeners : closeState[l] = "done" => closeState'[l] = "done"
      /\ next \in [at : {"stopping"}, child : 0..Last]
      /\ \A j \in 1..Last : next.child < j => closeState'[Order[j]] = "done"
  BY <1>1, <1>2, StopChildEffect DEF IInv, TypeOK, LaterAreClosed
<1>4. UNCHANGED <<processPhase, closingRequested, startTask, wasReady>> /\ StoreUnchanged
  BY DEF CloseStopsChild
<1>5. TypeOK'
  BY <1>1, <1>3, <1>4 DEF IInv, TypeOK, TaskPlaces, StoreUnchanged, Last
<1>6. TasksOK'
  BY <1>1, <1>2, <1>3, <1>4 DEF IInv, TasksOK
<1>7. OneStopper'
  BY <1>1, <1>2, <1>3, <1>4 DEF IInv, OneStopper, StartStops, CloseStops, StartSettled
<1>8. LaterAreClosed'
  BY <1>1, <1>2, <1>3, <1>4
  DEF IInv, LaterAreClosed, OneStopper, CloseStops, StartSettled, Last
<1>9. ReleaseOK'
  BY <1>1, <1>2, <1>3, <1>4 DEF IInv, ReleaseOK, ReleaseAfterListeners, StoreUnchanged
<1>10. ReadyOK'
  BY <1>2, <1>4 DEF IInv, ReadyOK, StoreUnchanged
<1> QED BY <1>3, <1>5, <1>6, <1>7, <1>8, <1>9, <1>10 DEF IInv

\* A listener's own step is quiet for the process.
LEMMA ListenerStep ==
    ASSUME IInv, NEW l \in Listeners, ListenerRuns(l) \/ ListenerOutside(l)
    PROVE  IInv'
<1> USE OrderFacts
<1>1. UNCHANGED process
  BY DEF ListenerRuns, ListenerOutside
<1>2. RTypeOK' /\ ListenersOK' /\ Quiet
  BY RunsKeepListeners DEF IInv, TypeOK, ListenerRuns, ListenerOutside
<1>3. EarlierAreReady'
  BY <1>2, QuietKeepsOrder DEF IInv
<1>4. TypeOK' /\ TasksOK'
  BY <1>1, <1>2 DEF IInv, TypeOK, TasksOK, TaskPlaces, process, Last
<1>5. OneStopper' /\ LaterAreClosed'
  BY <1>1, <1>2
  DEF IInv, OneStopper, LaterAreClosed, StartStops, CloseStops, StartSettled, Quiet, process, Last
<1>6. ReleaseOK' /\ ReadyOK'
  BY <1>1, <1>2
  DEF IInv, ReleaseOK, ReleaseAfterListeners, ReadyOK, AllReady, Quiet, process
<1> QED BY <1>2, <1>3, <1>4, <1>5, <1>6 DEF IInv

-----------------------------------------------------------------------------
\* Before start and close, nothing has happened.
LEMMA InitInvariant == Init => IInv
<1> SUFFICES ASSUME Init PROVE IInv
  OBVIOUS
<1> USE OrderFacts DEF Init, RInit, At
<1>1. TypeOK
  <2>1. startTask \in [at : TaskPlaces, child : 0..Last] /\ closeTask \in [at : TaskPlaces, child : 0..Last]
    BY DEF TaskPlaces
  <2>2. readyForSeal \in BOOLEAN
    OBVIOUS
  <2>3. RTypeOK
    BY ListenersAtFirst
  <2> QED BY <2>1, <2>2, <2>3 DEF TypeOK
<1>2. ListenersOK
  BY ListenersAtFirst
<1>3. TasksOK /\ OneStopper /\ LaterAreClosed
  BY DEF TasksOK, OneStopper, StartStops, CloseStops, StartSettled, LaterAreClosed
<1>4. EarlierAreReady
  BY DEF EarlierAreReady
<1>5. ReleaseOK /\ ReadyOK
  BY DEF ReleaseOK, ReleaseAfterListeners, ReadyOK
<1> QED BY <1>1, <1>2, <1>3, <1>4, <1>5 DEF IInv

\* Every step of the process and of its listeners keeps the invariant.
LEMMA StepInvariant == IInv /\ [Next]_vars => IInv'
<1> SUFFICES ASSUME IInv, [Next]_vars PROVE IInv'
  OBVIOUS
<1>1. CASE ProcessStart BY <1>1, ProcessStartStep
<1>2. CASE ProcessStartStopped BY <1>2, ProcessStartStoppedStep
<1>3. CASE ProcessClose BY <1>3, ProcessCloseStep
<1>4. CASE Expire BY <1>4, ExpireStep
<1>5. CASE ChildStarted BY <1>5, ChildStartedStep
<1>6. CASE LastChildStarted BY <1>6, LastChildStartedStep
<1>7. CASE ChildFailed BY <1>7, ChildFailedStep
<1>8. CASE StartReturns BY <1>8, StartReturnsStep
<1>9. CASE StartStopsChild BY <1>9, StartStopsChildStep
<1>10. CASE StartReleases BY <1>10, StartReleasesStep
<1>11. CASE StartRejects BY <1>11, StartRejectsStep
<1>12. CASE CloseResumes BY <1>12, CloseResumesStep
<1>13. CASE CloseStopsChild BY <1>13, CloseStopsChildStep
<1>14. CASE CloseReleases BY <1>14, CloseReleasesStep
<1>15. CASE CloseSettles BY <1>15, CloseSettlesStep
<1>16. CASE Release BY <1>16, ReleaseStep
<1>17. CASE \E l \in Listeners : ListenerRuns(l) \/ ListenerOutside(l)
  BY <1>17, ListenerStep
<1>18. CASE UNCHANGED vars
  BY <1>18
  DEF vars, lifecycle, process, IInv, TypeOK, RTypeOK, ListenersOK, ListenerOK, TasksOK,
      OneStopper, StartStops, CloseStops, StartSettled, LaterAreClosed, EarlierAreReady,
      ReleaseOK, ReleaseAfterListeners, ReadyOK, AllReady
<1> QED
  BY <1>1, <1>2, <1>3, <1>4, <1>5, <1>6, <1>7, <1>8, <1>9, <1>10, <1>11, <1>12, <1>13,
     <1>14, <1>15, <1>16, <1>17, <1>18 DEF Next, Continues

\* The inductive invariant holds of every execution.
LEMMA Invariant == Spec => []IInv
BY InitInvariant, StepInvariant, PTL DEF Spec

\* Every variable keeps its type: in particular a task never leaves the order.
THEOREM TypeCorrect == Spec => []TypeOK
<1>1. IInv => TypeOK
  BY DEF IInv
<1> QED BY <1>1, Invariant, PTL

\* The listeners that accept requests are the first few of the order, for any
\* number of listeners and requests, through startup, rollback and shutdown.
THEOREM ListenersAreAPrefix == Spec => []ListeningIsPrefix
<1>1. IInv => ListeningIsPrefix
  <2> SUFFICES ASSUME IInv, NEW i \in 1..Last, NEW j \in 1..Last, i < j,
                      server[Order[j]] = "listening"
               PROVE  server[Order[i]] = "listening"
    BY DEF ListeningIsPrefix
  <2>1. startState[Order[j]] # "none" /\ closeState[Order[j]] # "done"
    <3>1. phase[Order[j]] \in {"new", "starting", "ready", "draining", "stopped", "failed"}
      BY OrderFacts DEF IInv, TypeOK, RTypeOK
    <3> QED BY <3>1, OrderFacts DEF IInv, ListenersOK, ListenerOK
  <2>2. phase[Order[i]] = "ready"
    BY <2>1 DEF IInv, EarlierAreReady
  <2> QED BY <2>2, OrderFacts DEF IInv, ListenersOK, ListenerOK
<1> QED BY <1>1, Invariant, PTL

\* The case store is released only when every listener has closed and drained,
\* whichever of start and close stops them.
THEOREM ReleaseIsLast == Spec => []ReleaseAfterListeners
<1>1. IInv => ReleaseAfterListeners
  BY DEF IInv, ReleaseOK
<1> QED BY <1>1, Invariant, PTL

\* A recovered store is sealed only after a moment at which all were ready.
THEOREM SealingNeedsReady == Spec => []RecoverySealsOnlyAfterReady
<1>1. IInv => RecoverySealsOnlyAfterReady
  BY DEF IInv, ReleaseOK, ReadyOK, RecoverySealsOnlyAfterReady
<1> QED BY <1>1, Invariant, PTL

\* health() and close tell the operator what is so.
THEOREM ReportsHold == Spec => []ReportsAreHonest
<1>1. IInv => PhaseIsHonest
  BY DEF IInv, ListenersOK, ListenerOK, PhaseIsHonest
<1>2. IInv => CloseReportsRelease
  BY DEF IInv, ReleaseOK, CloseReportsRelease
<1>3. IInv => ReadyIsHonest
  <2> SUFFICES ASSUME IInv, processPhase = "ready" PROVE AllReady /\ durable = "open"
    BY DEF ReadyIsHonest
  <2>1. AllReady
    BY DEF IInv, ReadyOK
  <2>2. PICK l \in Listeners : TRUE
    BY OrderFacts, OrderAssumption
  <2>3. closeState[l] # "done"
    BY <2>1, <2>2 DEF AllReady, IInv, ListenersOK, ListenerOK
  <2>4. releasePromise = "none"
    BY <2>3 DEF IInv, ReleaseOK, ReleaseAfterListeners
  <2> QED BY <2>1, <2>4 DEF IInv, ReleaseOK
<1>4. IInv => ReportsAreHonest
  BY <1>1, <1>2, <1>3 DEF ReportsAreHonest
<1> QED BY <1>4, Invariant, PTL
=============================================================================
