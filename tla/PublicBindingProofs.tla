------------------------- MODULE PublicBindingProofs --------------------------
(***************************************************************************)
(* Proofs about the public binding runtime of PublicBindingRuntime: its    *)
(* projection is always a beginning of the outbox, and what it reports of  *)
(* itself is so.                                                           *)
(*                                                                         *)
(* The first part needs only the steps of BindingReplay, whoever makes     *)
(* them: rows that are projected, pending and in an acceptable reply are   *)
(* consecutive rows of the outbox.  The second part is about the awaits of *)
(* start, close and the timer's callback.                                  *)
(***************************************************************************)
EXTENDS PublicBindingRuntime, SequenceTheorems, TLAPS

-----------------------------------------------------------------------------
(* The steps of the two listeners.                                         *)

\* Nobody has called start or close.
LEMMA ListenersAtFirst ==
    ASSUME RInit
    PROVE  RTypeOK /\ ListenersOK
<1>1. RTypeOK
  BY DEF RInit, RTypeOK
<1>2. ListenersOK
  BY DEF RInit, ListenersOK, ListenerOK
<1> QED BY <1>1, <1>2

\* The event loop and the outside keep a listener's phase honest.
LEMMA RunsKeepListeners ==
    ASSUME RTypeOK, ListenersOK, NEW l \in Listeners, Runs(l) \/ Outside(l)
    PROVE  RTypeOK' /\ ListenersOK' /\ Quiet
<1> USE DEF RTypeOK, ListenersOK, ListenerOK, Quiet
<1>1. CASE Listening(l)
  BY <1>1 DEF Listening, SetServer, SetStart, SetPhase, ClosingRequested
<1>2. CASE \E s \in {"unbound", "closing"} : FailBind(l, s)
  BY <1>2 DEF FailBind, SetServer, SetStart, SetPhase
<1>3. CASE StopUnexpectedListener(l)
  BY <1>3 DEF StopUnexpectedListener, SetServer, SetStart, InvokeRelease
<1>4. CASE CloseAfterStart(l)
  BY <1>4 DEF CloseAfterStart, Settled, FinishClose, BeginDrain, SetServer, SetPhase,
              SetClose, InvokeRelease
<1>5. CASE Drained(l) \/ CloseForced(l)
  BY <1>5 DEF Drained, CloseForced, FinishClose, SetServer, SetPhase, SetClose, InvokeRelease
<1>6. CASE DrainTimeout(l)
  BY <1>6 DEF DrainTimeout, SetClose
<1>7. CASE Outside(l)
  BY <1>7 DEF Outside, Accept, Answer, Abort, BindElsewhere, SetServer
<1> QED BY <1>1, <1>2, <1>3, <1>4, <1>5, <1>6, <1>7 DEF Runs, BindSettles

\* A child's start keeps every phase honest and touches no other child.
LEMMA StartKeepsListeners ==
    ASSUME RTypeOK, ListenersOK, NEW l \in Listeners, Start(l) \/ StartOnBoundServer(l)
    PROVE  /\ RTypeOK' /\ ListenersOK'
           /\ phase[l] = "new" /\ closeState' = closeState
           /\ \A m \in Listeners \ {l} :
                 phase'[m] = phase[m] /\ startState'[m] = startState[m]
<1> USE DEF RTypeOK, ListenersOK, ListenerOK, SetServer, SetStart, SetPhase
<1>1. CASE Start(l) BY <1>1 DEF Start
<1>2. CASE StartOnBoundServer(l) BY <1>2 DEF StartOnBoundServer
<1> QED BY <1>1, <1>2

\* So does a child's close, and a closed child stays closed.
LEMMA CloseKeepsListeners ==
    ASSUME RTypeOK, ListenersOK, NEW l \in Listeners, Close(l)
    PROVE  /\ RTypeOK' /\ ListenersOK'
           /\ startState' = startState
           /\ \A m \in Listeners \ {l} :
                 phase'[m] = phase[m] /\ closeState'[m] = closeState[m]
           /\ \A m \in Listeners : closeState[m] = "done" => closeState'[m] = "done"
BY DEF RTypeOK, ListenersOK, ListenerOK, Close, Settled, FinishClose, BeginDrain,
       SetServer, SetPhase, SetClose, InvokeRelease

\* An unchanged listener state is a quiet step.
LEMMA UnchangedIsQuiet ==
    ASSUME RTypeOK, ListenersOK, UNCHANGED lifecycle
    PROVE  RTypeOK' /\ ListenersOK' /\ Quiet
BY DEF lifecycle, RTypeOK, ListenersOK, ListenerOK, Quiet

-----------------------------------------------------------------------------

\* The cursor after n rows, and the rows projected or pending.
SequenceAt(n) == IF n = 0 THEN 0 ELSE outbox[n].sequence
Pulled == Len(receipts) + Len(op.pending)

ReceiptsAreRows ==
    /\ receipts \in Seq(ReceiptType) /\ Len(receipts) <= Len(outbox)
    /\ \A i \in 1..Len(receipts) : receipts[i] = outbox[i].receipt
    /\ afterSequence = SequenceAt(Len(receipts))

PendingAreRows ==
    /\ op \in [at : {"idle", "awaiting"}, cursor : Nat, pending : Seq(RowType)]
    /\ Pulled <= Len(outbox)
    /\ \A i \in 1..Len(op.pending) : op.pending[i] = outbox[Len(receipts) + i]
    /\ op.at = "awaiting" => op.cursor = SequenceAt(Pulled)
    /\ op.at = "idle" => op = Idle /\ reply = NoReply

\* A reply the client would accept holds the rows right after the cursor, also
\* when the outbox has grown since it was sent.
AcceptableIsNext ==
    ClientAccepts(reply) =>
        /\ reply.entries \in Seq(RowType)
        /\ Pulled + Len(reply.entries) <= Len(outbox)
        /\ \A i \in 1..Len(reply.entries) : reply.entries[i] = outbox[Pulled + i]

ReplayInv ==
    /\ Written(outbox)
    /\ healthy \in BOOLEAN /\ hydrated \in BOOLEAN
    /\ ReceiptsAreRows
    /\ PendingAreRows
    /\ AcceptableIsNext

-----------------------------------------------------------------------------
\* Lengths and cursors are numbers, and rows have the type of rows.
LEMMA WrittenFacts ==
    ASSUME Written(outbox)
    PROVE  /\ Len(outbox) \in Nat /\ outbox \in Seq(RowType)
           /\ \A i \in 1..Len(outbox) : outbox[i] \in RowType
           /\ \A i \in 0..Len(outbox) : SequenceAt(i) \in Nat
           /\ \A i, j \in 0..Len(outbox) : i < j => SequenceAt(i) < SequenceAt(j)
<1>1. Len(outbox) \in Nat /\ outbox \in Seq(RowType)
  BY DEF Written
<1>2. \A i \in 1..Len(outbox) : outbox[i] \in RowType
  BY <1>1
<1>3. \A i \in 1..Len(outbox) : outbox[i].sequence \in Nat /\ outbox[i].sequence > 0
  BY <1>2 DEF RowType
<1>4. \A i \in 0..Len(outbox) : SequenceAt(i) \in Nat
  BY <1>1, <1>3 DEF SequenceAt
<1>5. \A i, j \in 0..Len(outbox) : i < j => SequenceAt(i) < SequenceAt(j)
  BY <1>1, <1>3 DEF SequenceAt, Written
<1> QED BY <1>1, <1>2, <1>4, <1>5

\* What the outbox answers at the cursor after k rows are the rows from k + 1 on.
LEMMA ReplayIsNext ==
    ASSUME Written(outbox), NEW k \in 0..Len(outbox)
    PROVE  /\ Replay(SequenceAt(k), PageSize) \in Seq(RowType)
           /\ k + Len(Replay(SequenceAt(k), PageSize)) <= Len(outbox)
           /\ \A i \in 1..Len(Replay(SequenceAt(k), PageSize)) :
                 Replay(SequenceAt(k), PageSize)[i] = outbox[k + i]
<1> DEFINE after == SequenceAt(k)
           Past(n) == \A i \in 1..Len(outbox) : outbox[i].sequence > after <=> i > n
           past == CHOOSE n \in 0..Len(outbox) : Past(n)
           upTo == IF past + PageSize < Len(outbox) THEN past + PageSize ELSE Len(outbox)
<1> USE WrittenFacts
<1>1. \A i \in 1..Len(outbox) : outbox[i].sequence = SequenceAt(i)
  BY DEF SequenceAt
<1>2. Past(k)
  <2> SUFFICES ASSUME NEW i \in 1..Len(outbox) PROVE SequenceAt(i) > SequenceAt(k) <=> i > k
    BY <1>1
  <2>1. i < k => SequenceAt(i) < SequenceAt(k)
    OBVIOUS
  <2>2. k < i => SequenceAt(k) < SequenceAt(i)
    OBVIOUS
  <2>3. SequenceAt(i) \in Nat /\ SequenceAt(k) \in Nat
    OBVIOUS
  <2> QED BY <2>1, <2>2, <2>3
<1>3. past \in 0..Len(outbox) /\ Past(past)
  BY <1>2
<1>4. past = k
  <2>1. CASE past < k
    <3>1. k \in 1..Len(outbox) /\ k > past
      BY <1>3, <2>1
    <3>2. outbox[k].sequence > after /\ outbox[k].sequence = after
      BY <3>1, <1>1, <1>3
    <3>3. after \in Nat
      OBVIOUS
    <3> QED BY <3>2, <3>3
  <2>2. CASE past > k
    <3>1. past \in 1..Len(outbox) /\ ~(past > past)
      BY <1>3, <2>2
    <3>2. outbox[past].sequence > after
      BY <3>1, <1>2, <2>2
    <3> QED BY <3>1, <3>2, <1>3
  <2> QED BY <1>3, <2>1, <2>2
<1>5. Replay(after, PageSize) = SubSeq(outbox, past + 1, upTo)
  BY DEF Replay
<1> HIDE DEF past
<1>6. PageSize \in Nat
  BY BoundsAssumption
<1>7. upTo \in Nat /\ upTo <= Len(outbox) /\ k <= upTo
  BY <1>3, <1>4, <1>6
<1> HIDE DEF upTo
<1>8. \A i \in (k + 1)..upTo : outbox[i] \in RowType
  BY <1>7
<1>9. /\ SubSeq(outbox, k + 1, upTo) \in Seq(RowType)
      /\ Len(SubSeq(outbox, k + 1, upTo)) = IF k + 1 <= upTo THEN upTo - (k + 1) + 1 ELSE 0
      /\ \A i \in 1..(upTo - (k + 1) + 1) : SubSeq(outbox, k + 1, upTo)[i] = outbox[k + 1 + i - 1]
  BY <1>7, <1>8, SubSeqProperties
<1> HIDE DEF after
<1>10. Replay(after, PageSize) = SubSeq(outbox, k + 1, upTo)
  BY <1>4, <1>5
<1>11. Len(SubSeq(outbox, k + 1, upTo)) = upTo - k
  BY <1>7, <1>9
<1>12. \A i \in 1..(upTo - k) : SubSeq(outbox, k + 1, upTo)[i] = outbox[k + i]
  BY <1>7, <1>9
<1> QED BY <1>7, <1>9, <1>10, <1>11, <1>12 DEF after

\* A page the server sends is a refusal or the rows after its cursor.
LEMMA AnswerShape ==
    ASSUME NEW after
    PROVE  LET answer == ServerAnswer(PullRequest(after, PageSize))
           IN  \/ answer.status # 200 /\ answer.entries = <<>>
               \/ /\ answer.afterSequence = after
                  /\ answer.entries = Replay(after, PageSize)
BY DEF ServerAnswer, PullRequest, Refusal, NoReply

\* The number of rows pulled is a number of rows of the outbox.
LEMMA PulledFacts ==
    ASSUME ReplayInv
    PROVE  /\ Len(receipts) \in 0..Len(outbox) /\ Len(op.pending) \in Nat
           /\ Pulled \in 0..Len(outbox) /\ op.pending \in Seq(RowType)
<1>1. op.pending \in Seq(RowType) /\ Len(op.pending) \in Nat /\ Len(receipts) \in Nat
  BY DEF ReplayInv, PendingAreRows, ReceiptsAreRows
<1> QED BY <1>1, WrittenFacts DEF ReplayInv, PendingAreRows, ReceiptsAreRows, Pulled

\* An admission appends a row.  What was pulled and what is under way stay
\* the rows they were.
LEMMA CommitStep ==
    ASSUME ReplayInv, NEW schema \in Schemas, NEW gap \in 0..MaxGap, Commit(schema, gap)
    PROVE  ReplayInv'
<1> DEFINE n == Len(outbox) + 1
           row == Row(schema, n, LastSequence(outbox) + 1 + gap)
<1>a. /\ Written(outbox) /\ ReceiptsAreRows /\ PendingAreRows /\ AcceptableIsNext
      /\ healthy \in BOOLEAN /\ hydrated \in BOOLEAN
  BY DEF ReplayInv
<1>b. /\ Len(outbox) \in Nat /\ outbox \in Seq(RowType)
      /\ \A i \in 0..Len(outbox) : SequenceAt(i) \in Nat
      /\ \A i, j \in 0..Len(outbox) : i < j => SequenceAt(i) < SequenceAt(j)
  BY <1>a, WrittenFacts
<1>c. /\ Len(receipts) \in 0..Len(outbox) /\ Len(op.pending) \in Nat
      /\ Pulled \in 0..Len(outbox) /\ op.pending \in Seq(RowType)
  BY PulledFacts
<1>1. LastSequence(outbox) = SequenceAt(Len(outbox)) /\ LastSequence(outbox) \in Nat
  <2>1. outbox = <<>> <=> Len(outbox) = 0
    BY <1>b, EmptySeq
  <2> QED BY <1>b, <2>1 DEF LastSequence, SequenceAt, Last
<1>2. n \in Rows /\ gap \in Nat /\ MaxOutbox \in Nat /\ n <= MaxOutbox
  BY <1>b, BoundsAssumption DEF Commit, Rows
<1>3. row.receipt \in ReceiptType /\ row.receipt.root = n /\ row.receipt.caseId = n
  BY <1>2 DEF Row, CreateReceipt, ReceiptType
<1>4. row \in RowType /\ row.sequence > LastSequence(outbox) /\ VerifyReceipt(row.receipt)
  BY <1>1, <1>2, <1>3 DEF Row, RowType, Commit
<1>5. outbox' = Append(outbox, row) /\ UNCHANGED <<healthy, projector, op, reply>>
  BY DEF Commit
<1> HIDE DEF row
<1>6. /\ outbox' \in Seq(RowType) /\ Len(outbox') = n /\ outbox'[n] = row
      /\ \A i \in 1..Len(outbox) : outbox'[i] = outbox[i]
  BY <1>b, <1>4, <1>5, AppendProperties
<1>7. \A i \in 0..Len(outbox) : SequenceAt(i)' = SequenceAt(i)
  BY <1>b, <1>6 DEF SequenceAt
<1>8. Written(outbox)'
  <2>1. ASSUME NEW i \in 1..n
        PROVE  /\ VerifyReceipt(outbox'[i].receipt)
               /\ outbox'[i].receipt.root = i /\ outbox'[i].receipt.caseId = i
    <3>1. CASE i = n
      BY <3>1, <1>3, <1>4, <1>6
    <3>2. CASE i # n
      <4>1. i \in 1..Len(outbox) /\ outbox'[i] = outbox[i]
        BY <1>b, <3>2, <1>6
      <4>2. Written(outbox)
        BY <1>a
      <4>3. /\ VerifyReceipt(outbox[i].receipt)
            /\ outbox[i].receipt.root = i /\ outbox[i].receipt.caseId = i
        BY ONLY <4>1, <4>2 DEF Written
      <4> QED BY ONLY <4>1, <4>3
    <3> QED BY <3>1, <3>2
  <2>2. ASSUME NEW i \in 1..n, NEW j \in 1..n, i < j
        PROVE  outbox'[i].sequence < outbox'[j].sequence
    <3>1. i \in 1..Len(outbox) /\ outbox'[i] = outbox[i]
      BY <1>b, <2>2, <1>6
    <3>2. CASE j = n
      <4>1. outbox[i].sequence = SequenceAt(i) /\ SequenceAt(i) \in Nat
        BY <1>b, <3>1 DEF SequenceAt
      <4>2. SequenceAt(i) <= SequenceAt(Len(outbox))
        BY <1>b, <3>1
      <4>3. row.sequence \in Nat
        BY <1>4 DEF RowType
      <4> QED BY <1>1, <1>4, <1>6, <3>1, <3>2, <4>1, <4>2, <4>3
    <3>3. CASE j # n
      <4>1. j \in 1..Len(outbox) /\ outbox'[j] = outbox[j] /\ Written(outbox)
        BY <1>a, <1>b, <3>3, <1>6
      <4>2. outbox[i].sequence < outbox[j].sequence
        BY ONLY <3>1, <4>1, <2>2 DEF Written
      <4> QED BY ONLY <3>1, <4>1, <4>2
    <3> QED BY <3>2, <3>3
  <2>3. outbox' \in Seq(RowType) /\ Len(outbox') = n /\ n <= MaxOutbox
    BY <1>2, <1>6
  <2> HIDE DEF n
  <2> QED BY ONLY <2>1, <2>2, <2>3 DEF Written
<1>d. UNCHANGED <<receipts, afterSequence, hydrated, op, reply>> /\ Pulled' = Pulled
  BY <1>5 DEF projector, Pulled
<1>9. ReceiptsAreRows'
  <2>1. /\ receipts \in Seq(ReceiptType) /\ Len(receipts) <= Len(outbox)
        /\ \A i \in 1..Len(receipts) : receipts[i] = outbox[i].receipt
        /\ afterSequence = SequenceAt(Len(receipts))
    BY <1>a DEF ReceiptsAreRows
  <2>2. \A i \in 1..Len(receipts) : outbox'[i] = outbox[i]
    BY <1>b, <1>c, <1>6
  <2>3. (SequenceAt(Len(receipts)))' = SequenceAt(Len(receipts))
    BY <1>c, <1>d, <1>7 DEF SequenceAt
  <2>4. Len(receipts) <= Len(outbox')
    BY <1>b, <1>c, <1>6
  <2> QED BY <1>d, <2>1, <2>2, <2>3, <2>4 DEF ReceiptsAreRows
<1>10. PendingAreRows'
  <2>1. \A i \in 1..Len(op.pending) : Len(receipts) + i \in 1..Len(outbox)
    BY <1>b, <1>c DEF Pulled
  <2>2. \A i \in 1..Len(op.pending) : outbox'[Len(receipts) + i] = outbox[Len(receipts) + i]
    BY <1>6, <2>1
  <2>3. (SequenceAt(Pulled))' = SequenceAt(Pulled)
    BY <1>c, <1>d, <1>7 DEF SequenceAt
  <2>4. Pulled <= Len(outbox')
    BY <1>b, <1>c, <1>6
  <2> QED BY <1>a, <1>d, <2>2, <2>3, <2>4 DEF PendingAreRows
<1>11. AcceptableIsNext'
  <2>1. ClientAccepts(reply)' = ClientAccepts(reply)
    BY <1>d DEF ClientAccepts
  <2>2. ASSUME ClientAccepts(reply), NEW i \in 1..Len(reply.entries)
        PROVE  outbox'[Pulled + i] = outbox[Pulled + i]
    <3>1. Len(reply.entries) \in Nat /\ Pulled + Len(reply.entries) <= Len(outbox)
      BY <1>a, <2>2 DEF AcceptableIsNext
    <3>2. Pulled + i \in 1..Len(outbox)
      BY <1>b, <1>c, <2>2, <3>1
    <3> QED BY <3>2, <1>6
  <2>3. ClientAccepts(reply) => /\ Len(reply.entries) \in Nat
                                /\ Pulled + Len(reply.entries) <= Len(outbox')
    BY <1>a, <1>b, <1>c, <1>6 DEF AcceptableIsNext
  <2> QED BY <1>a, <1>d, <2>1, <2>2, <2>3 DEF AcceptableIsNext
<1> QED BY <1>a, <1>5, <1>8, <1>9, <1>10, <1>11 DEF ReplayInv, projector

\* The control process goes away or comes back.
LEMMA DisturbStep ==
    ASSUME ReplayInv, Disturb
    PROVE  ReplayInv'
BY DEF Disturb, projector, ReplayInv, Written, ReceiptsAreRows, PendingAreRows, AcceptableIsNext,
       ClientAccepts, Pulled, SequenceAt

\* A pull begins at the cursor of the projection.
LEMMA ReconcileStep ==
    ASSUME ReplayInv, Reconcile
    PROVE  ReplayInv'
<1> USE WrittenFacts, PulledFacts DEF ReplayInv
<1>1. UNCHANGED <<outbox, healthy, receipts, afterSequence, hydrated, reply>>
  BY DEF Reconcile, projector
<1>2. op' = [at |-> "awaiting", cursor |-> afterSequence, pending |-> <<>>]
  BY DEF Reconcile
<1>3. <<>> \in Seq(RowType) /\ Len(<<>>) = 0
  BY EmptySeq
<1>4. Pulled' = Len(receipts)
  BY <1>1, <1>2, <1>3 DEF Pulled
<1>5. afterSequence \in Nat /\ afterSequence = SequenceAt(Len(receipts))
  BY DEF ReceiptsAreRows
<1>6. \A i \in 0..Len(outbox) : SequenceAt(i)' = SequenceAt(i)
  BY <1>1 DEF SequenceAt
<1>7. PendingAreRows'
  BY <1>1, <1>2, <1>3, <1>4, <1>5, <1>6 DEF PendingAreRows
<1>8. AcceptableIsNext'
  <2>1. reply = NoReply
    BY DEF Reconcile, PendingAreRows
  <2> QED BY <1>1, <2>1 DEF AcceptableIsNext, ClientAccepts, NoReply
<1> QED BY <1>1, <1>6, <1>7, <1>8 DEF Written, ReceiptsAreRows

\* The page the server sends at the cursor holds the rows that follow.
LEMMA ServeStep ==
    ASSUME ReplayInv, Serve
    PROVE  ReplayInv'
<1> USE WrittenFacts, PulledFacts DEF ReplayInv
<1>1. UNCHANGED <<outbox, healthy, receipts, afterSequence, hydrated, op>> /\ Pulled' = Pulled
  BY DEF Serve, projector, Pulled
<1>2. op.cursor = SequenceAt(Pulled) /\ op.at = "awaiting"
  BY DEF Serve, PendingAreRows
<1>3. reply' = ServerAnswer(PullRequest(op.cursor, PageSize))
  BY DEF Serve
<1>4. AcceptableIsNext'
  <2>1. CASE reply'.status # 200
    BY <2>1 DEF AcceptableIsNext, ClientAccepts
  <2>2. CASE reply'.entries = Replay(op.cursor, PageSize)
    <3> DEFINE rows == Replay(SequenceAt(Pulled), PageSize)
    <3>1. /\ rows \in Seq(RowType) /\ Pulled + Len(rows) <= Len(outbox)
          /\ \A i \in 1..Len(rows) : rows[i] = outbox[Pulled + i]
      BY ReplayIsNext
    <3>2. reply'.entries = rows
      BY <2>2, <1>2
    <3> HIDE DEF rows
    <3> QED BY <3>1, <3>2, <1>1 DEF AcceptableIsNext
  <2> QED BY <1>3, <2>1, <2>2, AnswerShape
<1> QED BY <1>1, <1>2, <1>4 DEF Written, ReceiptsAreRows, PendingAreRows, SequenceAt

\* Another request's page is refused for its cursor, and damaged bytes for a
\* receipt that does not verify.
LEMMA MisdeliverStep ==
    ASSUME ReplayInv, NEW after \in {0, op.cursor}, Misdeliver(after)
    PROVE  ReplayInv'
<1> USE WrittenFacts, PulledFacts DEF ReplayInv
<1>1. UNCHANGED <<outbox, healthy, receipts, afterSequence, hydrated, op>> /\ Pulled' = Pulled
  BY DEF Misdeliver, projector, Pulled
<1>2. op.cursor = SequenceAt(Pulled) /\ op.at = "awaiting"
  BY DEF Misdeliver, PendingAreRows
<1> DEFINE page == ServerAnswer(PullRequest(after, PageSize))
<1>3. /\ reply' = IF after # op.cursor THEN page
                  ELSE [page EXCEPT !.entries = [i \in DOMAIN @ |-> [@[i] EXCEPT !.receipt.intact = FALSE]]]
      /\ reply'.entries # <<>>
  BY DEF Misdeliver
<1>4. \/ page.status # 200 /\ page.entries = <<>>
      \/ page.afterSequence = after /\ page.entries = Replay(after, PageSize)
  BY AnswerShape
<1>5. DOMAIN page = {"afterSequence", "entries", "status", "nextSequence"}
  BY DEF ServerAnswer, PullRequest, Refusal, NoReply
<1> HIDE DEF page
<1>6. ~ClientAccepts(reply)'
  <2>1. CASE after # op.cursor
    <3>1. reply' = page
      BY <2>1, <1>3
    <3>2. reply'.status # 200 \/ reply'.afterSequence # op.cursor
      BY <2>1, <3>1, <1>4
    <3> QED BY <3>2, <1>1 DEF ClientAccepts, VerifyPage
  <2>2. CASE after = op.cursor
    <3> DEFINE rows == Replay(after, PageSize)
               damaged == [i \in DOMAIN page.entries |-> [page.entries[i] EXCEPT !.receipt.intact = FALSE]]
    <3>1. reply'.entries = damaged /\ damaged # <<>>
      BY <2>2, <1>3, <1>5, Zenon
    <3>2. rows \in Seq(RowType)
      BY <1>2, <2>2, ReplayIsNext
    <3>3. page.entries = rows
      BY <3>1, <3>2, <1>4
    <3>4. damaged[1].receipt.intact = FALSE /\ 1 \in DOMAIN damaged
      BY <3>1, <3>2, <3>3
    <3> QED BY <3>1, <3>4 DEF ClientAccepts, VerifyPage, VerifyEntries, VerifyReceipt
  <2> QED BY <2>1, <2>2
<1> QED BY <1>1, <1>2, <1>6 DEF Written, ReceiptsAreRows, PendingAreRows, SequenceAt, AcceptableIsNext

\* A pull that fails leaves projection and cursor, and drops what was pending.
LEMMA FailStep ==
    ASSUME ReplayInv, Fail
    PROVE  ReplayInv'
<1> USE WrittenFacts, PulledFacts DEF ReplayInv
<1>1. UNCHANGED <<outbox, healthy, receipts, afterSequence, hydrated>>
  BY DEF Fail, projector
<1>2. op' = Idle /\ reply' = NoReply /\ op'.pending = <<>> /\ Len(op'.pending) = 0
  BY EmptySeq DEF Fail, Idle
<1>3. <<>> \in Seq(RowType)
  BY EmptySeq
<1>4. Idle \in [at : {"idle", "awaiting"}, cursor : Nat, pending : Seq(RowType)] /\ Idle.at = "idle"
  BY <1>3 DEF Idle
<1>5. PendingAreRows'
  BY <1>1, <1>2, <1>4 DEF PendingAreRows, Pulled
<1>6. AcceptableIsNext'
  BY <1>2 DEF AcceptableIsNext, ClientAccepts, NoReply
<1> QED BY <1>1, <1>5, <1>6 DEF Written, ReceiptsAreRows, SequenceAt

\* A page that is accepted goes behind what is pending.
LEMMA ReceivePageStep ==
    ASSUME ReplayInv, ReceivePage(reply)
    PROVE  ReplayInv'
<1> DEFINE rows == reply.entries
           pending == op.pending \o rows
           r == Len(receipts)
           p == Len(op.pending)
           n == Len(rows)
<1>1. UNCHANGED <<outbox, healthy, receipts, afterSequence, hydrated>> /\ reply' = NoReply
  BY DEF ReceivePage, projector
<1>2. /\ rows \in Seq(RowType) /\ rows # <<>> /\ Pulled + n <= Len(outbox)
      /\ \A i \in 1..n : rows[i] = outbox[Pulled + i]
  BY DEF ReceivePage, AcceptableIsNext, ReplayInv
<1>3. n \in Nat /\ n # 0
  BY <1>2, EmptySeq
<1>4. Len(outbox) \in Nat /\ r \in Nat /\ p \in Nat /\ Pulled = r + p /\ op.pending \in Seq(RowType)
  BY WrittenFacts, PulledFacts DEF ReplayInv, Pulled
<1>5. \A i \in 1..p : op.pending[i] = outbox[r + i]
  BY DEF ReplayInv, PendingAreRows
<1>6. op' = [op EXCEPT !.cursor = Last(rows).sequence, !.pending = pending] /\ op.at = "awaiting"
  BY DEF ReceivePage
<1>7. op' = [at |-> "awaiting", cursor |-> Last(rows).sequence, pending |-> pending]
  BY <1>6 DEF ReplayInv, PendingAreRows
<1>8. /\ pending \in Seq(RowType) /\ Len(pending) = p + n
      /\ \A i \in 1..(p + n) : pending[i] = IF i <= p THEN op.pending[i] ELSE rows[i - p]
  <2>1. op.pending \in Seq(RowType) /\ rows \in Seq(RowType)
    BY <1>2, <1>4
  <2> HIDE DEF rows
  <2>2. /\ op.pending \o rows \in Seq(RowType)
        /\ Len(op.pending \o rows) = Len(op.pending) + Len(rows)
        /\ \A i \in 1..(Len(op.pending) + Len(rows)) :
             (op.pending \o rows)[i] =
                IF i <= Len(op.pending) THEN op.pending[i] ELSE rows[i - Len(op.pending)]
    BY ONLY <2>1, ConcatProperties
  <2> QED BY ONLY <2>2
<1>9. Pulled' = r + Len(pending)
  BY <1>1, <1>7 DEF Pulled
<1>10. Last(rows) = rows[n]
  BY DEF Last
<1> HIDE DEF pending, rows, r, p, n
<1>11. Pulled' = Pulled + n
  BY <1>3, <1>4, <1>8, <1>9
<1>12. Last(rows) = outbox[Pulled + n] /\ Pulled + n \in 1..Len(outbox)
  BY <1>2, <1>3, <1>4, <1>10
<1>13. Last(rows).sequence = SequenceAt(Pulled + n) /\ Last(rows).sequence \in Nat
  <2>1. SequenceAt(Pulled + n) \in Nat
    BY <1>12, WrittenFacts DEF ReplayInv
  <2> QED BY <1>4, <1>12, <2>1 DEF SequenceAt
<1>14. ASSUME NEW i \in 1..Len(pending)
       PROVE  pending[i] = outbox[r + i]
  <2>1. CASE i <= p
    <3>1. i \in 1..p /\ i \in 1..(p + n)
      BY <2>1, <1>3, <1>4, <1>8, <1>14
    <3>2. pending[i] = op.pending[i] /\ op.pending[i] = outbox[r + i]
      BY ONLY <2>1, <3>1, <1>5, <1>8
    <3> QED BY ONLY <3>2
  <2>2. CASE i > p
    <3>1. i - p \in 1..n /\ Pulled + (i - p) = r + i
      BY <2>2, <1>3, <1>4, <1>8, <1>14
    <3>2. pending[i] = rows[i - p]
      BY <2>2, <1>3, <1>4, <1>8, <1>14
    <3> QED BY <3>1, <3>2, <1>2
  <2> QED BY <2>1, <2>2, <1>3, <1>4, <1>8, <1>14
<1>15. PendingAreRows'
  <2>1. op'.cursor = (SequenceAt(Pulled))'
    BY <1>1, <1>7, <1>11, <1>13 DEF SequenceAt
  <2>2. Pulled' <= Len(outbox')
    BY <1>1, <1>2, <1>11
  <2>3. \A i \in 1..Len(op'.pending) : op'.pending[i] = outbox'[Len(receipts') + i]
    BY <1>1, <1>7, <1>14 DEF r
  <2>4. op' \in [at : {"idle", "awaiting"}, cursor : Nat, pending : Seq(RowType)] /\ op'.at # "idle"
    BY <1>7, <1>8, <1>13
  <2> QED BY <2>1, <2>2, <2>3, <2>4 DEF PendingAreRows
<1>16. AcceptableIsNext'
  BY <1>1 DEF AcceptableIsNext, ClientAccepts, NoReply
<1> QED BY <1>1, <1>15, <1>16 DEF ReplayInv, Written, ReceiptsAreRows, SequenceAt

\* The empty page makes everything pending public at once.
LEMMA ReceiveLastPageStep ==
    ASSUME ReplayInv, ReceiveLastPage(reply)
    PROVE  ReplayInv'
<1> DEFINE more == ReceiptsOf(op.pending)
           next == receipts \o more
           r == Len(receipts)
           p == Len(op.pending)
<1>1. UNCHANGED <<outbox, healthy>> /\ hydrated' = TRUE /\ op' = Idle /\ reply' = NoReply
  BY DEF ReceiveLastPage
<1>2. receipts' = next
  BY DEF ReceiveLastPage, NextReceipts
<1>3. Len(outbox) \in Nat /\ r \in Nat /\ p \in Nat /\ Pulled = r + p /\ Pulled <= Len(outbox)
  BY WrittenFacts, PulledFacts DEF ReplayInv, Pulled
<1>4. op.pending \in Seq(RowType) /\ receipts \in Seq(ReceiptType)
  BY PulledFacts DEF ReplayInv, ReceiptsAreRows
<1>5. /\ \A i \in 1..r : receipts[i] = outbox[i].receipt
      /\ \A i \in 1..p : op.pending[i] = outbox[r + i]
  BY DEF ReplayInv, ReceiptsAreRows, PendingAreRows
<1>6. /\ more \in Seq(ReceiptType) /\ Len(more) = p
      /\ \A i \in 1..p : more[i] = op.pending[i].receipt
  <2>1. \A i \in 1..p : op.pending[i] \in RowType
    BY <1>4
  <2>2. \A i \in 1..p : op.pending[i].receipt \in ReceiptType
    BY <2>1 DEF RowType
  <2>3. more = [i \in 1..p |-> op.pending[i].receipt]
    BY <1>4 DEF ReceiptsOf
  <2> HIDE DEF p, more
  <2> QED BY <1>3, <2>2, <2>3, IsASeq
<1> HIDE DEF more
<1>7. /\ next \in Seq(ReceiptType) /\ Len(next) = r + p
      /\ \A i \in 1..(r + p) : next[i] = IF i <= r THEN receipts[i] ELSE more[i - r]
  <2>1. /\ receipts \o more \in Seq(ReceiptType) /\ Len(receipts \o more) = Len(receipts) + Len(more)
        /\ \A i \in 1..(Len(receipts) + Len(more)) :
              (receipts \o more)[i] = IF i <= Len(receipts) THEN receipts[i] ELSE more[i - Len(receipts)]
    <3>1. receipts \in Seq(ReceiptType) /\ more \in Seq(ReceiptType)
      BY <1>4, <1>6
    <3> QED BY ONLY <3>1, ConcatProperties
  <2> QED BY <2>1, <1>6
<1>8. op.pending = <<>> <=> p = 0
  BY <1>4, EmptySeq
<1>9. afterSequence' = IF p = 0 THEN SequenceAt(r) ELSE op.pending[p].sequence
  BY <1>8 DEF ReceiveLastPage, Last, ReplayInv, ReceiptsAreRows
<1> HIDE DEF next, r, p
<1>10. Len(receipts') = Pulled
  BY <1>2, <1>3, <1>7
<1>11. ASSUME NEW i \in 1..Pulled
       PROVE  next[i] = outbox[i].receipt
  <2>1. CASE i <= r
    BY <2>1, <1>3, <1>5, <1>7, <1>11
  <2>2. CASE i > r
    <3>1. i - r \in 1..p /\ r + (i - r) = i
      BY <2>2, <1>3, <1>11
    <3>2. next[i] = more[i - r]
      BY <2>2, <1>3, <1>7, <1>11
    <3> QED BY <3>1, <3>2, <1>5, <1>6
  <2> QED BY <2>1, <2>2, <1>3, <1>11
<1>12. afterSequence' = SequenceAt(Pulled)
  BY <1>3, <1>5, <1>9 DEF SequenceAt
<1>13. ReceiptsAreRows'
  <2>1. (SequenceAt(Len(receipts)))' = SequenceAt(Pulled)
    BY <1>1, <1>10 DEF SequenceAt
  <2> QED BY <1>1, <1>2, <1>3, <1>7, <1>10, <1>11, <1>12, <2>1 DEF ReceiptsAreRows
<1>14. PendingAreRows'
  <2>1. <<>> \in Seq(RowType) /\ Len(<<>>) = 0
    BY EmptySeq
  <2>2. op'.pending = <<>> /\ op'.at = "idle"
        /\ op' \in [at : {"idle", "awaiting"}, cursor : Nat, pending : Seq(RowType)]
    BY <1>1, <2>1 DEF Idle
  <2>3. Pulled' = Pulled
    BY <1>3, <1>10, <2>1, <2>2 DEF Pulled
  <2> QED BY <1>1, <1>3, <2>1, <2>2, <2>3 DEF PendingAreRows
<1>15. AcceptableIsNext'
  BY <1>1 DEF AcceptableIsNext, ClientAccepts, NoReply
<1> QED BY <1>1, <1>13, <1>14, <1>15 DEF ReplayInv, Written

-----------------------------------------------------------------------------
\* What a step of the runtime may do to the outbox and the projector.
ReplayStep ==
    \/ UNCHANGED replay
    \/ \E schema \in Schemas, gap \in 0..MaxGap : Commit(schema, gap)
    \/ \E after \in {0, op.cursor} : Misdeliver(after)
    \/ Disturb \/ Reconcile \/ Serve \/ Fail \/ ReceivePage(reply) \/ ReceiveLastPage(reply)

\* Each of them keeps the rows consecutive.
LEMMA ReplayStepKeepsRows ==
    ASSUME ReplayInv, ReplayStep
    PROVE  ReplayInv'
<1>1. CASE UNCHANGED replay
  BY <1>1 DEF replay, projector, ReplayInv, Written, ReceiptsAreRows, PendingAreRows,
              AcceptableIsNext, ClientAccepts, Pulled, SequenceAt
<1> QED
  BY <1>1, CommitStep, MisdeliverStep, DisturbStep, ReconcileStep, ServeStep, FailStep,
     ReceivePageStep, ReceiveLastPageStep DEF ReplayStep

\* Every step of the runtime is such a step.
LEMMA NextIsReplayStep ==
    ASSUME [Next]_vars
    PROVE  ReplayStep
<1>1. CASE UNCHANGED vars BY <1>1 DEF vars, ReplayStep
<1>2. CASE RuntimeStart \/ RuntimeClose BY <1>2 DEF RuntimeStart, RuntimeClose, ReplayStep
<1>3. CASE OutboxActs \/ OutboxServes BY <1>3 DEF OutboxActs, OutboxServes, ReplayStep
<1>4. CASE ProbeStarted BY <1>4 DEF ProbeStarted, ReplayStep
<1>5. CASE PullGoesOn BY <1>5 DEF PullGoesOn, ReplayStep
<1>6. PullFails => Fail
  BY DEF PullFails, Unavailable, ReceiveRefused, Aborted
<1>7. CASE HydrationFails BY <1>6, <1>7 DEF HydrationFails, ReplayStep
<1>8. CASE Hydrated BY <1>8 DEF Hydrated, ReplayStep
<1>9. CASE PullEnds BY <1>6, <1>9 DEF PullEnds, ReplayStep
<1>10. CASE TimerFires BY <1>10 DEF TimerFires, ReplayStep
<1>11. CASE PublicStarted \/ StartStopsChildren \/ StartSettles
  BY <1>11 DEF PublicStarted, StartStopsChildren, StartSettles, ReplayStep
<1>12. CASE CloseStopsChildren \/ CloseAwaits \/ CloseStopsAgain \/ CloseSettles
  BY <1>12 DEF CloseStopsChildren, CloseAwaits, CloseStopsAgain, CloseSettles, ReplayStep
<1>13. CASE \E l \in Listeners : ListenerRuns(l) \/ Traffic(l)
  BY <1>13 DEF ListenerRuns, Traffic, ReplayStep
<1> QED
  BY <1>1, <1>2, <1>3, <1>4, <1>5, <1>7, <1>8, <1>9, <1>10, <1>11, <1>12, <1>13
  DEF Next, Continues

\* A fresh projector has pulled nothing.
LEMMA ReplayInit == Init => ReplayInv
<1> SUFFICES ASSUME Init PROVE ReplayInv
  OBVIOUS
<1> USE DEF Init, BInit
<1>1. Written(outbox)
  BY OutboxAssumption
<1>2. <<>> \in Seq(RowType) /\ <<>> \in Seq(ReceiptType) /\ Len(<<>>) = 0
  BY EmptySeq
<1>3. op \in [at : {"idle", "awaiting"}, cursor : Nat, pending : Seq(RowType)] /\ op.pending = <<>>
      /\ op.at = "idle"
  BY <1>2 DEF Idle
<1>4. ReceiptsAreRows
  BY <1>1, <1>2, WrittenFacts DEF ReceiptsAreRows, SequenceAt
<1>5. PendingAreRows
  BY <1>1, <1>2, <1>3, WrittenFacts DEF PendingAreRows, Pulled
<1>6. AcceptableIsNext
  BY DEF AcceptableIsNext, ClientAccepts, NoReply
<1> QED BY <1>1, <1>4, <1>5, <1>6 DEF ReplayInv

\* Consecutive rows are a prefix, and each root and case has one receipt.
LEMMA RowsArePrefix == ReplayInv => ProjectionIsPrefix
<1> SUFFICES ASSUME ReplayInv PROVE ProjectionIsPrefix
  OBVIOUS
<1> USE WrittenFacts, PulledFacts DEF ReplayInv
<1> DEFINE n == Len(receipts)
           all == ReceiptsOf(outbox)
<1>1. receipts \in Seq(ReceiptType) /\ n \in Nat /\ DOMAIN receipts = 1..n
  BY DEF ReceiptsAreRows
<1>2. /\ all \in Seq(ReceiptType) /\ Len(all) = Len(outbox)
      /\ \A i \in 1..Len(outbox) : all[i] = outbox[i].receipt
  <2>1. \A i \in 1..Len(outbox) : outbox[i].receipt \in ReceiptType
    BY DEF RowType
  <2>2. all = [i \in 1..Len(outbox) |-> outbox[i].receipt]
    BY DEF ReceiptsOf
  <2> QED BY <2>1, <2>2, IsASeq
<1> HIDE DEF all
<1>3. IsPrefix(receipts, all)
  <2>1. /\ SubSeq(receipts, 1, n) \in Seq(ReceiptType) /\ Len(SubSeq(receipts, 1, n)) = n
        /\ \A i \in 1..n : SubSeq(receipts, 1, n)[i] = receipts[i]
    BY <1>1, SubSeqProperties
  <2>2. /\ SubSeq(all, 1, n) \in Seq(ReceiptType) /\ Len(SubSeq(all, 1, n)) = n
        /\ \A i \in 1..n : SubSeq(all, 1, n)[i] = all[i]
    <3>1. \A i \in 1..n : all[i] \in ReceiptType
      BY <1>1, <1>2
    <3> QED BY <1>1, <3>1, SubSeqProperties
  <2>3. \A i \in 1..n : SubSeq(receipts, 1, n)[i] = SubSeq(all, 1, n)[i]
    BY <2>1, <2>2, <1>2 DEF ReceiptsAreRows
  <2>4. SubSeq(receipts, 1, n) = SubSeq(all, 1, n)
    BY <2>1, <2>2, <2>3, SeqEqual
  <2> QED BY <1>1, <1>2, <2>4 DEF IsPrefix
<1>4. afterSequence = IF receipts = <<>> THEN 0 ELSE outbox[Len(receipts)].sequence
  BY <1>1, EmptySeq DEF ReceiptsAreRows, SequenceAt
<1>5. ASSUME hydrated, NEW r \in Range(receipts), NEW q \in {Read("root", r.root), Read("case", r.caseId)}
      PROVE  PublicAnswer(q) = [status |-> 200, receipt |-> r]
  <2>1. \A i \in 1..n : /\ VerifyReceipt(receipts[i])
                        /\ receipts[i].root = i /\ receipts[i].caseId = i
    <3> SUFFICES ASSUME NEW i \in 1..n
                 PROVE  /\ VerifyReceipt(receipts[i])
                        /\ receipts[i].root = i /\ receipts[i].caseId = i
      OBVIOUS
    <3>1. i \in 1..Len(outbox) /\ receipts[i] = outbox[i].receipt
      BY DEF ReceiptsAreRows
    <3> QED BY <3>1 DEF Written
  <2>2. PICK i \in 1..n : r = receipts[i]
    BY <1>1, <1>5 DEF Range
  <2>3. q.clean /\ q.method = "GET" /\ q.kind \in {"root", "case"} /\ q.value = i
    BY <2>1, <2>2, <1>5 DEF Read
  <2>4. Found(q) = {r}
    <3>1. r \in Found(q)
      BY <2>1, <2>2, <2>3, <1>5 DEF Found
    <3>2. ASSUME NEW s \in Found(q) PROVE s = r
      <4>1. PICK j \in 1..n : s = receipts[j]
        BY <3>2, <1>1 DEF Found, Range
      <4>2. j = i
        BY <4>1, <3>2, <2>1, <2>3 DEF Found
      <4> QED BY <4>1, <4>2, <2>2
    <3> QED BY <3>1, <3>2
  <2>5. (CHOOSE s \in Found(q) : TRUE) = r
    BY <2>4
  <2>6. Found(q) # {}
    BY ONLY <2>4
  <2>7. VerifyReceipt(r)
    BY ONLY <2>1, <2>2
  <2> QED BY <2>3, <2>5, <2>6, <2>7, <1>5 DEF PublicAnswer
<1> QED BY <1>3, <1>4, <1>5 DEF ProjectionIsPrefix, all

\* For every page size, every number of rows and every order of admissions,
\* outages, late and damaged replies: the projection is a beginning of the
\* outbox, its cursor is its last row, and each receipt in it is the answer to
\* a read of its root and of its case.
THEOREM ProjectionHasNoHole == Spec => []ProjectionIsPrefix
<1>1. ReplayInv /\ [Next]_vars => ReplayInv'
  BY ReplayStepKeepsRows, NextIsReplayStep
<1> QED BY <1>1, ReplayInit, RowsArePrefix, PTL DEF Spec

-----------------------------------------------------------------------------
\* The runtime's own variables.  start and close take only their own places.
PlacesOK ==
    /\ runtimePhase \in {"new", "starting", "ready", "degraded", "draining", "failed", "stopped"}
    /\ startAt \in Places \ {"awaitStart", "stopAgain", "closed"}
    /\ closeAt \in Places \ {"probe", "hydrate", "public", "failed", "rejected"}
FlagsOK ==
    /\ outboxAvailable \in BOOLEAN /\ closingRequested \in BOOLEAN /\ timer \in BOOLEAN
    /\ reconciling \in BOOLEAN /\ publicLifecycle \in BOOLEAN
ScalarsOK == PlacesOK /\ FlagsOK

StartStops == startAt \in {"stopPublic", "stopProbe", "failed", "rejected"}

\* Until start or close stops children none is asked to close; the probe is
\* bound before the outbox is read, and the public child does not exist before.
ChildrenOK ==
    /\ closingRequested <=> closeAt # "none"
    /\ startAt # "none" \/ closeAt # "none" => runtimePhase # "new"
    /\ closeAt = "none" /\ ~StartStops => \A l \in Listeners : closeState[l] = "none"
    /\ startAt \in {"hydrate", "public"} => startState["probe"] = "resolved"
    /\ ~publicLifecycle => phase["public"] = "new"

\* A pull under way belongs to start or to the timer's callback, and the timer
\* is armed only while the runtime serves.
PullsOK ==
    /\ op.at = "awaiting" => reconciling \/ startAt = "hydrate"
    /\ reconciling => startAt = "resolved"
    /\ timer => Serving
    /\ startAt = "public" => hydrated

ServingOK ==
    runtimePhase \in {"ready", "degraded"} =>
        /\ ~closingRequested /\ startAt = "resolved"
        /\ phase["probe"] = "ready" /\ phase["public"] = "ready"
        /\ hydrated /\ (timer <=> ~reconciling)
        /\ runtimePhase = "ready" => outboxAvailable

\* What close has behind it when it is at a place.
CloseOK ==
    /\ closeAt \in {"awaitStart", "stopAgain", "closed", "resolved"} => closeState["probe"] = "done"
    /\ closeAt \in {"stopAgain", "closed", "resolved"} => StartSettled /\ ~reconciling
    /\ closeAt \in {"closed", "resolved"} => ~publicLifecycle \/ closeState["public"] = "done"
    /\ closeAt = "resolved" => runtimePhase = "stopped"

RuntimeOK == ScalarsOK /\ ChildrenOK /\ PullsOK /\ ServingOK /\ CloseOK
IInv == RTypeOK /\ ListenersOK /\ ReplayInv /\ RuntimeOK

\* The runtime has two listeners, and they differ.
LEMMA TwoListeners == Listeners = {"probe", "public"} /\ "probe" \in Listeners /\ "public" \in Listeners
BY ChildrenAssumption

\* What the steps of a pull do to it and to the projector.
LEMMA PullFacts ==
    ASSUME ReplayInv
    PROVE  /\ PullFails => op'.at = "idle" /\ hydrated' = hydrated
           /\ ReceiveLastPage(reply) => op'.at = "idle" /\ hydrated' = TRUE
           /\ ReceivePage(reply) => op'.at = op.at /\ hydrated' = hydrated
           /\ Reconcile => op'.at = "awaiting" /\ hydrated' = hydrated
           /\ UNCHANGED replay => op'.at = op.at /\ hydrated' = hydrated
<1>1. PullFails => op'.at = "idle" /\ hydrated' = hydrated
  BY DEF PullFails, Unavailable, ReceiveRefused, Aborted, Fail, Idle, projector
<1>2. ReceiveLastPage(reply) => op'.at = "idle" /\ hydrated' = TRUE
  BY DEF ReceiveLastPage, Idle
<1>3. ReceivePage(reply) => op'.at = op.at /\ hydrated' = hydrated
  <2> SUFFICES ASSUME ReceivePage(reply) PROVE op'.at = op.at /\ hydrated' = hydrated
    OBVIOUS
  <2>1. op \in [at : {"idle", "awaiting"}, cursor : Nat, pending : Seq(RowType)]
    BY DEF ReplayInv, PendingAreRows
  <2>2. hydrated' = hydrated
    BY DEF ReceivePage, projector
  <2>3. op' = [op EXCEPT !.cursor = Last(reply.entries).sequence, !.pending = @ \o reply.entries]
    BY DEF ReceivePage
  <2> QED BY <2>1, <2>2, <2>3
<1>4. Reconcile => op'.at = "awaiting" /\ hydrated' = hydrated
  BY DEF Reconcile, projector
<1>5. UNCHANGED replay => op'.at = op.at /\ hydrated' = hydrated
  BY DEF replay, projector
<1> QED BY <1>1, <1>2, <1>3, <1>4, <1>5

\* The probe's bind has settled: start reads the outbox, or rolls back.
LEMMA ProbeStartedStep ==
    ASSUME IInv, ProbeStarted
    PROVE  RTypeOK' /\ ListenersOK' /\ RuntimeOK'
<1> USE TwoListeners DEF ProbeStarted, StartFails, Settled, IInv, RuntimeOK
<1>1. RTypeOK' /\ ListenersOK' /\ Quiet
  BY UnchangedIsQuiet
<1>2. ReplayInv
  OBVIOUS
<1>3. ScalarsOK'
  <2>1. PlacesOK'
    BY DEF ScalarsOK, PlacesOK, Places
  <2>2. FlagsOK'
    BY DEF ScalarsOK, FlagsOK
  <2> QED BY <2>1, <2>2 DEF ScalarsOK
<1>4. ChildrenOK'
  BY <1>1, <1>2, PullFacts DEF ChildrenOK, ScalarsOK, PlacesOK, FlagsOK, StartStops, Quiet
<1>5. PullsOK'
  BY <1>1, <1>2, PullFacts DEF PullsOK, ChildrenOK, ServingOK, ScalarsOK, PlacesOK, FlagsOK, Serving
<1>6. ServingOK'
  BY <1>1, <1>2, PullFacts DEF ServingOK, ChildrenOK, PullsOK, ScalarsOK, PlacesOK, FlagsOK, Serving, Quiet
<1>7. CloseOK'
  BY <1>1, <1>2, PullFacts DEF CloseOK, ChildrenOK, PullsOK, ScalarsOK, PlacesOK, FlagsOK, StartSettled, Serving, Quiet
<1> QED BY <1>1, <1>3, <1>4, <1>5, <1>6, <1>7

\* A page of several: nothing of the runtime changes.
LEMMA PullGoesOnStep ==
    ASSUME IInv, PullGoesOn
    PROVE  RTypeOK' /\ ListenersOK' /\ RuntimeOK'
<1> USE TwoListeners DEF PullGoesOn, runtime, IInv, RuntimeOK
<1>1. RTypeOK' /\ ListenersOK' /\ Quiet
  BY UnchangedIsQuiet
<1>2. ReplayInv
  OBVIOUS
<1>3. ScalarsOK'
  <2>1. PlacesOK'
    BY DEF ScalarsOK, PlacesOK, Places
  <2>2. FlagsOK'
    BY DEF ScalarsOK, FlagsOK
  <2> QED BY <2>1, <2>2 DEF ScalarsOK
<1>4. ChildrenOK'
  BY <1>1, <1>2, PullFacts DEF ChildrenOK, ScalarsOK, PlacesOK, FlagsOK, StartStops, Quiet
<1>5. PullsOK'
  BY <1>1, <1>2, PullFacts DEF PullsOK, ChildrenOK, ServingOK, ScalarsOK, PlacesOK, FlagsOK, Serving
<1>6. ServingOK'
  BY <1>1, <1>2, PullFacts DEF ServingOK, ChildrenOK, PullsOK, ScalarsOK, PlacesOK, FlagsOK, Serving, Quiet
<1>7. CloseOK'
  BY <1>1, <1>2, PullFacts DEF CloseOK, ChildrenOK, PullsOK, ScalarsOK, PlacesOK, FlagsOK, StartSettled, Serving, Quiet
<1> QED BY <1>1, <1>3, <1>4, <1>5, <1>6, <1>7

\* The first pull failed: start rolls back.
LEMMA HydrationFailsStep ==
    ASSUME IInv, HydrationFails
    PROVE  RTypeOK' /\ ListenersOK' /\ RuntimeOK'
<1> USE TwoListeners DEF HydrationFails, StartFails, IInv, RuntimeOK
<1>1. RTypeOK' /\ ListenersOK' /\ Quiet
  BY UnchangedIsQuiet
<1>2. ReplayInv
  OBVIOUS
<1>3. ScalarsOK'
  <2>1. PlacesOK'
    BY DEF ScalarsOK, PlacesOK, Places
  <2>2. FlagsOK'
    BY DEF ScalarsOK, FlagsOK
  <2> QED BY <2>1, <2>2 DEF ScalarsOK
<1>4. ChildrenOK'
  BY <1>1, <1>2, PullFacts DEF ChildrenOK, ScalarsOK, PlacesOK, FlagsOK, StartStops, Quiet
<1>5. PullsOK'
  BY <1>1, <1>2, PullFacts DEF PullsOK, ChildrenOK, ServingOK, ScalarsOK, PlacesOK, FlagsOK, Serving
<1>6. ServingOK'
  BY <1>1, <1>2, PullFacts DEF ServingOK, ChildrenOK, PullsOK, ScalarsOK, PlacesOK, FlagsOK, Serving, Quiet
<1>7. CloseOK'
  BY <1>1, <1>2, PullFacts DEF CloseOK, ChildrenOK, PullsOK, ScalarsOK, PlacesOK, FlagsOK, StartSettled, Serving, Quiet
<1> QED BY <1>1, <1>3, <1>4, <1>5, <1>6, <1>7

\* The public bind has settled: the runtime serves, unless close came.
LEMMA PublicStartedStep ==
    ASSUME IInv, PublicStarted
    PROVE  RTypeOK' /\ ListenersOK' /\ RuntimeOK'
<1> USE TwoListeners DEF PublicStarted, StartFails, BecomeReady, Settled, IInv, RuntimeOK
<1>1. RTypeOK' /\ ListenersOK' /\ Quiet
  BY UnchangedIsQuiet
<1>2. ReplayInv
  OBVIOUS
<1>3. ScalarsOK'
  <2>1. PlacesOK'
    BY DEF ScalarsOK, PlacesOK, Places
  <2>2. FlagsOK'
    BY DEF ScalarsOK, FlagsOK
  <2> QED BY <2>1, <2>2 DEF ScalarsOK
<1>4. ChildrenOK'
  BY <1>1, <1>2, PullFacts DEF ChildrenOK, ScalarsOK, PlacesOK, FlagsOK, StartStops, Quiet
<1>5. PullsOK'
  BY <1>1, <1>2, PullFacts DEF PullsOK, ChildrenOK, ServingOK, ScalarsOK, PlacesOK, FlagsOK, Serving
<1>6. ServingOK'
  <2>1. runtimePhase \notin {"ready", "degraded"}
    BY DEF ServingOK
  <2>2. CASE startState["public"] = "rejected" \/ closingRequested
    <3>1. startState["public"] = "rejected" => StartFails
      OBVIOUS
    <3> QED BY <2>1, <2>2, <3>1 DEF ServingOK
  <2>3. CASE startState["public"] = "resolved" /\ ~closingRequested
    <3>1. startState["probe"] = "resolved" /\ closeState["probe"] = "none" /\ closeState["public"] = "none"
      BY <2>3 DEF ChildrenOK, StartStops
    <3>2. phase["probe"] = "ready" /\ phase["public"] = "ready"
      BY <2>3, <3>1 DEF ListenersOK, ListenerOK, RTypeOK
    <3>3. phase'["probe"] = "ready" /\ phase'["public"] = "ready"
      BY <1>1, <3>2 DEF Quiet
    <3>4. hydrated' /\ ~reconciling'
      BY <1>2, PullFacts DEF PullsOK
    <3>5. timer' /\ outboxAvailable' /\ ~closingRequested' /\ startAt' = "resolved"
      BY <2>3
    <3> QED BY <3>3, <3>4, <3>5 DEF ServingOK
  <2> QED BY <2>2, <2>3
<1>7. CloseOK'
  BY <1>1, <1>2, PullFacts DEF CloseOK, ChildrenOK, PullsOK, ScalarsOK, PlacesOK, FlagsOK, StartSettled, Serving, Quiet
<1> QED BY <1>1, <1>3, <1>4, <1>5, <1>6, <1>7

\* start reports that it was cut short, or failed.
LEMMA StartSettlesStep ==
    ASSUME IInv, StartSettles
    PROVE  RTypeOK' /\ ListenersOK' /\ RuntimeOK'
<1> USE TwoListeners DEF StartSettles, IInv, RuntimeOK
<1>1. RTypeOK' /\ ListenersOK' /\ Quiet
  BY UnchangedIsQuiet
<1>2. ReplayInv
  OBVIOUS
<1>3. ScalarsOK'
  <2>1. PlacesOK'
    BY DEF ScalarsOK, PlacesOK, Places
  <2>2. FlagsOK'
    BY DEF ScalarsOK, FlagsOK
  <2> QED BY <2>1, <2>2 DEF ScalarsOK
<1>4. ChildrenOK'
  BY <1>1, <1>2, PullFacts DEF ChildrenOK, ScalarsOK, PlacesOK, FlagsOK, StartStops, Quiet
<1>5. PullsOK'
  BY <1>1, <1>2, PullFacts DEF PullsOK, ChildrenOK, ServingOK, ScalarsOK, PlacesOK, FlagsOK, Serving
<1>6. ServingOK'
  BY <1>1, <1>2, PullFacts DEF ServingOK, ChildrenOK, PullsOK, ScalarsOK, PlacesOK, FlagsOK, Serving, Quiet
<1>7. CloseOK'
  BY <1>1, <1>2, PullFacts DEF CloseOK, ChildrenOK, PullsOK, ScalarsOK, PlacesOK, FlagsOK, StartSettled, Serving, Quiet
<1> QED BY <1>1, <1>3, <1>4, <1>5, <1>6, <1>7

\* The armed timer becomes the pull under way.
LEMMA TimerFiresStep ==
    ASSUME IInv, TimerFires
    PROVE  RTypeOK' /\ ListenersOK' /\ RuntimeOK'
<1> USE TwoListeners DEF TimerFires, IInv, RuntimeOK
<1>1. RTypeOK' /\ ListenersOK' /\ Quiet
  BY UnchangedIsQuiet
<1>2. ReplayInv
  OBVIOUS
<1>3. ScalarsOK'
  <2>1. PlacesOK'
    BY DEF ScalarsOK, PlacesOK, Places
  <2>2. FlagsOK'
    BY DEF ScalarsOK, FlagsOK
  <2> QED BY <2>1, <2>2 DEF ScalarsOK
<1>4. ChildrenOK'
  BY <1>1, <1>2, PullFacts DEF ChildrenOK, ScalarsOK, PlacesOK, FlagsOK, StartStops, Quiet
<1>5. PullsOK'
  BY <1>1, <1>2, PullFacts DEF PullsOK, ChildrenOK, ServingOK, ScalarsOK, PlacesOK, FlagsOK, Serving
<1>6. ServingOK'
  BY <1>1, <1>2, PullFacts DEF ServingOK, ChildrenOK, PullsOK, ScalarsOK, PlacesOK, FlagsOK, Serving, Quiet
<1>7. CloseOK'
  BY <1>1, <1>2, PullFacts DEF CloseOK, ChildrenOK, PullsOK, ScalarsOK, PlacesOK, FlagsOK, StartSettled, Serving, Quiet
<1> QED BY <1>1, <1>3, <1>4, <1>5, <1>6, <1>7

\* A pull's outcome counts, and arms the timer, only while nothing closes.
LEMMA PullEndsStep ==
    ASSUME IInv, PullEnds
    PROVE  RTypeOK' /\ ListenersOK' /\ RuntimeOK'
<1> USE TwoListeners DEF PullEnds, SetHealth, ScheduleReconcile, IInv, RuntimeOK
<1>1. RTypeOK' /\ ListenersOK' /\ Quiet
  BY UnchangedIsQuiet
<1>2. ReplayInv
  OBVIOUS
<1>3. ScalarsOK'
  <2>1. PlacesOK'
    BY DEF ScalarsOK, PlacesOK, Places
  <2>2. FlagsOK'
    BY DEF ScalarsOK, FlagsOK
  <2> QED BY <2>1, <2>2 DEF ScalarsOK
<1>4. ChildrenOK'
  BY <1>1, <1>2, PullFacts DEF ChildrenOK, ScalarsOK, PlacesOK, FlagsOK, StartStops, Quiet
<1>5. PullsOK'
  BY <1>1, <1>2, PullFacts DEF PullsOK, ChildrenOK, ServingOK, ScalarsOK, PlacesOK, FlagsOK, Serving
<1>6. ServingOK'
  BY <1>1, <1>2, PullFacts DEF ServingOK, ChildrenOK, PullsOK, ScalarsOK, PlacesOK, FlagsOK, Serving, Quiet
<1>7. CloseOK'
  BY <1>1, <1>2, PullFacts DEF CloseOK, ChildrenOK, PullsOK, ScalarsOK, PlacesOK, FlagsOK, StartSettled, Serving, Quiet
<1> QED BY <1>1, <1>3, <1>4, <1>5, <1>6, <1>7

\* close disarms the timer and takes the phase away from serving.
LEMMA RuntimeCloseStep ==
    ASSUME IInv, RuntimeClose
    PROVE  RTypeOK' /\ ListenersOK' /\ RuntimeOK'
<1> USE TwoListeners DEF RuntimeClose, IInv, RuntimeOK
<1>1. RTypeOK' /\ ListenersOK' /\ Quiet
  BY UnchangedIsQuiet
<1>2. ReplayInv
  OBVIOUS
<1>3. ScalarsOK'
  <2>1. PlacesOK'
    BY DEF ScalarsOK, PlacesOK, Places
  <2>2. FlagsOK'
    BY DEF ScalarsOK, FlagsOK
  <2> QED BY <2>1, <2>2 DEF ScalarsOK
<1>4. ChildrenOK'
  BY <1>1, <1>2, PullFacts DEF ChildrenOK, ScalarsOK, PlacesOK, FlagsOK, StartStops, Quiet
<1>5. PullsOK'
  BY <1>1, <1>2, PullFacts DEF PullsOK, ChildrenOK, ServingOK, ScalarsOK, PlacesOK, FlagsOK, Serving
<1>6. ServingOK'
  BY <1>1, <1>2, PullFacts DEF ServingOK, ChildrenOK, PullsOK, ScalarsOK, PlacesOK, FlagsOK, Serving, Quiet
<1>7. CloseOK'
  BY <1>1, <1>2, PullFacts DEF CloseOK, ChildrenOK, PullsOK, ScalarsOK, PlacesOK, FlagsOK, StartSettled, Serving, Quiet
<1> QED BY <1>1, <1>3, <1>4, <1>5, <1>6, <1>7

\* close goes on when start and the pull are over.
LEMMA CloseAwaitsStep ==
    ASSUME IInv, CloseAwaits
    PROVE  RTypeOK' /\ ListenersOK' /\ RuntimeOK'
<1> USE TwoListeners DEF CloseAwaits, IInv, RuntimeOK
<1>1. RTypeOK' /\ ListenersOK' /\ Quiet
  BY UnchangedIsQuiet
<1>2. ReplayInv
  OBVIOUS
<1>3. ScalarsOK'
  <2>1. PlacesOK'
    BY DEF ScalarsOK, PlacesOK, Places
  <2>2. FlagsOK'
    BY DEF ScalarsOK, FlagsOK
  <2> QED BY <2>1, <2>2 DEF ScalarsOK
<1>4. ChildrenOK'
  BY <1>1, <1>2, PullFacts DEF ChildrenOK, ScalarsOK, PlacesOK, FlagsOK, StartStops, Quiet
<1>5. PullsOK'
  BY <1>1, <1>2, PullFacts DEF PullsOK, ChildrenOK, ServingOK, ScalarsOK, PlacesOK, FlagsOK, Serving
<1>6. ServingOK'
  BY <1>1, <1>2, PullFacts DEF ServingOK, ChildrenOK, PullsOK, ScalarsOK, PlacesOK, FlagsOK, Serving, Quiet
<1>7. CloseOK'
  BY <1>1, <1>2, PullFacts DEF CloseOK, ChildrenOK, PullsOK, ScalarsOK, PlacesOK, FlagsOK, StartSettled, Serving, Quiet
<1> QED BY <1>1, <1>3, <1>4, <1>5, <1>6, <1>7

\* close resolves as the last thing.
LEMMA CloseSettlesStep ==
    ASSUME IInv, CloseSettles
    PROVE  RTypeOK' /\ ListenersOK' /\ RuntimeOK'
<1> USE TwoListeners DEF CloseSettles, IInv, RuntimeOK
<1>1. RTypeOK' /\ ListenersOK' /\ Quiet
  BY UnchangedIsQuiet
<1>2. ReplayInv
  OBVIOUS
<1>3. ScalarsOK'
  <2>1. PlacesOK'
    BY DEF ScalarsOK, PlacesOK, Places
  <2>2. FlagsOK'
    BY DEF ScalarsOK, FlagsOK
  <2> QED BY <2>1, <2>2 DEF ScalarsOK
<1>4. ChildrenOK'
  BY <1>1, <1>2, PullFacts DEF ChildrenOK, ScalarsOK, PlacesOK, FlagsOK, StartStops, Quiet
<1>5. PullsOK'
  BY <1>1, <1>2, PullFacts DEF PullsOK, ChildrenOK, ServingOK, ScalarsOK, PlacesOK, FlagsOK, Serving
<1>6. ServingOK'
  BY <1>1, <1>2, PullFacts DEF ServingOK, ChildrenOK, PullsOK, ScalarsOK, PlacesOK, FlagsOK, Serving, Quiet
<1>7. CloseOK'
  BY <1>1, <1>2, PullFacts DEF CloseOK, ChildrenOK, PullsOK, ScalarsOK, PlacesOK, FlagsOK, StartSettled, Serving, Quiet
<1> QED BY <1>1, <1>3, <1>4, <1>5, <1>6, <1>7

\* start binds the probe.
LEMMA RuntimeStartStep ==
    ASSUME IInv, RuntimeStart
    PROVE  RTypeOK' /\ ListenersOK' /\ RuntimeOK'
<1> USE TwoListeners DEF RuntimeStart, IInv, RuntimeOK
<1>1. /\ RTypeOK' /\ ListenersOK' /\ closeState' = closeState
      /\ phase'["public"] = phase["public"] /\ startState'["public"] = startState["public"]
  BY StartKeepsListeners
<1>2. closeAt = "none" /\ runtimePhase = "new"
  BY DEF ChildrenOK
<1>3. op'.at = op.at /\ hydrated' = hydrated
  BY PullFacts
<1>4. ScalarsOK'
  BY DEF ScalarsOK, PlacesOK, FlagsOK, Places
<1>5. ChildrenOK'
  BY <1>1, <1>2 DEF ChildrenOK, StartStops
<1>6. PullsOK'
  BY <1>2, <1>3 DEF PullsOK, Serving
<1>7. ServingOK' /\ CloseOK'
  BY <1>2 DEF ServingOK, CloseOK
<1> QED BY <1>1, <1>4, <1>5, <1>6, <1>7

\* The projector is hydrated: the public child is bound, unless close came.
LEMMA HydratedStep ==
    ASSUME IInv, Hydrated
    PROVE  RTypeOK' /\ ListenersOK' /\ RuntimeOK'
<1> USE TwoListeners DEF Hydrated, IInv, RuntimeOK
<1>1. op'.at = "idle" /\ hydrated' = TRUE
  BY PullFacts
<1>2. /\ RTypeOK' /\ ListenersOK' /\ closeState' = closeState
      /\ startState'["probe"] = startState["probe"]
      /\ closingRequested => phase' = phase
  <2>1. CASE UNCHANGED lifecycle
    BY <2>1, UnchangedIsQuiet DEF lifecycle
  <2>2. CASE ~closingRequested /\ Start("public")
    BY <2>2, StartKeepsListeners
  <2> QED BY <2>1, <2>2
<1>3. runtimePhase \notin {"ready", "degraded"} /\ runtimePhase' = runtimePhase
  BY DEF ServingOK
<1>4. ScalarsOK'
  BY DEF ScalarsOK, PlacesOK, FlagsOK, Places
<1>5. ChildrenOK'
  BY <1>2 DEF ChildrenOK, StartStops
<1>6. PullsOK'
  BY <1>1, <1>3 DEF PullsOK, Serving
<1>7. ServingOK'
  BY <1>3 DEF ServingOK
<1>8. CloseOK'
  BY <1>2, <1>3 DEF CloseOK, ChildrenOK, StartSettled
<1> QED BY <1>2, <1>4, <1>5, <1>6, <1>7, <1>8

\* stopChildren closes one child or waits: the children that are closed stay
\* closed, and no other state of a child changes.
LEMMA StopEffect ==
    ASSUME RTypeOK, ListenersOK,
           \/ UNCHANGED lifecycle
           \/ publicLifecycle /\ Close("public")
           \/ Close("probe"),
           ~publicLifecycle => phase["public"] = "new"
    PROVE  /\ RTypeOK' /\ ListenersOK' /\ startState' = startState
           /\ \A l \in Listeners : closeState[l] = "done" => closeState'[l] = "done"
           /\ ~publicLifecycle => phase'["public"] = "new"
<1> USE TwoListeners
<1>1. CASE UNCHANGED lifecycle
  BY <1>1, UnchangedIsQuiet DEF lifecycle
<1>2. CASE publicLifecycle /\ Close("public")
  BY <1>2, CloseKeepsListeners
<1>3. CASE Close("probe")
  BY <1>3, CloseKeepsListeners
<1> QED BY <1>1, <1>2, <1>3

\* The rollback of start.
LEMMA StartStopsChildrenStep ==
    ASSUME IInv, StartStopsChildren
    PROVE  RTypeOK' /\ ListenersOK' /\ RuntimeOK'
<1> USE TwoListeners DEF StartStopsChildren, IInv, RuntimeOK
<1>1. /\ startAt \in {"stopPublic", "stopProbe"} /\ startAt' \in {"stopPublic", "stopProbe", "failed"}
      /\ \/ UNCHANGED lifecycle
         \/ publicLifecycle /\ Close("public")
         \/ Close("probe")
  BY DEF StopPublic, StopProbe
<1>2. /\ RTypeOK' /\ ListenersOK' /\ startState' = startState
      /\ \A l \in Listeners : closeState[l] = "done" => closeState'[l] = "done"
      /\ ~publicLifecycle => phase'["public"] = "new"
  BY <1>1, StopEffect DEF ChildrenOK
<1>3. op'.at = op.at /\ hydrated' = hydrated
  BY PullFacts
<1>4. runtimePhase \notin {"ready", "degraded"}
  BY <1>1 DEF ServingOK
<1>5. ScalarsOK'
  BY <1>1 DEF ScalarsOK, PlacesOK, FlagsOK, Places
<1>6. ChildrenOK'
  BY <1>1, <1>2 DEF ChildrenOK, StartStops
<1>7. PullsOK'
  BY <1>1, <1>3 DEF PullsOK, Serving
<1>8. ServingOK'
  BY <1>4 DEF ServingOK
<1>9. CloseOK'
  BY <1>1, <1>2 DEF CloseOK, StartSettled
<1> QED BY <1>2, <1>5, <1>6, <1>7, <1>8, <1>9

\* The shutdown of close, both times round.
LEMMA CloseStopsStep ==
    ASSUME IInv, CloseStopsChildren \/ CloseStopsAgain
    PROVE  RTypeOK' /\ ListenersOK' /\ RuntimeOK'
<1> USE TwoListeners DEF IInv, RuntimeOK
<1>1. /\ closeAt \in {"stopPublic", "stopProbe", "stopAgain"}
      /\ closeAt' \in {"stopPublic", "stopProbe", "awaitStart", "stopAgain", "closed"}
      /\ closeAt' \in {"awaitStart", "stopAgain", "closed"} => closeState["probe"] = "done"
      /\ closeAt' \in {"stopAgain", "closed"} => closeAt = "stopAgain"
      /\ closeAt' = "closed" => ~publicLifecycle \/ closeState["public"] = "done"
      /\ \/ UNCHANGED lifecycle
         \/ publicLifecycle /\ Close("public")
         \/ Close("probe")
  <2>1. CASE CloseStopsChildren
    BY <2>1 DEF CloseStopsChildren, StopPublic, StopProbe
  <2>2. CASE CloseStopsAgain
    BY <2>2 DEF CloseStopsAgain, StopPublic, CloseOK
  <2> QED BY <2>1, <2>2
<1>2. UNCHANGED <<runtimePhase, outboxAvailable, closingRequested, startAt, timer,
                  reconciling, publicLifecycle, replay>>
  BY DEF CloseStopsChildren, CloseStopsAgain
<1>3. /\ RTypeOK' /\ ListenersOK' /\ startState' = startState
      /\ \A l \in Listeners : closeState[l] = "done" => closeState'[l] = "done"
      /\ ~publicLifecycle => phase'["public"] = "new"
  BY <1>1, StopEffect DEF ChildrenOK
<1>4. op'.at = op.at /\ hydrated' = hydrated
  BY <1>2, PullFacts
<1>5. runtimePhase \notin {"ready", "degraded"} /\ closingRequested
  BY <1>1 DEF ServingOK, ChildrenOK
<1>6. ScalarsOK'
  BY <1>1, <1>2 DEF ScalarsOK, PlacesOK, FlagsOK, Places
<1>7. ChildrenOK'
  BY <1>1, <1>2, <1>3, <1>5 DEF ChildrenOK, StartStops
<1>8. PullsOK'
  BY <1>2, <1>4 DEF PullsOK, Serving
<1>9. ServingOK'
  BY <1>2, <1>5 DEF ServingOK
<1>10. CloseOK'
  BY <1>1, <1>2, <1>3 DEF CloseOK, StartSettled
<1> QED BY <1>3, <1>6, <1>7, <1>8, <1>9, <1>10

\* What the outbox and the listeners do by themselves.
LEMMA OutsideStep ==
    ASSUME IInv,
           \/ OutboxActs \/ OutboxServes \/ UNCHANGED vars
           \/ \E l \in Listeners : ListenerRuns(l) \/ Traffic(l)
    PROVE  RTypeOK' /\ ListenersOK' /\ RuntimeOK'
<1> USE TwoListeners DEF IInv, RuntimeOK
<1>1. UNCHANGED runtime /\ op' = op /\ hydrated' = hydrated
  BY DEF OutboxActs, OutboxServes, vars, ListenerRuns, Traffic, Commit, Disturb, Misdeliver,
         Serve, replay, projector
<1>2. RTypeOK' /\ ListenersOK' /\ Quiet
  <2>1. CASE UNCHANGED lifecycle
    BY <2>1, UnchangedIsQuiet
  <2>2. CASE \E l \in Listeners : Runs(l) \/ Outside(l)
    BY <2>2, RunsKeepListeners
  <2> QED BY <2>1, <2>2 DEF OutboxActs, OutboxServes, vars, ListenerRuns, Traffic, Outside
<1>3. ScalarsOK' /\ PullsOK'
  BY <1>1 DEF ScalarsOK, PlacesOK, FlagsOK, PullsOK, Serving, runtime
<1>4. ChildrenOK'
  BY <1>1, <1>2 DEF ChildrenOK, StartStops, Quiet, runtime
<1>5. ServingOK' /\ CloseOK'
  BY <1>1, <1>2 DEF ServingOK, CloseOK, StartSettled, Quiet, runtime
<1> QED BY <1>2, <1>3, <1>4, <1>5

-----------------------------------------------------------------------------
\* Before start and close, nothing is bound and nothing is pulled.
LEMMA RuntimeInit == Init => IInv
<1> SUFFICES ASSUME Init PROVE IInv
  OBVIOUS
<1>1. RTypeOK /\ ListenersOK
  BY ListenersAtFirst DEF Init
<1>2. ReplayInv
  BY ReplayInit
<1>3. ScalarsOK
  BY DEF Init, ScalarsOK, PlacesOK, FlagsOK, Places
<1>4. ChildrenOK
  BY TwoListeners DEF Init, RInit, ChildrenOK, StartStops
<1>5. PullsOK /\ ServingOK /\ CloseOK
  BY DEF Init, BInit, Idle, PullsOK, ServingOK, CloseOK
<1> QED BY <1>1, <1>2, <1>3, <1>4, <1>5 DEF IInv, RuntimeOK

\* Every step of the runtime, its listeners and its outbox keeps the invariant.
LEMMA RuntimeStep == IInv /\ [Next]_vars => IInv'
<1> SUFFICES ASSUME IInv, [Next]_vars PROVE IInv'
  OBVIOUS
<1>1. ReplayInv'
  BY ReplayStepKeepsRows, NextIsReplayStep DEF IInv
<1>2. RTypeOK' /\ ListenersOK' /\ RuntimeOK'
  BY RuntimeStartStep, RuntimeCloseStep, ProbeStartedStep, PullGoesOnStep, HydrationFailsStep,
     HydratedStep, PublicStartedStep, StartStopsChildrenStep, StartSettlesStep, TimerFiresStep,
     PullEndsStep, CloseStopsStep, CloseAwaitsStep, CloseSettlesStep, OutsideStep
  DEF Next, Continues
<1> QED BY <1>1, <1>2 DEF IInv

\* The inductive invariant holds of every execution.
LEMMA Invariant == Spec => []IInv
BY RuntimeInit, RuntimeStep, PTL DEF Spec

\* Every variable of the runtime, its listeners and its projector keeps its type.
THEOREM TypeCorrect == Spec => []TypeOK
<1>1. IInv => TypeOK
  <2> SUFFICES ASSUME IInv PROVE TypeOK
    OBVIOUS
  <2>1. Written(outbox) /\ op \in [at : {"idle", "awaiting"}, cursor : Nat, pending : Seq(RowType)]
        /\ receipts \in Seq(ReceiptType) /\ healthy \in BOOLEAN /\ hydrated \in BOOLEAN
    BY DEF IInv, ReplayInv, ReceiptsAreRows, PendingAreRows
  <2>2. afterSequence \in Nat
    BY WrittenFacts, PulledFacts DEF IInv, ReplayInv, ReceiptsAreRows
  <2>3. op.pending \in Seq([sequence : Nat, receipt : ReceiptType])
    <3>1. RowType \subseteq [sequence : Nat, receipt : ReceiptType]
      BY DEF RowType
    <3>2. op.pending \in Seq(RowType)
      BY <2>1
    <3> QED BY <3>1, <3>2, SeqMonotonic
  <2>4. BTypeOK
    BY <2>1, <2>2, <2>3 DEF BTypeOK, Written
  <2> QED BY <2>4 DEF IInv, RuntimeOK, ScalarsOK, PlacesOK, FlagsOK, TypeOK
<1> QED BY <1>1, Invariant, PTL

\* Whatever start, close, the pulls, the binds and the drains race: a runtime
\* that reports ready or degraded serves a hydrated projection behind both
\* listeners with one pull scheduled or under way, and one whose close has
\* resolved has left nothing behind.
THEOREM ServingHolds == Spec => []ServingIsHonest
<1>1. IInv => ServingIsHonest
  <2> SUFFICES ASSUME IInv PROVE ServingIsHonest
    OBVIOUS
  <2> USE TwoListeners DEF IInv, RuntimeOK
  <2>1. ASSUME runtimePhase \in {"ready", "degraded"}
        PROVE  /\ server["public"] = "listening" /\ server["probe"] = "listening"
               /\ hydrated /\ timer # reconciling /\ ~closingRequested
               /\ Live
    <3>1. server["public"] = "listening" /\ server["probe"] = "listening"
      BY <2>1 DEF ServingOK, ListenersOK, ListenerOK
    <3>2. hydrated /\ timer # reconciling /\ ~closingRequested
      BY <2>1 DEF ServingOK
    <3>3. Live
      BY <2>1 DEF ServingOK, Live, HealthSnapshotValid, HealthReady
    <3> QED BY <3>1, <3>2, <3>3
  <2>2. ASSUME closeAt = "resolved"
        PROVE  /\ runtimePhase = "stopped" /\ ~timer /\ op = Idle /\ StartSettled
               /\ \A l \in Listeners : server[l] \notin {"listening", "closing"} /\ startState[l] # "binding"
    <3>1. runtimePhase = "stopped" /\ StartSettled /\ ~reconciling
      BY <2>2 DEF CloseOK
    <3>2. ~timer
      BY <3>1 DEF PullsOK, Serving
    <3>3. op.at # "awaiting" /\ op.at \in {"idle", "awaiting"}
      BY <3>1 DEF PullsOK, StartSettled, ReplayInv, PendingAreRows
    <3>4. op = Idle
      BY <3>3 DEF ReplayInv, PendingAreRows
    <3>5. \A l \in Listeners : closeState[l] = "done" \/ phase[l] = "new"
      BY <2>2 DEF CloseOK, ChildrenOK
    <3>6. \A l \in Listeners : server[l] \notin {"listening", "closing"} /\ startState[l] # "binding"
      BY <3>5 DEF ListenersOK, ListenerOK, RTypeOK
    <3> QED BY <3>1, <3>2, <3>4, <3>6
  <2> QED BY <2>1, <2>2 DEF ServingIsHonest
<1> QED BY <1>1, Invariant, PTL
=============================================================================
