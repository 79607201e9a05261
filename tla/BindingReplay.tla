----------------------------- MODULE BindingReplay -----------------------------
(***************************************************************************)
(* The public projection of the case-binding outbox and the HTTP replay    *)
(* that feeds it: the projector of src/src/case-binding-outbox-projector.ts*)
(* pulls pages through the client and the server of                        *)
(* src/src/credential-free-case-binding-outbox-{http-client,server}.ts and *)
(* serves what it has verified through                                     *)
(* src/src/public-case-binding-server.ts.                                  *)
(*                                                                         *)
(* The outbox grows while pages are under way.  A reply may be late, lost, *)
(* refused, damaged or another request's.  A receipt is its schema, its    *)
(* root, its case and whether its checksum matches; a page is what the     *)
(* wire format carries, not its bytes.  Roots and cases are numbered in    *)
(* the order of their rows.  Who pulls, and when, is PublicBindingRuntime. *)
(***************************************************************************)
EXTENDS Naturals, Sequences, SequencesExt, FiniteSets

CONSTANTS
    SyntheticCases,                 \* the rows that are synthetic cases
    PageSize,                       \* CASE_BINDING_OUTBOX_PAGE_SIZE
    MaxLimit,                       \* CREDENTIAL_FREE_CASE_BINDING_OUTBOX_MAX_LIMIT
    MaxReceipts,                    \* CASE_BINDING_OUTBOX_MAX_RECEIPTS
    MaxOutbox,                      \* bound: rows the outbox grows to
    MaxGap,                         \* bound: keys a rolled back insert may skip
    OutboxesAtStart                 \* what the outbox may hold by then

Rows == 1..MaxOutbox
Schemas == {"v1", "v2", "synthetic"}
ReceiptType == [schema : Schemas, root : Rows, caseId : Rows, intact : BOOLEAN]

ASSUME BoundsAssumption ==
    /\ PageSize \in Nat \ {0} /\ MaxLimit \in Nat /\ PageSize <= MaxLimit
    /\ MaxReceipts \in Nat /\ MaxOutbox \in Nat /\ MaxGap \in Nat
    /\ SyntheticCases \subseteq Rows

VARIABLES
    outbox,         \* rows of atomic_binding_outbox: <<[sequence, receipt]>>
    healthy,        \* the control process listens and the network delivers
    receipts,       \* projector: what the active projection was built from
    afterSequence,  \* projector: the cursor
    hydrated,       \* projector: the first reconcile has succeeded
    op,             \* the reconciliation under way
    reply           \* the page on its way to the client

projector == <<receipts, afterSequence, hydrated>>
replay == <<outbox, healthy, projector, op, reply>>

Idle == [at |-> "idle", cursor |-> 0, pending |-> <<>>]
NoReply == [afterSequence |-> 0, nextSequence |-> 0, entries |-> <<>>, status |-> 0]

-----------------------------------------------------------------------------
\* verifyPublicCaseBindingReceipt: the schema fits the kind of case, and the
\* checksum is the one of the content.
VerifyReceipt(r) ==
    /\ r.intact
    /\ (r.schema = "synthetic") = (r.caseId \in SyntheticCases)

\* The three constructors of a receipt sign what they verify.
CreateReceipt(schema, root, caseId) ==
    [schema |-> schema, root |-> root, caseId |-> caseId, intact |-> TRUE]

\* The rows admissions have written: the keys grow, and each row holds a
\* receipt that verifies, for a root and a case of its own.
RowType == [sequence : Nat \ {0}, receipt : ReceiptType]
Written(rows) ==
    /\ rows \in Seq(RowType) /\ Len(rows) <= MaxOutbox
    /\ \A i \in 1..Len(rows) :
         VerifyReceipt(rows[i].receipt) /\ rows[i].receipt.root = i /\ rows[i].receipt.caseId = i
    /\ \A i, j \in 1..Len(rows) : i < j => rows[i].sequence < rows[j].sequence

ASSUME OutboxAssumption == \A rows \in OutboxesAtStart : Written(rows)

\* recordReceipt refuses two receipts for one case or one root.
Conflicts(rs) ==
    \E i, j \in DOMAIN rs :
        /\ rs[i] # rs[j]
        /\ rs[i].caseId = rs[j].caseId \/ rs[i].root = rs[j].root

\* Sequences strictly increase from the cursor on.
Increasing(entries, after) ==
    \A i \in DOMAIN entries :
        entries[i].sequence > IF i = 1 THEN after ELSE entries[i - 1].sequence

ReceiptsOf(entries) == [i \in DOMAIN entries |-> entries[i].receipt]

\* verifyCredentialFreeCaseBindingOutboxEntries.
VerifyEntries(entries, after, limit) ==
    /\ Len(entries) <= limit
    /\ Increasing(entries, after)
    /\ \A i \in DOMAIN entries : VerifyReceipt(entries[i].receipt)
    /\ IsInjective(ReceiptsOf(entries)) /\ ~Conflicts(ReceiptsOf(entries))

\* verifyCredentialFreeCaseBindingOutboxPage: the page answers this request and
\* its next cursor is its last entry.
VerifyPage(page, after, limit) ==
    /\ page.afterSequence = after
    /\ VerifyEntries(page.entries, after, limit)
    /\ page.nextSequence = IF page.entries = <<>> THEN 0 ELSE Last(page.entries).sequence

\* outbox.replay: one snapshot of the rows after a cursor, in their order.
Replay(after, limit) ==
    LET past == CHOOSE n \in 0..Len(outbox) :
                    \A i \in 1..Len(outbox) : outbox[i].sequence > after <=> i > n
    IN  SubSeq(outbox, past + 1, IF past + limit < Len(outbox) THEN past + limit ELSE Len(outbox))

Refusal(code) == [NoReply EXCEPT !.status = code]

\* The request of the client: a pinned host, no credential, no body.
PullRequest(after, limit) ==
    [clean |-> TRUE, method |-> "GET", body |-> FALSE, after |-> after, limit |-> limit]

\* The server's answer.  What it cannot verify it calls unavailable.
ServerAnswer(request) ==
    LET entries == Replay(request.after, request.limit)
        page == [afterSequence |-> request.after, entries |-> entries, status |-> 200,
                 nextSequence |-> IF entries = <<>> THEN 0 ELSE Last(entries).sequence]
    IN  IF ~request.clean THEN Refusal(400)
        ELSE IF request.method # "GET" THEN Refusal(405)
        ELSE IF request.limit \notin 1..MaxLimit THEN Refusal(404)
        ELSE IF request.body THEN Refusal(400)
        ELSE IF VerifyPage(page, request.after, request.limit) THEN page
        ELSE Refusal(503)

-----------------------------------------------------------------------------
\* An admission commits a receipt for a new root and a new case; keys of rolled back inserts leave gaps.
Row(schema, n, sequence) == [sequence |-> sequence, receipt |-> CreateReceipt(schema, n, n)]
LastSequence(rows) == IF rows = <<>> THEN 0 ELSE Last(rows).sequence

Commit(schema, gap) ==
    LET row == Row(schema, Len(outbox) + 1, LastSequence(outbox) + 1 + gap)
    IN  /\ Len(outbox) < MaxOutbox
        /\ VerifyReceipt(row.receipt)
        /\ outbox' = Append(outbox, row)
        /\ UNCHANGED <<healthy, projector, op, reply>>

\* The control process stops or the network fails, and comes back.
Disturb ==
    /\ healthy' = ~healthy
    /\ UNCHANGED <<outbox, projector, op, reply>>

-----------------------------------------------------------------------------
\* reconcile, when none is under way: request the first page.  A caller that
\* comes while one is shares its promise.
Reconcile ==
    /\ op.at = "idle"
    /\ op' = [at |-> "awaiting", cursor |-> afterSequence, pending |-> <<>>]
    /\ UNCHANGED <<outbox, healthy, projector, reply>>

\* The control process answers the request of the client.
Serve ==
    /\ healthy
    /\ op.at = "awaiting" /\ reply = NoReply
    /\ reply' = ServerAnswer(PullRequest(op.cursor, PageSize))
    /\ UNCHANGED <<outbox, healthy, projector, op>>

\* A reply that is not this request's arrives: another cursor's page, or bytes
\* that were altered under way.
Misdeliver(after) ==
    LET page == ServerAnswer(PullRequest(after, PageSize))
    IN  /\ ~healthy
        /\ op.at = "awaiting" /\ reply = NoReply
        /\ reply' = IF after # op.cursor THEN page
                    ELSE [page EXCEPT !.entries = [i \in DOMAIN @ |-> [@[i] EXCEPT !.receipt.intact = FALSE]]]
        /\ reply'.entries # <<>>
        /\ UNCHANGED <<outbox, healthy, projector, op>>

\* Mutant: the cursor moves on although the page is not applied.
FailMovesCursor ==
    /\ op' = Idle /\ reply' = NoReply
    /\ afterSequence' = op.cursor
    /\ UNCHANGED <<outbox, healthy, receipts, hydrated>>

\* The operation rejects: projection and cursor are what they were.
Fail ==
    /\ op' = Idle /\ reply' = NoReply
    /\ UNCHANGED <<outbox, healthy, projector>>

\* unavailable: deadline, refused connection, truncated answer or abort.
Unavailable ==
    /\ ~healthy /\ op.at = "awaiting"
    /\ Fail

ClientAccepts(page) == page.status = 200 /\ VerifyPage(page, op.cursor, PageSize)

\* What readPending checks of every entry of a page.
EntriesAccepted(entries) ==
    /\ Increasing(entries, op.cursor)
    /\ \A i \in DOMAIN entries :
         /\ VerifyReceipt(entries[i].receipt)
         /\ entries[i].receipt \notin Range(receipts) \cup Range(ReceiptsOf(op.pending))
    /\ IsInjective(ReceiptsOf(entries))
    /\ Len(receipts) + Len(op.pending) + Len(entries) <= MaxReceipts

\* A page with entries: keep them and request the next page.
ReceivePage(page) ==
    /\ op.at = "awaiting" /\ page # NoReply /\ page.entries # <<>>
    /\ ClientAccepts(page) /\ EntriesAccepted(page.entries)
    /\ op' = [op EXCEPT !.cursor = Last(page.entries).sequence,
                        !.pending = @ \o page.entries]
    /\ reply' = NoReply
    /\ UNCHANGED <<outbox, healthy, projector>>

\* nextReceipts of reconcile.
NextReceipts(pending) == receipts \o ReceiptsOf(pending)

\* createInMemoryCaseBindingProjection throws on the first conflict.
InstallAccepted(next) == ~Conflicts(next)

\* A reply the client or the projector refuses.
ReceiveRefused(page) ==
    /\ op.at = "awaiting" /\ page # NoReply
    /\ ~ /\ ClientAccepts(page) /\ EntriesAccepted(page.entries)
         /\ page.entries = <<>> => InstallAccepted(NextReceipts(op.pending))
    /\ Fail

\* The empty page: everything pending replaces projection and cursor at once,
\* unless the projection built from it has a conflict.
ReceiveLastPage(page) ==
    /\ op.at = "awaiting" /\ page # NoReply /\ page.entries = <<>>
    /\ ClientAccepts(page) /\ InstallAccepted(NextReceipts(op.pending))
    /\ receipts' = NextReceipts(op.pending)
    /\ afterSequence' = IF op.pending = <<>> THEN afterSequence ELSE Last(op.pending).sequence
    /\ hydrated' = TRUE
    /\ op' = Idle /\ reply' = NoReply
    /\ UNCHANGED <<outbox, healthy>>

-----------------------------------------------------------------------------
\* createPublicCaseBindingServer: an acceptable read is looked up, verified
\* again and matched with the request.
Found(q) == {r \in Range(receipts) : IF q.kind = "case" THEN r.caseId = q.value ELSE r.root = q.value}
Read(kind, value) == [clean |-> TRUE, method |-> "GET", kind |-> kind, value |-> value]
PublicAnswer(q) ==
    IF ~q.clean THEN [status |-> 400]
    ELSE IF q.method \notin {"GET", "HEAD"} THEN [status |-> 405]
    ELSE IF ~hydrated \/ Found(q) = {} THEN [status |-> 404]
    ELSE LET r == CHOOSE r \in Found(q) : TRUE
         IN  IF VerifyReceipt(r) THEN [status |-> 200, receipt |-> r] ELSE [status |-> 503]

\* A fresh projector beside an outbox that may hold rows of earlier runs.
BInit ==
    /\ outbox \in OutboxesAtStart
    /\ healthy \in BOOLEAN
    /\ receipts = <<>> /\ afterSequence = 0 /\ hydrated = FALSE
    /\ op = Idle /\ reply = NoReply

-----------------------------------------------------------------------------
\* Type invariant.
BTypeOK ==
    /\ outbox \in Seq(RowType)
    /\ healthy \in BOOLEAN /\ hydrated \in BOOLEAN
    /\ receipts \in Seq(ReceiptType) /\ afterSequence \in Nat
    /\ op.at \in {"idle", "awaiting"} /\ op.cursor \in Nat
    /\ op.pending \in Seq([sequence : Nat, receipt : ReceiptType])

\* Pages that fail, arrive late or race new admissions never leave a hole: the
\* projection is the beginning of the outbox, the cursor is its last row, and
\* each of its receipts is the answer to a read of its root and of its case.
ProjectionIsPrefix ==
    /\ IsPrefix(receipts, ReceiptsOf(outbox))
    /\ afterSequence = IF receipts = <<>> THEN 0 ELSE outbox[Len(receipts)].sequence
    /\ hydrated => \A r \in Range(receipts) : \A q \in {Read("root", r.root), Read("case", r.caseId)} :
        PublicAnswer(q) = [status |-> 200, receipt |-> r]
=============================================================================
