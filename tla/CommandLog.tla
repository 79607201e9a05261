------------------------------ MODULE CommandLog ------------------------------
(***************************************************************************)
(* What a durable case journal promises its callers: commands are applied  *)
(* at most once, each at the version its caller expected, and whoever      *)
(* asks again under the same key is answered with the first receipt.       *)
(* DurableJournal implements this specification.                           *)
(***************************************************************************)
EXTENDS Naturals, Sequences, FiniteSets

CONSTANTS Keys,         \* idempotency keys
          Contents,     \* what commands say, key and expected version aside
          Emits,        \* content -> the events it appends
          MaxEvents     \* bound on the log's length

VARIABLES log,        \* the events applied so far
          receipts,   \* one row per applied command
          answers     \* the rows callers have been answered with

vars == <<log, receipts, answers>>

\* The content a command's events carry, one event per type.
EventsOf(content) ==
    [i \in 1..Len(Emits[content]) |->
        [eventType |-> Emits[content][i], payload |-> content]]

\* journalHeadChecksum digests the whole chain: it is the chain.
Receipt(chain, count) ==
    [caseVersion |-> Len(chain), eventIds |-> (Len(chain) - count + 1)..Len(chain),
     journalHeadChecksum |-> chain]

\* A command's fingerprint covers its content and the version it expects.
Row(key, content, expectedCaseVersion, receipt) ==
    [key |-> key, content |-> content, expectedCaseVersion |-> expectedCaseVersion,
     receipt |-> receipt]

Init == log = <<>> /\ receipts = {} /\ answers = {}

Apply(key, content) ==
    LET chain == log \o EventsOf(content) IN
    /\ \A row \in receipts : row.key # key
    /\ Len(chain) <= MaxEvents
    /\ log' = chain
    /\ receipts' = receipts \cup
         {Row(key, content, Len(log), Receipt(chain, Len(Emits[content])))}
    /\ UNCHANGED answers

Answer(row) ==
    /\ row \in receipts
    /\ answers' = answers \cup {row}
    /\ UNCHANGED <<log, receipts>>

Next ==
    \/ \E k \in Keys, c \in Contents : Apply(k, c)
    \/ \E row \in receipts : Answer(row)

Spec == Init /\ [][Next]_vars

-----------------------------------------------------------------------------
\* Every event of the log belongs to exactly one receipt, and that receipt
\* says what the event says: no command was applied twice, in part, or
\* between the events of another.
ReceiptsPartitionLog ==
    /\ \A i \in 1..Len(log) : \E row \in receipts :
         /\ i \in row.receipt.eventIds
         /\ log[i].payload = row.content
         /\ \A other \in receipts : i \in other.receipt.eventIds => other = row
    /\ \A row \in receipts :
         /\ row.receipt.eventIds \subseteq 1..Len(log)
         /\ row.receipt.journalHeadChecksum = SubSeq(log, 1, row.receipt.caseVersion)

\* Two answers under one key are the same answer, whenever and wherever they
\* were given.
AnswersAgree ==
    \A a, b \in answers : a.key = b.key => a = b
=============================================================================
