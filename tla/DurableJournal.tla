---------------------------- MODULE DurableJournal ----------------------------
(***************************************************************************)
(* A case journal in SQLite shared by several processes, each with its own *)
(* durable coordinator: loadDurableState and the idempotency part of       *)
(* `handle` in src/src/civic-case-coordinator.ts over recover and          *)
(* appendAtomic of src/src/adapters/sqlite-journal-adapter.ts.             *)
(*                                                                         *)
(* `handle` is synchronous in one process, so processes interleave only    *)
(* between their transactions: the recovery that loads the journal, the    *)
(* append, and the second recovery after a duplicate.  A process may crash *)
(* between any two of them, in particular after its commit and before its  *)
(* caller has the receipt; callers may retry, here or in another process,  *)
(* and may reuse a key for something else.                                 *)
(***************************************************************************)
EXTENDS Naturals, Sequences, FiniteSets, SequencesExt

CONSTANTS
    Processes,
    Options,           \* process -> the fingerprint of its coordinator options
    Keys, Contents, Emits, MaxEvents,
    EVENT_TYPES,       \* the event types the store can read back
    NoOptions          \* journal_meta has no row yet

ASSUME StoreAssumption ==
    /\ \A c \in Contents : Emits[c] \in Seq(STRING) /\ Emits[c] # <<>>
    /\ Keys # {} /\ Contents # {}
    /\ MaxEvents \in Nat
    /\ DOMAIN Options = Processes
    /\ \A p \in Processes : Options[p] # NoOptions

VARIABLES
    meta,          \* options_fingerprint of the journal_meta row
    caseEvents,    \* case_events, in case_version order
    idempotency,   \* command_idempotency
    pc,            \* where each process is: between calls, in handle, or down
    memory,        \* each coordinator's state.events and idempotency map
    call,          \* the command each process is handling
    result,        \* the answer each process is about to give
    answers        \* commands callers have sent, with the receipts they got

store == <<meta, caseEvents, idempotency>>
vars == <<meta, caseEvents, idempotency, pc, memory, call, result, answers>>

Log == INSTANCE CommandLog WITH log <- caseEvents, receipts <- idempotency

Command == [key : Keys, content : Contents, expectedCaseVersion : 0..MaxEvents]
AnyCommand == CHOOSE c \in Command : TRUE
Fresh == [events |-> <<>>, idempotency |-> {}]
NoRow == [key |-> NoOptions]

Init ==
    /\ meta = NoOptions
    /\ caseEvents = <<>>
    /\ idempotency = {}
    /\ pc = [p \in Processes |-> "down"]
    /\ memory = [p \in Processes |-> Fresh]
    /\ call = [p \in Processes |-> AnyCommand]
    /\ result = [p \in Processes |-> NoRow]
    /\ answers = {}

-----------------------------------------------------------------------------
\* readState refuses a journal bound to other options, and a row whose type
\* it does not know.
ReadStateOK(p) ==
    /\ meta \in {NoOptions, Options[p]}
    /\ \A i \in 1..Len(caseEvents) : caseEvents[i].eventType \in EVENT_TYPES

\* recover: a transaction of its own, which writes the meta row of an empty
\* journal.
Recover(p) ==
    /\ ReadStateOK(p)
    /\ meta' = Options[p]
    /\ memory' = [memory EXCEPT ![p] = [events |-> caseEvents, idempotency |-> idempotency]]
    /\ UNCHANGED <<caseEvents, idempotency>>

\* The constructor loads the journal; it throws when recover does.
Start(p) ==
    /\ pc[p] = "down"
    /\ Recover(p)
    /\ pc' = [pc EXCEPT ![p] = "idle"]
    /\ UNCHANGED <<call, result, answers>>

\* project reloads the journal and reads.
Project(p) ==
    /\ pc[p] = "idle"
    /\ Recover(p)
    /\ UNCHANGED <<pc, call, result, answers>>

\* Mutant: the fingerprint leaves the content out.
SameVersion(row, command) ==
    row.expectedCaseVersion = command.expectedCaseVersion

SameFingerprint(row, command) ==
    /\ row.content = command.content
    /\ row.expectedCaseVersion = command.expectedCaseVersion

\* What the caller learns: its own command, and the receipt it is given for it.
AnswerTo(command, row) ==
    Log!Row(command.key, command.content, command.expectedCaseVersion, row.receipt)

\* handle up to the append.  A known key is answered from the map just
\* loaded, or refused; a stale version is refused.  The case's own rules may
\* refuse what is left (CaseCoordinator), which is HandleRefused.
HandleKnownKey(p, command) ==
    /\ pc[p] = "idle"
    /\ Recover(p)
    /\ \E row \in idempotency :
         /\ row.key = command.key
         /\ SameFingerprint(row, command)
         /\ answers' = answers \cup {AnswerTo(command, row)}
    /\ UNCHANGED <<pc, call, result>>

HandleRefused(p, command) ==
    /\ pc[p] = "idle"
    /\ Recover(p)
    /\ \A row \in idempotency : row.key = command.key => ~SameFingerprint(row, command)
    /\ UNCHANGED <<pc, call, result, answers>>

HandleAccepted(p, command) ==
    /\ pc[p] = "idle"
    /\ Recover(p)
    /\ \A row \in idempotency : row.key # command.key
    /\ command.expectedCaseVersion = Len(caseEvents)
    /\ pc' = [pc EXCEPT ![p] = "appending"]
    /\ call' = [call EXCEPT ![p] = command]
    /\ UNCHANGED <<result, answers>>

\* The chain handle built on the journal it loaded, and the row for it.
Chain(p) == memory[p].events \o Log!EventsOf(call[p].content)
PreparedRow(p) ==
    Log!Row(call[p].key, call[p].content, call[p].expectedCaseVersion,
            Log!Receipt(Chain(p), Len(Emits[call[p].content])))

\* Mutant: the journal may have moved since it was loaded.
ValidateAppendEventsUnchecked(p) == Len(Chain(p)) <= MaxEvents

\* validateAppendEvents: the version and the head have not moved since.
ValidateAppendEvents(p) ==
    /\ Len(memory[p].events) = Len(caseEvents)
    /\ memory[p].events = caseEvents
    /\ Len(Chain(p)) <= MaxEvents

\* appendAtomic: the append itself; events, receipt and meta in one
\* transaction.
AppendAtomic(p) ==
    /\ pc[p] = "appending"
    /\ meta = Options[p]
    /\ ReadStateOK(p)
    /\ \A row \in idempotency : row.key # call[p].key
    /\ ValidateAppendEvents(p)
    /\ caseEvents' = Chain(p)
    /\ idempotency' = idempotency \cup {PreparedRow(p)}
    /\ memory' = [memory EXCEPT ![p] =
         [events |-> Chain(p), idempotency |-> @.idempotency \cup {PreparedRow(p)}]]
    /\ result' = [result EXCEPT ![p] = PreparedRow(p)]
    /\ pc' = [pc EXCEPT ![p] = "returning"]
    /\ UNCHANGED <<meta, call, answers>>

\* appendAtomic: another process has applied the same command since.
AppendDuplicate(p) ==
    /\ pc[p] = "appending"
    /\ meta = Options[p]
    /\ ReadStateOK(p)
    /\ \E row \in idempotency :
         /\ row.key = call[p].key
         /\ SameFingerprint(row, call[p])
         /\ result' = [result EXCEPT ![p] = AnswerTo(call[p], row)]
    /\ pc' = [pc EXCEPT ![p] = "reloading"]
    /\ UNCHANGED <<store, memory, call, answers>>

\* Mutant: the coordinator keeps the events of an append that failed.
AppendFailsKeepingChain(p) ==
    /\ pc[p] = "appending"
    /\ pc' = [pc EXCEPT ![p] = "idle"]
    /\ memory' = [memory EXCEPT ![p].events = Chain(p)]
    /\ UNCHANGED <<store, call, result, answers>>

\* appendAtomic throws and rolls back: the key is taken by another command,
\* the version has moved, or the database stayed busy.
AppendFails(p) ==
    /\ pc[p] = "appending"
    /\ pc' = [pc EXCEPT ![p] = "idle"]
    /\ UNCHANGED <<store, memory, call, result, answers>>

\* handle reloads the journal before it answers a duplicate.
Reload(p) ==
    /\ pc[p] = "reloading"
    /\ Recover(p)
    /\ pc' = [pc EXCEPT ![p] = "returning"]
    /\ UNCHANGED <<call, result, answers>>

Return(p) ==
    /\ pc[p] = "returning"
    /\ answers' = answers \cup {result[p]}
    /\ pc' = [pc EXCEPT ![p] = "idle"]
    /\ UNCHANGED <<store, memory, call, result>>

\* The process dies, or closes its store; what it had in memory is gone.
Crash(p) ==
    /\ pc[p] # "down"
    /\ pc' = [pc EXCEPT ![p] = "down"]
    /\ memory' = [memory EXCEPT ![p] = Fresh]
    /\ UNCHANGED <<store, call, result, answers>>

Next ==
    \E p \in Processes :
        \/ Start(p)
        \/ Project(p)
        \/ \E c \in Command : HandleKnownKey(p, c)
        \/ \E c \in Command : HandleRefused(p, c)
        \/ \E c \in Command : HandleAccepted(p, c)
        \/ AppendAtomic(p)
        \/ AppendDuplicate(p)
        \/ AppendFails(p)
        \/ Reload(p)
        \/ Return(p)
        \/ Crash(p)

Spec == Init /\ [][Next]_vars

-----------------------------------------------------------------------------
StoredEvent == [eventType : UNION {Range(Emits[c]) : c \in Contents}, payload : Contents]
StoredRow == [key : Keys, content : Contents, expectedCaseVersion : Nat,
              receipt : [caseVersion : Nat, eventIds : SUBSET Nat,
                         journalHeadChecksum : Seq(StoredEvent)]]

\* Type invariant.
TypeOK ==
    /\ meta \in {NoOptions} \cup Range(Options)
    /\ caseEvents \in Seq(StoredEvent)
    /\ idempotency \subseteq StoredRow
    /\ pc \in [Processes -> {"down", "idle", "appending", "reloading", "returning"}]
    /\ memory \in [Processes -> [events : Seq(StoredEvent), idempotency : SUBSET StoredRow]]
    /\ call \in [Processes -> Command]
    /\ result \in [Processes -> StoredRow \cup {NoRow}]
    /\ answers \subseteq StoredRow

\* Whatever a coordinator holds in memory, however stale, is a prefix of the
\* journal with the receipts of that prefix: a reader is never shown an event
\* that is not, or no longer, in the journal.
MemoryIsPrefix ==
    \A p \in Processes :
        /\ IsPrefix(memory[p].events, caseEvents)
        /\ memory[p].idempotency =
             {row \in idempotency : row.receipt.caseVersion <= Len(memory[p].events)}

\* Across processes, crashes and retries every event of the journal belongs to
\* exactly one applied command, and whoever is answered under one key sent the
\* same command and is given the same receipt, by any process: a reused key is
\* never answered with the receipt of something else (CommandLog).
ExactlyOnce == Log!ReceiptsPartitionLog /\ Log!AnswersAgree

\* The shared store implements the log of commands applied at most once.
ImplementsCommandLog == Log!Spec

\* A caller that was answered can have the same answer again: a process with
\* the options the journal is bound to can read the journal back.
AcknowledgedIsReadable ==
    answers # {} => \A p \in Processes : Options[p] = meta => ReadStateOK(p)
=============================================================================
