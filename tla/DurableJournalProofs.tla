------------------------- MODULE DurableJournalProofs -------------------------
(***************************************************************************)
(* Theorems about DurableJournal, for every set of processes, whatever     *)
(* their options, every set of keys and commands and journals of every     *)
(* length: what a coordinator remembers is a prefix of the journal, every  *)
(* command takes effect once, and the journal implements CommandLog.       *)
(***************************************************************************)
EXTENDS DurableJournal, SequenceTheorems, TLAPS

\* Every row of command_idempotency is the row of one append: it starts at the
\* version its command expected, it covers the events of its content, and its
\* head is the journal up to its own version.
RowsAreAppends ==
    \A row \in idempotency :
        /\ row.receipt.caseVersion = row.expectedCaseVersion + Len(Emits[row.content])
        /\ row.receipt.caseVersion <= Len(caseEvents)
        /\ row.receipt.eventIds = (row.expectedCaseVersion + 1)..row.receipt.caseVersion
        /\ row.receipt.journalHeadChecksum = SubSeq(caseEvents, 1, row.receipt.caseVersion)

\* The primary key of command_idempotency.
KeysAreUnique ==
    \A row, other \in idempotency : row.key = other.key => row = other

\* Every event belongs to one row, which says what it says.
EventsHaveRows ==
    \A i \in 1..Len(caseEvents) : \E row \in idempotency :
        /\ i \in row.receipt.eventIds
        /\ caseEvents[i].payload = row.content
        /\ \A other \in idempotency : i \in other.receipt.eventIds => other = row

\* What callers were told, or are about to be told, is in the store.
AnswersAreRows ==
    /\ answers \subseteq idempotency
    /\ \A p \in Processes : pc[p] \in {"reloading", "returning"} => result[p] \in idempotency

\* A command on its way to the store expects the version it was prepared on.
CallsMatchMemory ==
    \A p \in Processes :
        pc[p] = "appending" => call[p].expectedCaseVersion = Len(memory[p].events)

\* The inductive invariant.
IInv ==
    /\ TypeOK
    /\ RowsAreAppends /\ KeysAreUnique /\ EventsHaveRows
    /\ AnswersAreRows /\ CallsMatchMemory
    /\ MemoryIsPrefix

USE StoreAssumption

-----------------------------------------------------------------------------
\* Lemmas on sequences and on the operators of CommandLog.

\* What an append leaves of the prefixes of a journal.
LEMMA PrefixFacts ==
    ASSUME NEW S, NEW s \in Seq(S), NEW t \in Seq(S), NEW u \in Seq(S)
    PROVE  /\ IsPrefix(t, t) /\ IsPrefix(<<>>, t)
           /\ IsPrefix(s, t) => IsPrefix(s, t \o u)
           /\ \A n \in 0..Len(t) : SubSeq(t \o u, 1, n) = SubSeq(t, 1, n)
<1>1. \A n \in 0..Len(t) : SubSeq(t \o u, 1, n) = SubSeq(t, 1, n)
  OBVIOUS
<1>2. IsPrefix(t, t) /\ IsPrefix(<<>>, t)
  BY DEF IsPrefix
<1>3. ASSUME IsPrefix(s, t) PROVE IsPrefix(s, t \o u)
  BY <1>1, <1>3 DEF IsPrefix
<1> QED
  BY <1>1, <1>2, <1>3

\* Where the elements of a concatenation come from.
LEMMA ConcatFacts ==
    ASSUME NEW S, NEW s \in Seq(S), NEW t \in Seq(S)
    PROVE  /\ s \o t \in Seq(S)
           /\ Len(s \o t) = Len(s) + Len(t)
           /\ \A i \in 1..Len(s) : (s \o t)[i] = s[i]
           /\ \A i \in (Len(s) + 1)..(Len(s) + Len(t)) : (s \o t)[i] = t[i - Len(s)]
OBVIOUS

\* The events of a command are stored events of its content, at least one.
LEMMA EventsOfFacts ==
    ASSUME NEW c \in Contents
    PROVE  /\ Log!EventsOf(c) \in Seq(StoredEvent)
           /\ Len(Log!EventsOf(c)) = Len(Emits[c])
           /\ Len(Emits[c]) \in Nat /\ Len(Emits[c]) >= 1
           /\ \A i \in 1..Len(Emits[c]) : Log!EventsOf(c)[i].payload = c
<1>1. Emits[c] \in Seq(STRING) /\ Emits[c] # <<>>
  OBVIOUS
<1>2. Len(Emits[c]) \in Nat /\ Len(Emits[c]) >= 1 /\ DOMAIN Emits[c] = 1..Len(Emits[c])
  BY <1>1
<1>3. \A i \in 1..Len(Emits[c]) : Emits[c][i] \in Range(Emits[c])
  BY <1>2 DEF Range
<1>4. \A i \in 1..Len(Emits[c]) : [eventType |-> Emits[c][i], payload |-> c] \in StoredEvent
  BY <1>3 DEF StoredEvent
<1> QED
  BY <1>2, <1>4 DEF Log!EventsOf

-----------------------------------------------------------------------------
\* The journal and its rows say the same as before.
StoreSound == RowsAreAppends /\ KeysAreUnique /\ EventsHaveRows

LEMMA StoreFrame ==
    ASSUME IInv, UNCHANGED <<caseEvents, idempotency>>
    PROVE  StoreSound'
<1>1. RowsAreAppends'
  BY DEF IInv, RowsAreAppends
<1>2. KeysAreUnique'
  BY DEF IInv, KeysAreUnique
<1>3. EventsHaveRows'
  BY DEF IInv, EventsHaveRows
<1> QED
  BY <1>1, <1>2, <1>3 DEF StoreSound

\* The invariant holds before any process has started.
LEMMA InitIInv == Init => IInv
<1> SUFFICES ASSUME Init PROVE IInv
  OBVIOUS
<1>1. AnyCommand \in Command
  <2>1. \E c \in Command : TRUE
    <3>1. PICK k \in Keys, c \in Contents : TRUE
      OBVIOUS
    <3>2. [key |-> k, content |-> c, expectedCaseVersion |-> 0] \in Command
      BY DEF Command
    <3> QED
      BY <3>2
  <2> QED
    BY <2>1 DEF AnyCommand
<1>2. TypeOK
  BY <1>1 DEF Init, TypeOK, Fresh
<1>3. StoreSound /\ AnswersAreRows /\ CallsMatchMemory
  BY DEF Init, StoreSound, RowsAreAppends, KeysAreUnique, EventsHaveRows, AnswersAreRows,
         CallsMatchMemory
<1>4. MemoryIsPrefix
  BY DEF Init, MemoryIsPrefix, Fresh, IsPrefix
<1> QED
  BY <1>2, <1>3, <1>4 DEF IInv, StoreSound

\* A row's version is at least one: no row belongs to an empty journal.
LEMMA RowVersions ==
    ASSUME IInv
    PROVE  \A row \in idempotency : /\ row \in StoredRow
                                    /\ row.receipt.caseVersion \in Nat
                                    /\ row.receipt.caseVersion >= 1
                                    /\ row.receipt.caseVersion <= Len(caseEvents)
<1> SUFFICES ASSUME NEW row \in idempotency
             PROVE  /\ row \in StoredRow
                    /\ row.receipt.caseVersion \in Nat
                    /\ row.receipt.caseVersion >= 1
                    /\ row.receipt.caseVersion <= Len(caseEvents)
  OBVIOUS
<1>1. row \in StoredRow
  BY DEF IInv, TypeOK
<1>2. row.content \in Contents /\ row.expectedCaseVersion \in Nat
  BY <1>1 DEF StoredRow
<1>3. Len(Emits[row.content]) \in Nat /\ Len(Emits[row.content]) >= 1
  BY <1>2, EventsOfFacts
<1>4. /\ row.receipt.caseVersion = row.expectedCaseVersion + Len(Emits[row.content])
      /\ row.receipt.caseVersion <= Len(caseEvents)
  BY DEF IInv, StoreSound, RowsAreAppends
<1> QED
  BY <1>1, <1>2, <1>3, <1>4

\* Loading the journal changes nothing in it but the row that binds it to the
\* options, and leaves the coordinator with all of it.
LEMMA RecoverStep ==
    ASSUME IInv, NEW p \in Processes, Recover(p)
    PROVE  /\ UNCHANGED <<caseEvents, idempotency>>
           /\ meta' \in {NoOptions} \cup Range(Options)
           /\ memory' \in [Processes -> [events : Seq(StoredEvent), idempotency : SUBSET StoredRow]]
           /\ memory'[p].events = caseEvents
           /\ \A q \in Processes : q # p => memory'[q] = memory[q]
           /\ StoreSound'
           /\ MemoryIsPrefix'
<1>1. TypeOK
  BY DEF IInv
<1>2. UNCHANGED <<caseEvents, idempotency>> /\ meta' = Options[p]
  BY DEF Recover
<1>3. memory' = [memory EXCEPT ![p] = [events |-> caseEvents, idempotency |-> idempotency]]
  BY DEF Recover
<1>4. meta' \in {NoOptions} \cup Range(Options)
  BY <1>2 DEF Range
<1>5. /\ memory' \in [Processes -> [events : Seq(StoredEvent), idempotency : SUBSET StoredRow]]
      /\ memory'[p] = [events |-> caseEvents, idempotency |-> idempotency]
      /\ \A q \in Processes : q # p => memory'[q] = memory[q]
  BY <1>1, <1>3 DEF TypeOK
<1>6. StoreSound'
  BY <1>2, StoreFrame
<1>7. MemoryIsPrefix'
  <2> SUFFICES ASSUME NEW q \in Processes
               PROVE  /\ IsPrefix(memory'[q].events, caseEvents)
                      /\ memory'[q].idempotency =
                           {row \in idempotency : row.receipt.caseVersion <= Len(memory'[q].events)}
    BY <1>2 DEF MemoryIsPrefix
  <2>1. CASE q = p
    <3>1. IsPrefix(caseEvents, caseEvents)
      BY <1>1, PrefixFacts DEF TypeOK
    <3>2. idempotency = {row \in idempotency : row.receipt.caseVersion <= Len(caseEvents)}
      BY RowVersions
    <3> QED
      BY <2>1, <3>1, <3>2, <1>5
  <2>2. CASE q # p
    BY <2>2, <1>5 DEF IInv, MemoryIsPrefix
  <2> QED
    BY <2>1, <2>2
<1> QED
  BY <1>2, <1>4, <1>5, <1>6, <1>7

-----------------------------------------------------------------------------
\* The steps of a process that only read the journal.

\* A process starts with what the store has.
LEMMA StartStep ==
    ASSUME IInv, NEW p \in Processes, Start(p)
    PROVE  IInv'
<1>1. Recover(p) /\ UNCHANGED <<call, result, answers>> /\ pc' = [pc EXCEPT ![p] = "idle"]
  BY DEF Start
<1> QED
  BY <1>1, RecoverStep DEF IInv, TypeOK, StoreSound, AnswersAreRows, CallsMatchMemory

\* A read reloads the memory first.
LEMMA ProjectStep ==
    ASSUME IInv, NEW p \in Processes, Project(p)
    PROVE  IInv'
<1>1. Recover(p) /\ UNCHANGED <<pc, call, result, answers>> /\ pc[p] = "idle"
  BY DEF Project
<1> QED
  BY <1>1, RecoverStep DEF IInv, TypeOK, StoreSound, AnswersAreRows, CallsMatchMemory

\* A command with the key and the fingerprint of a row is answered with it.
LEMMA AnswerIsRow ==
    ASSUME NEW row \in StoredRow, NEW c \in Command, row.key = c.key, SameFingerprint(row, c)
    PROVE  AnswerTo(c, row) = row
BY DEF AnswerTo, Log!Row, SameFingerprint, StoredRow, Command

\* A key the store knows is answered with its row, a step of the abstract log.
LEMMA HandleKnownKeyStep ==
    ASSUME IInv, NEW p \in Processes, NEW c \in Command, HandleKnownKey(p, c)
    PROVE  /\ IInv'
           /\ \E row \in idempotency : Log!Answer(row)
<1>1. Recover(p) /\ UNCHANGED <<pc, call, result>> /\ pc[p] = "idle"
  BY DEF HandleKnownKey
<1>2. PICK row \in idempotency : /\ row.key = c.key
                                 /\ SameFingerprint(row, c)
                                 /\ answers' = answers \cup {AnswerTo(c, row)}
  BY DEF HandleKnownKey
<1>3. AnswerTo(c, row) = row
  BY <1>2, AnswerIsRow, RowVersions
<1>4. answers' = answers \cup {row}
  BY <1>2, <1>3
<1>5. UNCHANGED <<caseEvents, idempotency>>
  BY <1>1, RecoverStep
<1> QED
  BY <1>1, <1>4, <1>5, RecoverStep
     DEF IInv, TypeOK, StoreSound, AnswersAreRows, CallsMatchMemory, Log!Answer

\* A refused command only reloads the memory.
LEMMA HandleRefusedStep ==
    ASSUME IInv, NEW p \in Processes, NEW c \in Command, HandleRefused(p, c)
    PROVE  IInv'
<1>1. Recover(p) /\ UNCHANGED <<pc, call, result, answers>> /\ pc[p] = "idle"
  BY DEF HandleRefused
<1> QED
  BY <1>1, RecoverStep DEF IInv, TypeOK, StoreSound, AnswersAreRows, CallsMatchMemory

\* An accepted command knows the version the memory has.
LEMMA HandleAcceptedStep ==
    ASSUME IInv, NEW p \in Processes, NEW c \in Command, HandleAccepted(p, c)
    PROVE  IInv'
<1>1. /\ Recover(p) /\ UNCHANGED <<result, answers>>
      /\ c.expectedCaseVersion = Len(caseEvents)
      /\ pc' = [pc EXCEPT ![p] = "appending"]
      /\ call' = [call EXCEPT ![p] = c]
  BY DEF HandleAccepted
<1>2. /\ pc' \in [Processes -> {"down", "idle", "appending", "reloading", "returning"}]
      /\ call' \in [Processes -> Command]
  BY <1>1 DEF IInv, TypeOK
<1>3. CallsMatchMemory'
  BY <1>1, RecoverStep DEF IInv, TypeOK, CallsMatchMemory
<1> QED
  BY <1>1, <1>2, <1>3, RecoverStep DEF IInv, TypeOK, StoreSound, AnswersAreRows

\* The reload after an append reads the store.
LEMMA ReloadStep ==
    ASSUME IInv, NEW p \in Processes, Reload(p)
    PROVE  IInv'
<1>1. /\ Recover(p) /\ UNCHANGED <<call, result, answers>>
      /\ pc[p] = "reloading" /\ pc' = [pc EXCEPT ![p] = "returning"]
  BY DEF Reload
<1> QED
  BY <1>1, RecoverStep DEF IInv, TypeOK, StoreSound, AnswersAreRows, CallsMatchMemory

-----------------------------------------------------------------------------
\* The steps that leave the journal and what is remembered of it alone.

\* An append that finds its key returns the row that is there.
LEMMA AppendDuplicateStep ==
    ASSUME IInv, NEW p \in Processes, AppendDuplicate(p)
    PROVE  IInv'
<1>1. /\ UNCHANGED <<meta, caseEvents, idempotency, memory, call, answers>>
      /\ pc' = [pc EXCEPT ![p] = "reloading"]
  BY DEF AppendDuplicate, store
<1>2. PICK row \in idempotency : /\ row.key = call[p].key
                                 /\ SameFingerprint(row, call[p])
                                 /\ result' = [result EXCEPT ![p] = AnswerTo(call[p], row)]
  BY DEF AppendDuplicate
<1>3. AnswerTo(call[p], row) = row
  BY <1>2, AnswerIsRow, RowVersions DEF IInv, TypeOK
<1>4. result' = [result EXCEPT ![p] = row] /\ row \in StoredRow
  BY <1>2, <1>3, RowVersions
<1>5. StoreSound' /\ MemoryIsPrefix'
  <2>1. StoreSound'
    BY <1>1, StoreFrame
  <2>2. MemoryIsPrefix'
    BY <1>1 DEF IInv, MemoryIsPrefix
  <2> QED BY <2>1, <2>2
<1> QED
  BY <1>1, <1>2, <1>4, <1>5 DEF IInv, TypeOK, StoreSound, AnswersAreRows, CallsMatchMemory

\* An append that fails writes nothing.
LEMMA AppendFailsStep ==
    ASSUME IInv, NEW p \in Processes, AppendFails(p)
    PROVE  IInv'
<1>1. /\ UNCHANGED <<meta, caseEvents, idempotency, memory, call, result, answers>>
      /\ pc' = [pc EXCEPT ![p] = "idle"]
  BY DEF AppendFails, store
<1>2. StoreSound' /\ MemoryIsPrefix'
  <2>1. StoreSound'
    BY <1>1, StoreFrame
  <2>2. MemoryIsPrefix'
    BY <1>1 DEF IInv, MemoryIsPrefix
  <2> QED BY <2>1, <2>2
<1> QED
  BY <1>1, <1>2 DEF IInv, TypeOK, StoreSound, AnswersAreRows, CallsMatchMemory

\* The answer returned is a row of the store, a step of the abstract log.
LEMMA ReturnStep ==
    ASSUME IInv, NEW p \in Processes, Return(p)
    PROVE  /\ IInv'
           /\ \E row \in idempotency : Log!Answer(row)
<1>1. /\ UNCHANGED <<meta, caseEvents, idempotency, memory, call, result>>
      /\ pc[p] = "returning" /\ pc' = [pc EXCEPT ![p] = "idle"]
      /\ answers' = answers \cup {result[p]}
  BY DEF Return, store
<1>2. result[p] \in idempotency
  BY <1>1 DEF IInv, AnswersAreRows
<1>3. StoreSound' /\ MemoryIsPrefix'
  <2>1. StoreSound'
    BY <1>1, StoreFrame
  <2>2. MemoryIsPrefix'
    BY <1>1 DEF IInv, MemoryIsPrefix
  <2> QED BY <2>1, <2>2
<1> QED
  BY <1>1, <1>2, <1>3
     DEF IInv, TypeOK, StoreSound, AnswersAreRows, CallsMatchMemory, Log!Answer

\* A process that dies forgets: the empty journal is a prefix of any.
LEMMA CrashStep ==
    ASSUME IInv, NEW p \in Processes, Crash(p)
    PROVE  IInv'
<1>1. /\ UNCHANGED <<meta, caseEvents, idempotency, call, result, answers>>
      /\ pc' = [pc EXCEPT ![p] = "down"] /\ memory' = [memory EXCEPT ![p] = Fresh]
  BY DEF Crash, store
<1>2. StoreSound'
  BY <1>1, StoreFrame
<1>3. memory' \in [Processes -> [events : Seq(StoredEvent), idempotency : SUBSET StoredRow]]
  <2>1. Fresh \in [events : Seq(StoredEvent), idempotency : SUBSET StoredRow]
    <3>1. <<>> \in Seq(StoredEvent) /\ {} \in SUBSET StoredRow
      OBVIOUS
    <3> QED BY ONLY <3>1 DEF Fresh
  <2>2. memory \in [Processes -> [events : Seq(StoredEvent), idempotency : SUBSET StoredRow]]
    BY DEF IInv, TypeOK
  <2> QED BY ONLY <1>1, <2>1, <2>2
<1>4. MemoryIsPrefix'
  <2> SUFFICES ASSUME NEW q \in Processes
               PROVE  /\ IsPrefix(memory'[q].events, caseEvents)
                      /\ memory'[q].idempotency =
                           {row \in idempotency : row.receipt.caseVersion <= Len(memory'[q].events)}
    BY <1>1 DEF MemoryIsPrefix
  <2>1. CASE q = p
    <3>1. memory'[q] = Fresh
      BY <2>1, <1>1 DEF IInv, TypeOK
    <3>2. IsPrefix(<<>>, caseEvents)
      BY PrefixFacts DEF IInv, TypeOK
    <3> QED
      BY <3>1, <3>2, RowVersions DEF Fresh
  <2>2. CASE q # p
    BY <2>2, <1>1 DEF IInv, TypeOK, MemoryIsPrefix
  <2> QED
    BY <2>1, <2>2
<1> QED
  BY <1>1, <1>2, <1>3, <1>4 DEF IInv, TypeOK, StoreSound, AnswersAreRows, CallsMatchMemory

-----------------------------------------------------------------------------
\* The append.  Its row covers exactly the events it adds, which no earlier row
\* reaches, and whoever remembers an earlier journal remembers a prefix of the
\* new one with the same rows.  CommandLog applies the command.
LEMMA AppendAtomicStep ==
    ASSUME IInv, NEW p \in Processes, AppendAtomic(p)
    PROVE  /\ IInv'
           /\ \E k \in Keys, c \in Contents : Log!Apply(k, c)
<1> DEFINE c == call[p].content
           n == Len(caseEvents)
           m == Len(Emits[c])
           new == PreparedRow(p)
<1>1. /\ call[p] \in Command /\ c \in Contents /\ call[p].key \in Keys
      /\ caseEvents \in Seq(StoredEvent) /\ n \in Nat
  BY DEF IInv, TypeOK, Command
<1>2. /\ pc[p] = "appending"
      /\ \A row \in idempotency : row.key # call[p].key
      /\ memory[p].events = caseEvents
      /\ Len(Chain(p)) <= MaxEvents
      /\ caseEvents' = Chain(p)
      /\ idempotency' = idempotency \cup {new}
      /\ memory' = [memory EXCEPT ![p] =
            [events |-> Chain(p), idempotency |-> memory[p].idempotency \cup {new}]]
      /\ result' = [result EXCEPT ![p] = new]
      /\ pc' = [pc EXCEPT ![p] = "returning"]
      /\ UNCHANGED <<meta, call, answers>>
  BY DEF AppendAtomic, ValidateAppendEvents
<1>3. Chain(p) = caseEvents \o Log!EventsOf(c)
  BY <1>2 DEF Chain
<1>4. /\ Chain(p) \in Seq(StoredEvent)
      /\ m \in Nat /\ m >= 1 /\ Len(Chain(p)) = n + m
      /\ \A i \in 1..n : Chain(p)[i] = caseEvents[i]
      /\ \A i \in (n + 1)..(n + m) : Chain(p)[i].payload = c
  <2>1. /\ Log!EventsOf(c) \in Seq(StoredEvent) /\ Len(Log!EventsOf(c)) = m
        /\ m \in Nat /\ m >= 1
        /\ \A i \in 1..m : Log!EventsOf(c)[i].payload = c
    BY <1>1, EventsOfFacts
  <2> HIDE DEF m, c
  <2>2. /\ Chain(p) \in Seq(StoredEvent) /\ Len(Chain(p)) = n + m
        /\ \A i \in 1..n : Chain(p)[i] = caseEvents[i]
    <3>1. /\ caseEvents \o Log!EventsOf(c) \in Seq(StoredEvent)
          /\ Len(caseEvents \o Log!EventsOf(c)) = Len(caseEvents) + Len(Log!EventsOf(c))
          /\ \A i \in 1..Len(caseEvents) : (caseEvents \o Log!EventsOf(c))[i] = caseEvents[i]
      <4>1. caseEvents \in Seq(StoredEvent) /\ Log!EventsOf(c) \in Seq(StoredEvent)
        BY <1>1, <2>1
      <4> QED
        BY ONLY <4>1, ConcatFacts
    <3> QED
      BY <3>1, <1>3, <2>1
  <2>3. ASSUME NEW i \in (n + 1)..(n + m) PROVE Chain(p)[i].payload = c
    <3>1. i - n \in 1..m /\ Chain(p)[i] = Log!EventsOf(c)[i - n]
      BY <1>1, <1>3, <2>1, ConcatFacts
    <3> QED
      BY <3>1, <2>1
  <2> QED
    BY <2>1, <2>2, <2>3
<1>5. call[p].expectedCaseVersion = n
  BY <1>2 DEF IInv, CallsMatchMemory
<1>6. new = [key |-> call[p].key, content |-> c, expectedCaseVersion |-> n,
             receipt |-> [caseVersion |-> n + m, eventIds |-> (n + 1)..(n + m),
                          journalHeadChecksum |-> Chain(p)]]
  BY <1>1, <1>4, <1>5 DEF PreparedRow, Log!Row, Log!Receipt
<1>7. new \in StoredRow
  BY <1>1, <1>4, <1>6 DEF StoredRow
<1>8. /\ \A k \in 0..n : SubSeq(Chain(p), 1, k) = SubSeq(caseEvents, 1, k)
      /\ SubSeq(Chain(p), 1, n + m) = Chain(p)
  BY <1>1, <1>3, <1>4, PrefixFacts, EventsOfFacts
<1> HIDE DEF new, c, m, n
<1>9. \A row \in idempotency :
        /\ row \in StoredRow /\ row.receipt.caseVersion \in Nat
        /\ row.receipt.caseVersion <= n
        /\ row.receipt.eventIds \subseteq 1..n
        /\ row.receipt.caseVersion = row.expectedCaseVersion + Len(Emits[row.content])
        /\ row.receipt.eventIds = (row.expectedCaseVersion + 1)..row.receipt.caseVersion
        /\ row.receipt.journalHeadChecksum = SubSeq(caseEvents, 1, row.receipt.caseVersion)
  <2> TAKE row \in idempotency
  <2>1. row \in StoredRow /\ row.receipt.caseVersion \in Nat /\ row.receipt.caseVersion <= n
    BY RowVersions DEF n
  <2>2. /\ row.receipt.caseVersion = row.expectedCaseVersion + Len(Emits[row.content])
        /\ row.receipt.eventIds = (row.expectedCaseVersion + 1)..row.receipt.caseVersion
        /\ row.receipt.journalHeadChecksum = SubSeq(caseEvents, 1, row.receipt.caseVersion)
    BY DEF IInv, RowsAreAppends
  <2>3. row.expectedCaseVersion \in Nat
    BY <2>1 DEF StoredRow
  <2> QED
    BY <1>1, <2>1, <2>2, <2>3
<1>10. RowsAreAppends'
  <2> SUFFICES ASSUME NEW row \in idempotency'
               PROVE  /\ row.receipt.caseVersion = row.expectedCaseVersion + Len(Emits[row.content])
                      /\ row.receipt.caseVersion <= Len(Chain(p))
                      /\ row.receipt.eventIds = (row.expectedCaseVersion + 1)..row.receipt.caseVersion
                      /\ row.receipt.journalHeadChecksum = SubSeq(Chain(p), 1, row.receipt.caseVersion)
    BY <1>2 DEF RowsAreAppends
  <2>1. CASE row = new
    BY <2>1, <1>1, <1>4, <1>6, <1>8 DEF m
  <2>2. CASE row \in idempotency
    <3>1. row.receipt.caseVersion \in 0..n
      BY <2>2, <1>1, <1>9
    <3>2. SubSeq(Chain(p), 1, row.receipt.caseVersion) = SubSeq(caseEvents, 1, row.receipt.caseVersion)
      BY <3>1, <1>8
    <3>3. row.receipt.caseVersion <= Len(Chain(p))
      BY <3>1, <1>1, <1>4
    <3> QED
      BY <2>2, <1>9, <3>2, <3>3
  <2> QED
    BY <2>1, <2>2, <1>2
<1>11. KeysAreUnique'
  <2>1. new.key = call[p].key
    BY <1>6
  <2> QED
    BY <2>1, <1>2 DEF IInv, KeysAreUnique
<1>12. EventsHaveRows'
  <2> SUFFICES ASSUME NEW i \in 1..(n + m)
               PROVE  \E row \in idempotency' :
                        /\ i \in row.receipt.eventIds
                        /\ Chain(p)[i].payload = row.content
                        /\ \A other \in idempotency' : i \in other.receipt.eventIds => other = row
    BY <1>2, <1>4 DEF EventsHaveRows
  <2>1. CASE i \in 1..n
    <3>1. PICK row \in idempotency :
             /\ i \in row.receipt.eventIds
             /\ caseEvents[i].payload = row.content
             /\ \A other \in idempotency : i \in other.receipt.eventIds => other = row
      BY <2>1 DEF IInv, EventsHaveRows, n
    <3>2. i \notin new.receipt.eventIds
      BY <2>1, <1>1, <1>4, <1>6
    <3>3. Chain(p)[i].payload = row.content
      BY <2>1, <3>1, <1>4
    <3> QED
      BY <3>1, <3>2, <3>3, <1>2
  <2>2. CASE i \in (n + 1)..(n + m)
    <3>1. i \in new.receipt.eventIds /\ Chain(p)[i].payload = new.content
      BY <2>2, <1>4, <1>6
    <3>2. \A other \in idempotency : i \notin other.receipt.eventIds
      BY <2>2, <1>1, <1>4, <1>9
    <3> QED
      BY <3>1, <3>2, <1>2
  <2> QED
    BY <2>1, <2>2, <1>1, <1>4
<1>13. MemoryIsPrefix'
  <2> SUFFICES ASSUME NEW q \in Processes
               PROVE  /\ IsPrefix(memory'[q].events, Chain(p))
                      /\ memory'[q].idempotency =
                           {row \in idempotency' : row.receipt.caseVersion <= Len(memory'[q].events)}
    BY <1>2 DEF MemoryIsPrefix
  <2>1. CASE q = p
    <3>1. memory'[q] = [events |-> Chain(p), idempotency |-> memory[p].idempotency \cup {new}]
      BY <2>1, <1>2 DEF IInv, TypeOK
    <3>2. IsPrefix(Chain(p), Chain(p))
      BY <1>4, PrefixFacts
    <3>3. memory[p].idempotency = idempotency
      <4>1. memory[p].idempotency = {row \in idempotency : row.receipt.caseVersion <= n}
        BY <1>2 DEF IInv, MemoryIsPrefix, n
      <4> QED
        BY <4>1, <1>9
    <3>4. \A row \in idempotency' : row.receipt.caseVersion <= Len(Chain(p))
      BY <1>10, <1>2 DEF RowsAreAppends
    <3> QED
      BY <3>1, <3>2, <3>3, <3>4, <1>2
  <2>2. CASE q # p
    <3>1. memory'[q] = memory[q] /\ memory[q].events \in Seq(StoredEvent)
      BY <2>2, <1>2 DEF IInv, TypeOK
    <3>2. IsPrefix(memory[q].events, caseEvents)
      BY DEF IInv, MemoryIsPrefix
    <3>3. IsPrefix(memory[q].events, Chain(p))
      BY <3>1, <3>2, <1>1, <1>3, PrefixFacts, EventsOfFacts
    <3>4. Len(memory[q].events) \in Nat /\ Len(memory[q].events) <= n
      BY <3>1, <3>2 DEF IsPrefix, n
    <3>5. ~(new.receipt.caseVersion <= Len(memory[q].events))
      BY <3>4, <1>1, <1>4, <1>6
    <3> QED
      BY <3>1, <3>3, <3>5, <1>2 DEF IInv, MemoryIsPrefix
  <2> QED
    BY <2>1, <2>2
<1>14. TypeOK'
  <2>1. memory' \in [Processes -> [events : Seq(StoredEvent), idempotency : SUBSET StoredRow]]
    BY <1>2, <1>4, <1>7 DEF IInv, TypeOK
  <2>2. /\ caseEvents' \in Seq(StoredEvent) /\ idempotency' \subseteq StoredRow
        /\ result' \in [Processes -> StoredRow \cup {NoRow}]
    BY <1>2, <1>4, <1>7 DEF IInv, TypeOK
  <2> QED
    BY <2>1, <2>2, <1>2 DEF IInv, TypeOK
<1>15. AnswersAreRows' /\ CallsMatchMemory'
  BY <1>2 DEF IInv, TypeOK, AnswersAreRows, CallsMatchMemory
<1>16. Log!Apply(call[p].key, c)
  <2>1. new = Log!Row(call[p].key, c, Len(caseEvents),
                      Log!Receipt(caseEvents \o Log!EventsOf(c), Len(Emits[c])))
    BY <1>3, <1>5 DEF new, PreparedRow, n, c
  <2> QED
    BY <2>1, <1>2, <1>3 DEF Log!Apply
<1> QED
  BY <1>1, <1>10, <1>11, <1>12, <1>13, <1>14, <1>15, <1>16 DEF IInv

-----------------------------------------------------------------------------
\* Every step preserves the invariant and is a step of CommandLog or none.
LEMMA NextIInv ==
    ASSUME IInv, [Next]_vars
    PROVE  IInv' /\ [Log!Next]_(Log!vars)
<1>1. CASE UNCHANGED vars
  <2>1. IInv'
    BY <1>1 DEF vars, IInv, TypeOK, RowsAreAppends, KeysAreUnique, EventsHaveRows,
                AnswersAreRows, CallsMatchMemory, MemoryIsPrefix
  <2> QED
    BY <2>1, <1>1 DEF vars, Log!vars
<1>2. CASE Next
  <2>1. PICK p \in Processes :
           \/ Start(p) \/ Project(p)
           \/ \E c \in Command : HandleKnownKey(p, c)
           \/ \E c \in Command : HandleRefused(p, c)
           \/ \E c \in Command : HandleAccepted(p, c)
           \/ AppendAtomic(p) \/ AppendDuplicate(p) \/ AppendFails(p)
           \/ Reload(p) \/ Return(p) \/ Crash(p)
    BY <1>2 DEF Next
  <2>2. IInv'
    BY <2>1, StartStep, ProjectStep, HandleKnownKeyStep, HandleRefusedStep, HandleAcceptedStep,
       AppendAtomicStep, AppendDuplicateStep, AppendFailsStep, ReloadStep, ReturnStep, CrashStep
  <2>3. CASE \/ \E c \in Command : HandleKnownKey(p, c)
             \/ AppendAtomic(p)
             \/ Return(p)
    BY <2>2, <2>3, HandleKnownKeyStep, AppendAtomicStep, ReturnStep DEF Log!Next
  <2>4. CASE \/ Start(p) \/ Project(p) \/ Reload(p)
             \/ \E c \in Command : HandleRefused(p, c)
             \/ \E c \in Command : HandleAccepted(p, c)
    BY <2>2, <2>4 DEF Start, Project, Reload, HandleRefused, HandleAccepted, Recover, Log!vars
  <2>5. CASE AppendDuplicate(p) \/ AppendFails(p) \/ Crash(p)
    BY <2>2, <2>5 DEF AppendDuplicate, AppendFails, Crash, store, Log!vars
  <2> QED
    BY <2>1, <2>2, <2>3, <2>4, <2>5
<1> QED
  BY <1>1, <1>2

\* The invariant of every reachable state.
LEMMA AlwaysIInv == Spec => []IInv
<1>1. IInv /\ [Next]_vars => IInv'
  BY NextIInv
<1> QED
  BY <1>1, InitIInv, PTL DEF Spec

\* Processes, tables and answers keep their types, in particular whatever is
\* recovered was written by an append.
THEOREM TypeCorrect == Spec => []TypeOK
<1>1. IInv => TypeOK
  BY DEF IInv
<1> QED
  BY <1>1, AlwaysIInv, PTL

\* What any coordinator holds in memory, after any crashes, races and retries,
\* is a prefix of case_events with exactly the receipts of that prefix.
THEOREM MemoryNeverRunsAhead == Spec => []MemoryIsPrefix
<1>1. IInv => MemoryIsPrefix
  BY DEF IInv
<1> QED
  BY <1>1, AlwaysIInv, PTL

\* However many processes race, crash between commit and answer, and retry,
\* every event belongs to one applied command, and all answers under one key
\* are one answer.
THEOREM CommandsTakeEffectOnce == Spec => []ExactlyOnce
<1>1. ASSUME IInv PROVE ExactlyOnce
  <2>1. Log!ReceiptsPartitionLog
    <3>1. ASSUME NEW row \in idempotency
          PROVE  row.receipt.eventIds \subseteq 1..Len(caseEvents)
      <4>1. row \in StoredRow /\ row.receipt.caseVersion \in Nat
              /\ row.receipt.caseVersion <= Len(caseEvents)
        BY <1>1, RowVersions
      <4>2. row.expectedCaseVersion \in Nat
        BY <4>1 DEF StoredRow
      <4>3. row.receipt.eventIds = (row.expectedCaseVersion + 1)..row.receipt.caseVersion
        BY <1>1 DEF IInv, RowsAreAppends
      <4>4. Len(caseEvents) \in Nat
        BY <1>1 DEF IInv, TypeOK
      <4> QED
        BY <4>1, <4>2, <4>3, <4>4
    <3> QED
      BY <1>1, <3>1 DEF IInv, RowsAreAppends, EventsHaveRows, Log!ReceiptsPartitionLog
  <2>2. Log!AnswersAgree
    BY <1>1 DEF IInv, KeysAreUnique, AnswersAreRows, Log!AnswersAgree
  <2> QED
    BY <2>1, <2>2 DEF ExactlyOnce
<1> QED
  BY <1>1, AlwaysIInv, PTL

\* The journal shared by any number of processes implements the log of
\* commands that are applied at most once and answered with one receipt.
THEOREM JournalImplementsCommandLog == Spec => ImplementsCommandLog
<1>1. Init => Log!Init
  BY DEF Init, Log!Init
<1>2. IInv /\ [Next]_vars => [Log!Next]_(Log!vars)
  BY NextIInv
<1> QED
  BY <1>1, <1>2, AlwaysIInv, PTL DEF Spec, ImplementsCommandLog, Log!Spec
=============================================================================
