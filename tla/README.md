# Verification of the Stadtstack case runtime

TLA+ models of the parts of Stadtstack that own a municipal case: the
coordinator that accepts commands and derives what administration, council and
public see; the journal it runs on; the admission that opens a case from signed
evidence; the durable case store with its receipts, seals, recovery and
migration; the review of a case over HTTP; the processes that serve it and the
public projection of it; and the older in-memory kernel with its city control
plane, relay and companions. TLC checks the models on small instances; TLAPS
proves the safety properties of the coordinator, the journal, the admission, the
store and its migration, both runtimes and the control plane for every instance.

Paths such as `src/src/...` are relative to the repository's parent directory.

## 1. The system

| Part | State | Operations | Hard because |
|---|---|---|---|
| **Case coordinator** `civic-case-coordinator.ts` | an append-only journal, idempotency rows | `handle` (14 commands), `project` | rules are checked twice, by `handle` and by `replayJournal`; what is "current" depends on the order of corrections and retractions |
| **Case journal** `adapters/sqlite-journal-adapter.ts` | three tables | `recover`, `appendAtomic` | several processes, crashes around the commit, retries |
| **Case admission** `roebel-control-service.ts`, `adapters/sqlite-atomic-topic-case-admission.ts`, `citizen-adoption-evidence.ts`, `topic-case-admission.ts` | case, root claim, receipt, nonce and outbox tables | `respond`, `admit*`, verification | three awaits between the first look and the commit, during which receipts expire, eligibility is withdrawn, another process commits, or the store closes |
| **Durable case store** the same adapter with `case-store-epoch.ts`, `case-shutdown-seal.ts`, `case-durable-deployment-claim.ts` | a volume: bootstrap, claim, open epoch, recovery marker, seal, database, WAL | opening, `sealAndClose`, `close` | a crash between any two file operations; copies of a volume; another release or configuration on the same volume |
| **Synthetic review migration** the same adapter, `staging-synthetic-review-migration-authority.ts` | intent, candidate, receipt on two volumes | `rehearse`, `activate...` | six files, a crash between any two, a plan in force for a while, a clock that may be set back |
| **Continuation and review** `durable-case-continuation.ts`, `administration-review-service.ts`, `administration-review-server.ts`, `staging-administration-authenticator.ts`, `adapters/citizen-brief-readiness-adapter.ts` | the continuation journal, a count of active requests, grants | assign, draft, review, prepare and apply a brief | a view read before an await is used after it; several tabs; lost replies; grants that run out |
| **Binding projection** `case-binding-outbox-projector.ts` with its HTTP client and server, `public-case-binding-server.ts` | in-memory projection and cursor | `reconcile`, `replay`, reads | pages of an outbox that grows; replies that are late, lost, altered or another request's |
| **Listener lifecycle** `staging-case-runtime-lifecycle.ts` | phase, start/close/release promises, open requests | `start`, `close`, bind and drain callbacks | start and close race; handlers that never answer |
| **Control runtime** `staging-case-process-lifecycle.ts`, `staging-case-control-runtime.ts` | phase, children, release promise | `start`, `close` | rollback of a half-done start, evidence that expires between two binds, a release that fails |
| **Public binding runtime** `staging-public-case-binding-runtime.ts` | phase, timer, two children | `start`, `close`, `reconcile` | three promises between two awaits each |
| **Civic kernel and city control plane** `civic-kernel.ts`, `city-control-plane.ts` | in-memory maps, and ledgers of what was dispatched | one command per step of the older workflow | two copies of one truth; replaced answers; long command sequences |
| **Relay and discussion adapters** `adapters/nostr-relay-transport.ts`, `adapters/discussion-adapter.ts` | caches of published and seen events | publish, fetch back, build the artifact | two signatures of one event, a relay that forgets |
| **Companions** `companion-runtime.ts`, `adapters/companion-harness.ts` | the calls under way | `prepareTask`, validation | a worker that mixes questions up or answers late |
| **Public knowledge** `public-knowledge.ts` | none | `mapProjection` | shows a chain of three results, each of which may be withdrawn |
| Recovery attestation, control preflight | none (signed documents) | verification | freshness |
| Public Mecky, administration workspace, public exchange adapter, reference browser | none or caches | projections | |

How they interact: the control runtime opens the store, whose constructor takes
the volume's owner lock and walks through its receipts; three HTTP listeners
(probe, outbox, admission, bound in that order) call the admission and the
outbox; every accepted command goes through a coordinator whose journal port is
the store. The review service calls the continuation, which opens the same
coordinator over the continuation journal. The public binding runtime, a process
of its own, pulls the outbox and serves a projection of it. On shutdown the
listeners close in reverse and the release callback seals the store.

What makes each part correct: an accepted journal always replays, and nothing
withdrawn is ever shown as current (coordinator); each command takes effect
once and every retry gets the first receipt (journal, continuation); one case
per discussion, and none on evidence that no longer stands (admission); a seal
is never stale, a crash never locks out the rightful owner, a copy is never
opened without signed recovery, and nobody serves half an import (store,
migration); citizens read what the steward was shown (review); the public
projection has no holes and catches up by itself (projection); start and close
always settle, nothing listens after close, and the store is released last
(runtimes); ledgers and maps agree (control plane).

## 2. Modules

| Module | Models | Extends |
|---|---|---|
| `CaseReplay` | options, the replayed case, one operator per event of `replayJournal`, `briefIsCurrent` and its siblings | |
| `CaseProjection` | `buildProjection` and `departmentPackageProjection` | `CaseReplay` |
| `CaseCoordinator` | `handle`: one action per command; `project` | `CaseProjection` |
| `PublicKnowledge` | `mapProjection`, what Mitmachen shows of the case | `CaseCoordinator` |
| `CommandLog` | the abstract promise of a durable journal | |
| `DurableJournal` | coordinators of several processes over the SQLite journal; implements `CommandLog` | |
| `AdoptionEvidence` | the chain of signed events, receipt, acceptance, status, and their verification | |
| `AtomicAdmission` | `respond` and `admit`, from await to await and transaction to transaction | `AdoptionEvidence` |
| `DurableCaseStore` | one action per file operation of opening, recovering and sealing a volume | |
| `ReviewMigration` | one action per file operation of importing a case to another volume | |
| `CaseContinuation` | the continuation's methods and the readiness of a brief | `CaseProjection`, instantiates `CaseCoordinator` |
| `AdministrationReview` | HTTP server, review service and grants, with browser tabs | `CaseContinuation` |
| `RuntimeLifecycle` | the listener lifecycle, per listener | |
| `ControlRuntime` | process lifecycle and control runtime over three listeners | `RuntimeLifecycle` |
| `BindingReplay` | projector, HTTP client and server, public reader | |
| `PublicBindingRuntime` | the public process: start, close, timer | `RuntimeLifecycle`, `BindingReplay` |
| `DiscussionArtifact` | the two validators of a signed discussion event | |
| `CivicKernel` | the kernel's maps and commands | `DiscussionArtifact` |
| `CompanionHarness` | the task given to a worker and the validation of its answer | |
| `CityControlPlane` | the control plane's ledgers and requests, relay transport, companion calls | `CivicKernel`, `CompanionHarness` |
| `MC*` | the instances TLC checks | |
| `*Proofs` | the theorems about a module, with their lemmas (section 5) | the module |

### Coordinator
`journal` is `state.events` without the checksums that chain it, `idempotency`
the map of accepted commands, and `replayed` is what `replayJournal(journal)`
returns. The code recomputes it on each call; the model keeps it and extends it
by the events of each command (`ReplayEvent` is the body of the loop), which is
the same function evaluated incrementally. `replayed.valid` is FALSE once an
event has been refused. Texts, citations and signatures are abstracted: a draft
is a member of `Drafts`, so that "the same text again" can happen, and a
checksum is the record it digests. Event ids are positions in the journal, as in
the code, where the id contains the case version. `Init` ranges over every
combination of options that `normalizeOptions` accepts, so every lane (plain,
signed admission, scoped, citizen adoption, synthetic adoption, synthetic
review) is explored. An action is a call of `handle` that is accepted; a refused
call throws before it changes anything. Retries are modelled in
`DurableJournal` and `CaseContinuation`. `PublicKnowledge` reads the projection
of the case as it stands; the number of departments it wants is `RequiredCount`.
`mapProjection` throws unless the suggestion's key is the discussion root's. In
the adoption lanes that key is the adopter's, which the evidence does not tie to
the root's author, so `MitmachenShowsOneChain` is about any two `Pubkeys`: an
adopted suggestion is shown only where they are the same.

### Journal
`handle` is synchronous, so two processes interleave only between their SQLite
transactions: `Start`/`Recover` (load), `AppendAtomic`/`AppendDuplicate`/
`AppendFails`, and `Reload` after a duplicate. A process may crash anywhere,
in particular between commit and `Return`. `journalHeadChecksum` digests the
chain and is modelled as the chain. `answers` is a history variable: each
command a caller sent and the receipt it was given.

### Admission
A request has a place (`pc`), the bundle and actor it was sent with (`call`), the
times and status it has read (`work`) and its answer (`outcome`). A step is the
code between two awaits, and after the last await the code between two
transactions: only there can another process get in. `units` are the committed
cases; the meta row, root claim, events and receipt of one case are written in
one transaction and are one record. `clock` is in seconds; the live verification
of `AdoptionEvidence` reads it once, the transaction reads it again, and
`AdoptionEvidence` also has the verification of a recorded case, which every
later start of a process repeats. Whether all signatures and digests of a bundle
verify is one Boolean; `bytes` tells two encodings of one event apart.

### Store and migration
`files` has the content of each volume and `proc` the stage, claim,
configuration and evidence of each process. Each write or removal of a receipt
is an action; the code makes each of them durable (temporary file, fsync, rename
or unlink, fsync of the directory) before the next, so a crash falls between
them. `database.content` is the sequence of admissions, each tagged with the
volume it happened on, which is what the recovery evidence of a seal identifies.
`sidecars` says that a non-empty `-wal` or `-shm` lies beside the database.
A new database comes about in four steps (`CreateFile`, `WriteHeader`,
`CreateTables`, `InsertMeta`), and `schema` says how far it has come; the tables
are seven transactions, of which all but the last leave it "partial".
`Restore`, `Attest` and `Expire` are the operators' actions the ADRs describe.
`Refuse` is a constructor that throws. The owner lock goes with its process.

`ReviewMigration` has a source and a target volume with the same kinds of file,
the operators' plan, and one activation whose `stage` names the next file it
writes. The ordinary owner of a volume is "down" or "running"; its startup in
detail is `DurableCaseStore`'s. A checksum of a candidate is the seal it was
made from. The clock may be set back at any time.

### Continuation and review
`CaseContinuation` has each method as an operator with the reply as its last
parameter; the commands themselves are those of `CaseCoordinator`, taken with
`INSTANCE` over the same variables, so the review runs on the real coordinator.
`commands` keeps the accepted commands beside `idempotency`, to tell a retry from
another command with the same key. A request of `AdministrationReview` is
"reading" (its body is awaited), "viewed" (after the first await of `respond`),
"answered" or "lost". A tab sends any request its role offers with the version
of any view at most `MaxLag` old.

### Runtimes and projection
A listener has the state of its two promises (`startState`, `closeState`), the
state of the Node server, the requests whose connection is open and the
handlers still running. Node's event loop runs one callback at a time, so an
action is the code from one await to the next. `ControlRuntime` has one `start`
and one `close` task, each with a place and the child it is at, the shared
release promise and the store as `open`, `sealed`, `closed` or, after a release
that threw, `unsealed`.

`BindingReplay` has the outbox as a sequence of rows with gaps in their sequence
numbers, the projector's receipts and cursor, the reconciliation under way with
the rows it has staged, and at most one page on the wire. A page is what the
format carries; `Misdeliver` puts a page there that answers another request.
`PublicBindingRuntime` adds the places of the start promise, the close promise
and the pull, and the timer.

### Kernel and control plane
`CivicKernel` keeps the kernel's maps under their names; `CityControlPlane` keeps
`responseInputs`, `responseReviews`, `publishedBrief` and `participation`, by
which it answers a repeated request without dispatching. `ingestDiscussion` and
`askCompanion` wait, for the relay and for a worker; their calls are in `ingests`
and `asks`. A request that throws before it has changed anything is not a step.
The relay holds the first event of each id it was sent.

Ids of suggestions, departments and actors are free strings, joined with a colon
to the id of a package and to the key of a review. `Parts` gives the parts of an
id between its colons; a joined id is the concatenation, so package ids can
coincide (`shadowed` are the packages that `find` then never returns) and one can
be the beginning of another, which is what `DropReviews` goes by. An event's
`createdAt` is any number for the transport, and one of `Timestamps` (safe
integers, not negative) for the adapter.

## 3. Runs

| Run | Instance | Shows |
|---|---|---|
| `case_one_department` | 1 department, 2 drafts, 14 events | accepted journals replay; brief, participation and outcome are current exactly until something they rest on is withdrawn; no revival; Mitmachen shows them exactly while one unbroken chain stands, for two keys that may or may not be the same |
| `case_two_departments` | 2 required departments, 1 draft, 11 events | four-eyes rule for whatever public and council see; the council counts every required department |
| `journal_shared` | 2 processes with the same options, 1 with others; 2 keys | exactly once, retries agree, memory is a prefix of the store, refinement of `CommandLog` |
| `journal_adoption_lane` | an adoption lane | **violation**, finding 1 |
| `store_recovery` | 2 processes, 2 volumes, 2 releases on one of them, a wrong configuration | seals never stale, honest crash states, copies need recovery, the exact retry succeeds (with two exceptions, section 4), a wrong configuration changes nothing |
| `store_interrupted_recovery` | 1 process, 2 volumes, 1 release | **violation**, finding 2 |
| `control_start_close` | 3 listeners, 1 request each | binding order, release last, sealing only after readiness, honest reports, promises settle |
| `admission` | 2 requests, 2 processes, 2 stewards, 2 nonces, 1 case per store | one case per discussion root; a retry is told what happened; everything committed can be read back; a withdrawn eligibility admits nothing new once its last status is too old; handlers that outlive their adapter write nothing |
| `public_runtime` | 2 listeners, pages of 2, at most 3 receipts, 4 rows | the projection is a prefix of the outbox; health tells the truth and close leaves nothing behind; once pulls get through, every receipt becomes public |
| `review` | 4 tabs (2 of the steward), 1 department, 2 brief ids, at most 2 requests at a time | citizens read only what the steward previewed; a receipt is that request's; nobody appends to a version they have not seen or after their grant ran out |
| `city` | 2 departments, 3 suggestions of which 2 are made, 9 events, 4 questions | ledgers and maps agree; a public brief rests on reviewed, unchanged answers; a receipt of a discussion is of what the case holds; a companion's answer is to its own question |
| `review_migration` | 2 volumes, times 0..3, plans of length 2 | nobody serves half an import; the same plan finishes what an attempt left |

Bounds.

- *Case.* 14 events are the opening, assignment, draft, review, brief,
  participation and outcome (9) and a whole second round of correction, review,
  brief and retraction, so everything that can be withdrawn is withdrawn after
  everything that rests on it. 11 events hold two departments' answers, the
  brief and a withdrawal with a new review. The code wants eight required
  departments (`RequiredCount` is the constant); its rules treat each alike.
- *Journal.* Two processes with the same options are enough for a lost race, a
  stale reader and a retry elsewhere.
- *Store.* One admission per volume is enough to make a seal stale and a copy
  differ. `Deployments` lists what a process is started with: either release of
  the first volume, the release of the second, no claim on the first, and one
  release with a configuration that is not the database's. Processes are
  interchangeable, which the symmetry uses.
- *Admission.* The bundles are one adoption, the same with other signature bytes,
  a second adoption of the same suggestion, an adoption in another discussion,
  a chain whose suggestion is no later than the answer and one with a second
  answer. They race in all three lanes at one time; in the citizen lane two of
  them run until every receipt has expired. Room for one case makes the second
  meet the store's limit. Requests, processes and stewards are interchangeable;
  nothing here is about liveness.
- *Public runtime.* Two pages and a remainder; a fourth row is one more than the
  projection may hold. It starts with an empty outbox or with two rows
  with gaps.
- *Review.* Seven events are the admission (3), assignment, draft, review and
  brief. Two requests at a time fill the server, so a third is refused.
- *City.* Each workload opens one part: two signatures of one event with a relay
  that loses twice, odd events, two suggestions in the offices, and two pairs of
  questions about a case that changes. The ids are chosen so that they run into
  one another: with one second suggestion two packages have one id, with the
  other an id is the beginning of two more and two packages share a review key.
- *Migration.* A plan of length 2 within times 0..3 begins late, runs out and is
  renewed; one sealing per volume after the start lets the source move on.

The journals', stores' and clocks' bounds stop growth only, which is why those
runs do not check deadlock; a lifecycle that is closed really stops.

Fairness. `RuntimeLifecycle` assumes weak fairness of `Runs`: a bind reports
success or failure, a settled promise continues, a timer fires. Those are
promises of Node's event loop. `ControlRuntime` and `PublicBindingRuntime` add
fairness of the continuations of `start`, `close` and, for the latter, the pull
timer; and `OutboxServes`, that the outbox of a control process that is up
answers a page. Nothing is assumed of clients: a handler need never answer, no
caller need call `close`, and an outage may last for ever (`EventuallyPublic`
is about pulls that get through). The other specifications are safety
specifications.

Each property has a mutant: an operator with a plausible bug, defined next to
the one it stands for (`BriefIsCurrentByChecksum`, `KeepPriorSeal`,
`StopChildUnawaited`, `SameKey`, `StartedNow`, ...), with which TLC finds the
property violated.

## 4. Findings

1. **`journal_adoption_lane`**. `sqlite-journal-adapter.ts` writes events of any
   type but reads only those in `EVENT_TYPES`, which lacks
   `citizen_adoption_admitted_v1` and `synthetic_adoption_admitted_v1`. A durable
   coordinator of an adoption lane over this adapter acknowledges its admission,
   and its journal can never be recovered. The staging runtime uses the other
   adapter and is not affected.
2. **`store_interrupted_recovery`**. ADR 0023 counts "while the recovered
   database is open" among the states from which a recovery can be retried. The
   preflight refuses a marked volume whose WAL or WAL index is not empty, which
   is how a killed process leaves it. `RetrySucceeds` shows that beside this
   there is one other exception, the first observation below.

Observations, where no text of the repository says otherwise and the models
simply follow the code:

- A process that dies while it creates a database, after the header and before
  the last table, leaves a schema the preflight refuses
  (`sqlite-atomic-topic-case-admission.ts:1121`, `atomic_admission_schema_invalid`)
  at every later start. Nothing has been admitted by then, so nothing is lost,
  but the volume must be emptied by hand.
- A replaced answer drops every review key that begins with its package's id and
  a colon (`city-control-plane.ts:563`). With suggestions `s` and `s:d1`, a new
  answer to `s:d1` also drops the review of `s:d1:d1`, which the kernel keeps as
  reviewed; a repeated review is then dispatched again and changes nothing. If a
  reviewer's id has a colon too, two packages can share a key, and the review of
  the second is taken for a replay of the first's. `LedgersAgree` says what holds
  nevertheless: every key in the ledger is of a package that is reviewed in the
  kernel, and for a package whose key no other answered package's id begins
  (`StandsAlone`) ledger and kernel agree.
- An adopted suggestion whose adopter did not write the discussion's root is
  never shown by Mitmachen (`public-knowledge.ts:320`), though the coordinator
  carries such a case to its outcome.
- An event whose `created_at` is negative or no integer is published to the relay
  and only then refused (`discussion-adapter.ts:347`).
- In the topic lane, an admission whose transaction finds its case already
  there is answered "duplicate" once root, candidate and case agree; the rest of
  the two requests is not compared (`sqlite-atomic-topic-case-admission.ts:1915`).
- A review in the civic kernel names a package, not the answer it read
  (`civic-kernel.ts:978`); an answer replaced meanwhile is what gets reviewed.
- The coordinator records participation once per case
  (`civic-case-coordinator.ts:3151`), so after a correction of the brief there is
  no second chain for Mitmachen to show.

## 5. Proofs

Eight modules hold theorems. Each proves, for every value of the constants (any
number of processes, volumes, listeners, departments, requests, rows; journals
of every length), what the runs check on one instance. The theorems rest on the
named assumptions of the modules and on nothing else.

| Module | Theorems (property) |
|---|---|
| `CaseCoordinatorProofs` | `TypeCorrect` (`TypeOK`), `AcceptedJournalsReplay` (`JournalReplayable`), `BriefIsCurrentByOrder` (`BriefCurrency`), `ParticipationIsCurrentByOrder` (`ParticipationCurrency`), `OutcomeIsCurrentByOrder` (`OutcomeCurrency`), `AnswersAreFourEyes` (`PublicAnswersFourEyes`), `CouncilCountIsExact` (`CouncilCountsRequired`), `BriefsNeverRevive` (`BriefNeverRevives`), `WithdrawalsAreFinal` (`WithdrawnForGood`), `MitmachenIsOneChain` (`MitmachenShowsOneChain`) |
| `DurableJournalProofs` | `TypeCorrect`, `MemoryNeverRunsAhead` (`MemoryIsPrefix`), `CommandsTakeEffectOnce` (`ExactlyOnce`), `JournalImplementsCommandLog` (`ImplementsCommandLog`) |
| `AtomicAdmissionProofs` | `TypeCorrect`, `RootsHaveOneCase` (`OneCasePerRoot`), `StoreIsReadable` (`StoreStaysReadable`), `WithdrawalHolds` (`WithdrawalTakesEffect`), `RetriesAreHonest` (`RetriesAreIdentical`), `LateHandlersAreHarmless` (`LateHandlersWriteNothing`) |
| `DurableCaseStoreProofs` | `TypeCorrect`, `SealsAreCurrent` (`SealCertifies`), `CrashStatesAreHonest` (`HonestCrashStates`), `CopiesAreRecovered` (`CopiesNeedRecovery`), `RetriesSucceed` (`RetrySucceeds`), `WrongConfigHolds` (`WrongConfigTouchesNothing`) |
| `ReviewMigrationProofs` | `TypeCorrect`, `ServedComplete` (`ServedOnlyWhenComplete`), `ImportResumes` (`ImportGoesOn`, see below) |
| `ControlRuntimeProofs` | `PhasesAreHonest` (`PhaseIsHonest` of `RuntimeLifecycle`), `TypeCorrect`, `ListenersAreAPrefix` (`ListeningIsPrefix`), `ReleaseIsLast` (`ReleaseAfterListeners`), `SealingNeedsReady` (`RecoverySealsOnlyAfterReady`), `ReportsHold` (`ReportsAreHonest`) |
| `PublicBindingProofs` | `TypeCorrect`, `ProjectionHasNoHole` (`ProjectionIsPrefix`), `ServingHolds` (`ServingIsHonest`) |
| `CityControlPlaneProofs` | `TypeCorrect`, `LedgersNeverDisagree` (`LedgersAgree`), `BriefsRest` (`BriefRestsOnReviewed`), `IngestStaysHonest` (`IngestIsHonest`), `AnswersKeep` (`AnswersKeepToTheirQuestion`) |

Every proof has the same shape: an inductive invariant, a lemma per action that
it is kept, and the properties from the invariant. The invariants:

- **Coordinator, replay.** Neither `TypeOK` nor `JournalReplayable` is inductive
  alone: that an event is accepted by replay depends on the shape of the replayed
  case, and that the case stays well formed depends on the events being accepted.
  `IInv == TypeOK /\ JournalReplayable /\ Opened`; `Opened` relates the journal to
  the replayed case: once a discussion is recorded the journal has its two
  opening events, and before that there is no admission, no package and no
  participation. Replay accepts a package only after the two opening events,
  which no guard of `handle` says in so many words.
- **Coordinator, currency.** `BriefCurrency` equates what the code computes from
  checksums and event ids (`BriefIsCurrent`) with the order of the journal, which
  a step changes for every event at once. `StepShape` first reduces the fourteen
  commands to two kinds of step, opening the case or taking one more event, and a
  lemma per event type says what it does to the replayed case and to the sets of
  events the properties speak of. `CInv` adds to `IInv`: packages are of different
  departments; the draft and review in force are the last events of their answer
  (`AnswersRest`); the brief is the last one derived (`BriefIsLast`) and loses its
  currency by a withdrawal and nothing else (`BriefRests`); participation and
  outcome are unique and rest on what was current (`ParticipationRests`,
  `OutcomeRests`). That a withdrawn source makes the brief stale for good needs
  the order of three event ids, which is why `BriefRests` keeps `Stale`.
- **Journal.** `IInv` adds to the types that the store is sound (every row of
  `idempotency` names a run of events of its own, the rows partition the journal),
  that every answer given is a row, and that a command under way matches the
  memory it was checked against. The compare-and-append of `appendAtomic` is then
  the abstract `Apply`, an answer the abstract `Answer`, all else a stutter.
- **Admission.** `HandlerOK` says what a handler knows at each place of its code:
  after the last await, that its evidence was observed at a time not later than
  now and before the withdrawal; between transactions, whether its row is there.
  `UnitOK` says the same of a committed case and `LockOK` that one transaction
  runs at a time. All is kept while other handlers commit because rows are never
  changed (`MoveStep`).
- **Store.** What is said of a volume (`FilesOK`, by receipt) holds after every
  file operation, so after a crash and of a copy too. What its owner knows beyond
  that depends on its stage (`StageOK`) and is kept because the lock gives a
  volume one owner. `SchemaOK` says that a database with metadata is complete, and
  the stage "creating" that there is no metadata row, no marker and no open epoch yet.
  `OwnContent` with the origin of each claim carries
  `CopiesNeedRecovery`. `RetrySucceeds` then takes one lemma per startup test.
- **Migration.** `VolumeOK` says of either volume that a seal is of the closed
  database beside it; `TargetOK` that what an import has left agrees with its
  intent, what it has completed with its receipt, and that without either nothing
  on the target came from the source; `RunOK` that the stage of an attempt says
  which files are there and that the intent there is its own. `TargetOK` must hold
  without an attempt, whose knowledge dies with it: the start recorded in the
  intent is what keeps the times of a receipt in order over several attempts.
- **Listeners and runtimes.** `ListenerOK` of `RuntimeLifecycle` relates the
  promises of one listener to its server, for both runtimes; each proves the
  steps of its listeners from it. `ControlRuntimeProofs` adds that
  at most one task stops children at a time (`OneStopper`), that what is above the
  child being stopped is closed and what is below it is up (`LaterAreClosed`,
  `EarlierAreReady`), and what was known when the release began.
- **Projection.** `ReplayInv`: the outbox is well written (rows are numbered by
  their position, sequences increase), receipts and staged rows are the rows up to
  the cursor, and a page on the wire that the client would accept is the next one
  or stale. The runtime's own invariant relates its three promises, its timer and
  its children.
- **Control plane.** Three parts that no action mixes. `OfficesInv`: the ledgers
  of answers and reviews are of the packages and authors in the kernel. That the
  reviews agree is kept because a key begins with the id of its package
  (`KeyStartsWithId`): a replaced answer drops all keys of its package, and those
  of a package that stands alone are no one else's. `BriefOK` counts reviewed
  packages: a brief is published when there is one
  package per department, all reviewed, the packages of a later suggestion have
  no response, and recording one withdraws the brief. `IngestInv`: relay, transport cache and calls hold
  verified events under their ids, the adapter the artifacts of such events
  and the kernel the discussions made of exactly those, so the kernel refuses
  nothing the adapter accepted. `AsksInv`: a call carries the asker's question,
  profile and view, and an accepted result repeats them.

TLC confirms each of these invariants on the instance of its module's run.

`ExactImportResumes` says `ENABLED Writes` of an attempt that is under way.
`ENABLED` is out of the prover's reach, so `ImportResumes` is about
`ImportGoesOn`: the same property with the tests that stand before the writes
(`ChecksPass`) in its place. That the two are the same wherever the plan is
fresh is one more thing TLC confirms; the first half, that a new attempt passes
the checks at its start, is the same formula.

What the proofs needed of the models:

- `RetriesAreIdentical` is an action property: it says of an answer that it agrees
  with the store when it is given. Read as an invariant it is false with three
  requests: one that is told 409 because its nonce was consumed is followed by an
  identical one that commits under another nonce.
- `Replay` of the outbox is stated by the position of the cursor and not by a
  filter, which is the same on a well-written outbox (`Written`, which
  `OutboxAssumption` asks of the outboxes a run starts with).
- Tags are found by position and not by filtering a sequence (`Named`), because
  what a filter returns is an induction over the sequence.
- An open epoch of the migration names the seal it began from, as the file does,
  in place of a name for "none".
- Constants: `None` is none of the records it stands in for, the times of a bundle
  are naturals, `Order` lists every listener once, every command that is
  accepted emits an event, two verified events of one id differ in their
  signature only (an id is a hash), the configured scope is not blank, and an id
  has at least one part.

Only model-checked:

- liveness, which this prover does not do: `PromisesSettle`, `EventuallyPublic`;
- the review (`PublishedWasPreviewed`, `ReceiptsAreTrue`, `NoBlindAppend`), whose
  `Handle` refuses a command exactly when its action is not `ENABLED`, so that every step of it is beyond
  the prover;
- `ExactImportResumes` in its form with `ENABLED` (see above).

## 6. What is not modelled

- **Public Mecky**: an answer is made from one synchronous snapshot of the case
  before its only await and checked against that snapshot after it; the
  projection it reads is `CaseProjection`'s, the seam to the worker
  `CompanionHarness`'s.
- **Administration workspace**: work requests, handoff receipts and responses are
  digests compared with the case as it stands; the commands they lead to are
  `CaseContinuation`'s and `CaseCoordinator`'s.
- **Public exchange adapter, reference browser**: conversions to and from
  documents, and rendering.
- **Recovery attestation, control preflight**: signed documents checked against
  each other, without state; what a verified gate allows is `Authorized` of
  `DurableCaseStore`.
- **Steward control server**: the admission path of `AtomicAdmission` over a
  local socket. **Reviewed public knowledge server**: serves one configured
  document.
- Within the modelled parts: canonical JSON and checksums (a checksum is what it
  digests), signatures, byte limits and header syntax, file permissions and
  symbolic links, column-by-column schema checks, the preflight's search for
  records of the legacy schema, the fourth listener of the control runtime (it behaves as a further
  child) and failures of its constructor, the clock of recovery evidence (it is
  in force or expired), and the continuation's participation and outcome methods
  for a municipal case (their commands are `CaseCoordinator`'s).
