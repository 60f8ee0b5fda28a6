# PassHub in TLA+

PassHub is a TypeScript service that lets people through gates. A *source* (a
gate) posts a recognition, of a QR code or of a face matched elsewhere; the
service finds the *qualification* behind it, decides whether its holder may enter
or leave, and writes the decision, its event and the new presence to MongoDB.
Managers create, update and revoke qualifications and their face mappings; both
kinds of request are *writes*. There is one process, one JavaScript thread and one write at a time.
The difficulty is in what surrounds that one write: writes queue and are
validated while they wait, an operator may hold or drain the service, a commit
may end with its result unknown and is then confirmed under a budget, and a
source may repeat its event at any time.

This directory holds TLA+ modules translated from the code under
`src/src/`, TLC configurations that check them on small instances, and proofs
that the TLA+ proof system checks for every instance. `PROJECT.json` lists the
components, the runs, the line range each definition models, the hazards each
property is for, and the theorems.

Check a module with `tlc -config X.cfg MCX.tla`, prove with `tlapm XProofs.tla`.

## 1. Inventory

State, operations, interactions and hard behaviour per component. Paths are
relative to `src/src/`. **M** is modelled, **p** partly (what is left out is in section 6), **-** not.

| Component (files) | | State | Operations | What is hard, and what must hold |
|---|---|---|---|---|
| Write operation coordinator (`access/application/internal/write-operation-coordinator.ts`) | M | FIFO queue, `current`, `running`, `drainScheduled`, `deferredByGate`, `blocked`; per operation: validation, settlement, recovery phase | registerProvisional, activate / rejectBeforeStart, drain, runOperation, finalize, requestPostCommitUnknownPause, recovery adopt / finalize / failClosed, wake, DRAIN's settlement | microtasks between every two steps; hooks that throw; pause releases the thread but not the write right. One writer; order of arrival; no lost wakeup; a caller is answered once, and truthfully |
| Writer quiescence (`access/application/internal/writer-quiescence.ts`) | M | lifecycle state of each receipt, one read-observation lease | hooks of the coordinator, acquire / release | readers and writers exclude each other although gate and start are separate steps |
| Operation registry (`.../operation-registry.ts`) | M | entries by event key, leases, continuation permits, reservations, capacity | register, lookupExisting, reserve / consume / release, markUnknown, complete, authorizeContinuation, resumeUnknown | late and repeated callers hold old capabilities; every replay of an event must get one answer |
| Budget ledger (`.../budget-ledger.ts`) | M | execution window, confirmation window, slots, command in flight, native group | beginRound, admit / finish commands, startConfirmation, confirmations, native abort groups, authorizeContinuation | two overlapping time windows with shared slots; last-millisecond edges; no budget is ever refreshed |
| Budget binding and pre-commit termination (`.../operation-budget-binding.ts`, `.../precommit-termination-lifecycle.ts`, `infrastructure/mongo/internal/g10b-*`, `composition/internal/g10b-operation-bridge.ts`) | M | one binding, lifecycle and ledger per operation, each with a freeze of its own; the transaction's facade, session and terminator | start / finish of the pre-commit and unknown-commit boundaries, abort, terminate, close | three layers that freeze separately; an abort from the failing call and one from the closing scope; a session is ended once, and what is reported of a write is true for ever |
| Post-commit unknown recovery (`infrastructure/mongo/internal/g10c-*`, `composition/internal/g10c-*`, `.../unknown-recognition-*.ts`) | p | hand-off of a session with its claims, paused ticket, scheduler of confirmations | hand off, resend, canonical read, adopt, finalize, clean up | microtasks and timers race the pause and the budget; one-shot capabilities come in any order; nothing may be published unproved or sent late |
| Access domain (`access/domain/*`) | M | none (pure) | decideAccess, window, update, revocation and expiry decisions | priority of refusals, half-open windows; what a decision obliges the writer to release |
| Use cases and scopes (`access/application/use-cases.ts`, `access-scopes.ts`, `internal-plans.ts`, `resolution-handle.ts`) | M | one scope per request: source read, issued handles, call in flight | resolve, stage, close; create, update, revoke | a decision is made on a snapshot that others outdate; a scope is closed in the middle of its call |
| Queries (`access/application/query-application.ts`, `query-cursor.ts`) | M | cursors in clients' hands | pages of four listings, details | a cursor over a moving set, a join without a snapshot, a dataset that was reset |
| Comparison (`access/application/comparison/*`) | - | none (pure) | digests, framing | encoding only |
| Mongo persistence adapter (`infrastructure/mongo/g04b-*`) | p | qualifications, face slots, sources, events, metadata, receipts; one transaction per scope | begin, reads, staged writes, guards, commit, canonical read, discard; install, seed and inspect the schema | write conflicts, commits without an answer, repeated event ids, the last face slot; a seeding that dies half way |
| Admission handler (`composition/internal/g07b-admission-handler.ts`) | M | requests in flight, leases of pools, entries, work tokens | admit, validate, start, work, answer, unwind | deadlines, drains and recoveries come between answer, entry and settlement; every lease goes back once |
| Resource and rate ledgers (`composition/internal/admission-resource-ledger.ts`, `fixed-minute-rate-ledger.ts`) | M | pool leases, minute windows | acquire / release, allow | release exactly once; counters that are cleared lazily |
| HTTP response owner (`composition/internal/http-response-owner.ts`, `http-response-plan.ts`) | p | one response per request | claim, send, timeout, client abort | exactly one terminal answer |
| Route compositions (`composition/internal/g08*`, `g09a*`, `g10a*`) | p | work tokens, awaited facts | validate, work, answer | an account is disabled between two awaits; what a 409 or a 503 says of the write |
| Identity, permission and log bindings (`composition/internal/g10a-*-binding.ts`) | p | none across calls | capability checks | the writer's veto under maintenance |
| Runtime control (`runtime/internal/runtime-control.ts`) | M | revision, holds, replay record, leases, drain | hold, release, drain, status | a drain with a deadline over leases that end at any time; a command that is sent again |
| Control sockets and CLI (`runtime/internal/runtime-control-*`) | p | path of the socket, connections | listen, close, request, respond | who owns the path after a death; what a client may report after its deadline |
| Runtime log (`runtime/internal/runtime-log-*`) | p | ring of files, waiting queue, health | append, rotate, flush, close, read | a death between two renames; a write that is given up and lands later |
| Run tickets and claims (`deployment/internal/g11b-*`) | M | ticket file, marker, claim document | issue, spend, claim, release | unsynced directory entries; a compare-and-set that is applied late; a second process |
| Maintenance (`deployment/internal/g11c-*`) | M | marker, container state, epoch | drain, stop, prove the end, reset, start | a crash between two steps; a container that restarted under its name |
| Start and shutdown (`deployment/production-main.ts`, `g11b-production-*`, `composition/internal/g10a-runtime-owner.ts`) | p | step of the start, gate, opened resources, signals, deadline | connect, claim, compose, listen, close | every step fails and every close hangs; requests and a drain come while it starts or closes |
| Deployment contracts and datasets (`deployment/internal/g11a-*`, `g12g*`, `g11d-*`, `g11f-*`) | p | none | validation, reset seed | pure checks, but for the dataset's verification |
| Authentication (`auth/*`, `sources/*`) | p | freeze, tokens | login, verify | every await may resume in a frozen capability |
| Request parsing (`shared/internal/http/*`) | p | readers of bodies | read a body | end, abort, error, close and timer of one stream |
| Operational scripts (`scripts/*`) | - | none | - | outside the program |

How they interact. A request enters the admission handler, which takes
resources, validates and registers a write with the coordinator
(`registerProvisional`); a recognition also takes a registry reservation. The
coordinator calls back through lifecycle hooks that drive writer quiescence, and
through the start gate, which reads the read lease and the manual hold. When the
write starts, its executor runs rounds and commands admitted by its budget
ledger. A commit whose result is unknown pauses the operation
(`requestPostCommitUnknownPause`): the drain loop ends, the coordinator stays
blocked, and the recovery holds a handle with which it later finalizes or fails
the coordinator closed, while the registry entry is `UNKNOWN` under a
confirmation lease. DRAIN (runtime control) settles queued writes synchronously,
stops admission and waits for the leases that are out. Around the process stand
its deployment, which decides by ticket, claim and maintenance who may write to
which epoch of the dataset, and the control socket over which an operator
commands it. Within the process everything is calls and callbacks on one thread; the only
asynchrony is promises, microtasks, timers and the driver.

## 2. Modules

### WriteCoordinator

`WriteCoordinator.tla` models the coordinator with writer quiescence, the start
gate of the admission handler and the HOLD / RELEASE / DRAIN of runtime control.
An action is one *synchronous segment*, the code between two awaits or
microtasks; whatever a segment calls (a hook, a `scheduleDrain` at its end) is
part of the action. `drain` is the program counter of the only loop that
awaits: `IDLE`, `EXECUTING` (in `await executor`), `RETURNED` and `THREW` (the
executor's promise has settled and `runOperation` is not resumed yet), `LOOP`.
`op[o]` keeps the mutable fields of an operation; `settled` abstracts
`settlementCount` and `invalidSettlement` to none, one legal call, anything
else.

| Code | Actions |
|---|---|
| `registerProvisional`, `activate`, `rejectBeforeStart` | `Register`, `RegisterFails`, `Activate(Fails)`, `RejectBeforeStart(Fails)`, `RejectTooLate` |
| `drain`, `runOperation`, `finalize`, `finalizeUnknown`, `failClosed` | `DrainStops`, `DrainDefers`, `DrainGateFails`, `Start`, `StartFails`, `Settle`, `ExecutorEnds`, `FinishKnown(Fails)`, `FinishUnknown`, `FailClosed` |
| post-commit unknown | `RequestPause`, `PauseUnknown`, `Adopt`, `RecoverPersisted(Fails)`, `RecoverFailClosed` |
| writer quiescence and runtime control | `AcquireReadLease`, `ReleaseReadLease`, `Hold`, `Release`, `DeliverWake`, `StartMaintenance`, `SettleReady*`, `SettleCanceled*` |

A hook that throws is `Throws(hook)`; each hook of `FailingHooks` throws at most
once. Limits: one decision meets at most one injected failure (a cleanup that
throws together with a rejection that comes too late is not modelled).
`settleMaintenanceKnownNoEffect` rethrows a failing settled hook before its own
`scheduleDrain`; if the reservation cleanup failed too, a READY successor may
have nobody to schedule it. The instances do not let both `settled` and
`cleanup` throw, and `EveryWriteSettles` is not claimed for that case.

### OperationRegistry and OnceStore

`OperationRegistry.tla` models the idempotency registry. A call is one
synchronous transition; the interleaving is of calls by holders who may present
any lease, permit or reservation they ever got, at any time. A call that throws
without effect is a stuttering step. Contents are compared by equality
(`sameArtifact`). `replayed` is a history variable: the results that callers
were told, with the content they presented. The claim disposition is `WRITABLE`,
so the branches for other dispositions are not modelled. `STALE_LEASE` cannot be
reached while leases follow the entry. Entries are never removed and a freeze is
permanent, as in the code.

`OnceStore.tla` is what the registry promises: a key is begun below capacity and
answered at most once. `ImplementsOnceStore` instantiates it with a refinement
mapping that forgets leases, generations, permits and reservations.

### BudgetLedger

`BudgetLedger.tla` models every transition of the ledger. Time is `now`, read by
each call; a command in flight carries the instant at which its timeout ends, so
that windows can be checked at admission and not only when something fires.
Denials change nothing. Everything that freezes the ledger (wrong permit, stale
owner, clock failure, reused evidence, overflow) is `Freeze`: a frozen ledger
accepts nothing, so what else the failing call had assigned no longer matters.
`sends` is a history variable that counts commands of the confirmation phase.

Two things a reader may trip over. A continuation that was authorized is not
revoked when a canonical result is learnt later (through a native group that
reopens confirmation), so a round may begin after it; that round can send
nothing, since `admitExecutionCommand` is closed once confirmation has started.
And `settleNoEffectConfirmed` does not advance the attempt, so the cadence
resumes where it was. The operation budget binding never authorizes a
continuation, so in the product neither occurs.

### UnknownRecovery

`UnknownRecovery.tla` follows one write from its initial commit to the end of its
recovery, across the adapter's `commit`, the handoff, the bridge, the executors
of the admission handler, `runOperation` and the scheduler. It composes the
ledger: `Ledger == INSTANCE BudgetLedger` on the same variables, and a step that
calls the ledger conjoins the ledger's action, so cadence, slots and windows are
the ones of `BudgetLedger`, not a second description of them.

| Code | Actions |
|---|---|
| `invokeG08WriterWork`, adapter `commit` | `BeginWork`, `SendInitialCommit`, `InitialCommitResolves / Rejects`, `FinishKnownRound`, `SessionEnds`, `SessionEndFails`, `FinishUnknownRound` |
| the database (external) | `ServerCommits`, `ServerAborts`: once sent, a commit may be applied at any time, whatever became of its answer |
| `handoffG10cPostCommitUnknown`, `pausePostCommitUnknown` | `HandOff`, `Pause` |
| microtasks between the pause and `PAUSED` | `BridgeNotifies`, `ExecutorReturns`, `RunOperationPauses` |
| scheduler: `wake`, `drive`, `arm`, `failClosed`; terminator and reader | `WakeSends / WakeRefused`, `TimerSends / TimerRefused`, `CommitRejected`, `CommitResolves`, `ReadInconclusive`, `ReadMatches` |
| `confirmedPersisted`, the cleaner, `releaseG10cConfirmedRetainedTransaction` | `CommitResolvesWithoutEvent`, `CleanupSucceeds`, `CleanupFails`, `PublicationFails` |

`microtasks` is the queue of the event loop; answers of the driver, timers and
calls from outside are taken when it is empty. `write` says which executor runs
the write and who wakes the scheduler: the composition (`onPausedTicket`), or a
caller of the scheduler that the composition also returns, as the unit tests do.
`half` and `Phase` give the two clocks their own truncation: the ledger reads
`Math.floor(performance.now())`, the timers the event loop's own millisecond
clock.

Left out: a recognition's or coordinator's failures on the known path (they are
`OperationRegistry`'s and `WriteCoordinator`'s), a clock that fails or runs back
(the scheduler then fails closed), handoffs without an expected image, and the
write's earlier rounds. A recognition that is confirmed by a resent commit stops
the scheduler since no canonical event was read; the evidence of the gate
records this as intended, so `GivesUpOnlyWhenSpent` names it as an exception.
When a known commit's session cannot be ended, the same `catch` hands the write
over as unknown, with the transaction already forgotten: its recovery can
confirm but never clean up (`SessionEndFails`, `registered`).

### AccessDecision, AccessRules, AccessStore and AccessPersistence

The business core, in four layers.

`AccessDecision.tla` has the pure rules over one qualification: what an entry or
exit decides and obliges, and what management may still change.

`AccessRules.tla` has the effects of one operation on the stored documents:
`Effects(docs, r, at)` is the set of what request `r`, received at `at`, may make
of `docs`, each with its answer, and unites the use case with the adapter's
`applyRecognitionResult` and `applyManagementChange`. All collections are one
function from keys to documents (None: absent), since transactions, snapshots and
conflicts are about documents whatever their collection. Several effects are
possible only where the code's choice is open: which empty slot `findOne` returns
and which id a new slot gets. A qualification is its id: incarnations and QR
tokens are drawn with it and never change. Names, authors, digests and creation
times are left out; equality of comparison artifacts is equality of credentials.

`AccessStore.tla` is the promise: a store on which operations happen one at a
time, whole. It is parametric in what an operation does.

`AccessPersistence.tla` is how it is kept: scopes with snapshot transactions.

| Code | Actions |
|---|---|
| `openScope`, `begin` (first read) | `Open` |
| use case, `applyRecognitionResult`, `applyManagementChange` | `Stage`, `Refuse` (the use case throws, the scope's `discard` aborts), `Conflict` |
| `commit` and its outcomes | `Commit`, `CommitConflict`, `LoseAnswer` |
| `fail`, `discard`; a command that fails | `Abort` |
| `readCanonicalEventInternal` after a conflict | `ReadCanonical` |
| the database (external) | `Settle`: a commit in doubt is applied or dropped, at any time later |
| the process stops | `Crash` |

Deciding and staging is one action, although the adapter awaits between its
commands: all of them read the transaction's own snapshot, a write that meets
another's fails at once instead of waiting, and nobody sees a write before it is
committed. Staging early or late in that span only changes who conflicts, which
the order of `Stage` actions covers. `submitted` bounds the requests. The write
coordinator admits one write at a time in one process, so concurrent scopes are
what a commit in doubt, an expiring lease or a second process leaves possible;
the adapter's own tests run it concurrently, and its guards are for that.
`receivedAt` is any instant: the clock may be stepped, and the code's own comments
deny that an exit is later than its entry. Versions and guards are naturals; the
collections' validators stop at 2^31 - 1.

### ResultImage

How a commit without an answer is recognised later. Before it commits, an
attached transaction reads back what it wrote (`prepareG10c...ExpectedImage`); a
management change also inserts a receipt. The recovery reads the stored
documents in one snapshot and compares (`matches...ExpectedImage`). The module is
on top of `AccessPersistence`: the image is a function of what a transaction read
and wrote, and `Confirms` of the committed documents (and of whether they hold the
receipt), so that every interleaving of other scopes is one of `AccessPersistence`.

### OperationBinding, ScopedTransaction and PostCommitHandoff

`OperationBinding.tla` has the three layers that hold the authority over one
write's database commands: the binding (`precommit`, `unknownCommit`, `action`),
the pre-commit lifecycle (its phase) and, through `Ledger == INSTANCE
BudgetLedger`, the ledger. Each has its own freeze, each checks the
coordinator's owner fence. `LayersAgree` says that whichever is frozen, none
takes for closed what another takes for open.

`ScopedTransaction.tla` is one attached transaction over that authority:
`openScope`, facade, work, commit, the abort with its group of two sends, the
one-shot terminator of the session, the closing of the scope, the re-read of a
recognition after a conflict, and the disposition the route composition reads
off. Against this chain run the clock, the server, the loss of the owner and
another process's write of the same event. A management change takes several
writes and may be refused between two of them: `bindNewFace` finds the face bound
or no slot left after the qualification was inserted or the old slot released
(`RefuseFace`), or the database finds the duplicate (`Rejections`). The composition
reports both as `KNOWN_NO_EFFECT`, with writes in a transaction whose abort may have
gone unanswered, and `DispositionIsTrue` asks that no commit of it is on its way. `PostCommitHandoff.tla` continues
it on the same variables where the transaction was handed off: the retained
session behind a token, with a sender, a reader and a cleaner that are each
created once, in any order the taker likes.

| Code | Actions |
|---|---|
| `startPrecommitBoundary` ... `finishPrecommit...` | the `...Boundary`, `Seal*`, `*Abort*` definitions of OperationBinding, conjoined by ScopedTransaction |
| adapter `begin`, commands, `commit`, `fail`, `discard` of an attached transaction | `StartTransaction`, `SendCommand`, `CommandResolves / Rejects`, `RefuseChange`, `RefuseFace`, `SendCommit`, `CommitResolves / Rejects`, `HandOff`, `LeaveAdapter` |
| `g10b-precommit-mongo-terminator.ts` | `SendAbort`, `AbortAnswered`, `AbortUnsettled`, `SettleTermination`, `CleanUp` |
| `takeG10c...Handoff`, terminator, reader, cleaner | `Take`, `CreateTerminator`, `AttemptOriginalCommit`, `CreateReader`, `ConfirmCanonicalRead`, `CreateCleaner`, `ReleaseSession` |

Facts the model made visible and the properties leave room for. A known commit
whose `endSession` fails is handed off with the adapter no longer holding the
transaction, so its release is always refused and the session is left to the
driver. A terminator that is attempted when the read is due, or refused by the
budget, keeps its claim and is given back explicitly. A cleaner asked for before
the write is confirmed freezes the binding, although the bridge
(g10c-g07-recovery-bridge.ts:260) expects that a premature `confirmedPersisted`
leaves the ticket recoverable; the scheduler never calls it early.

### AccessScope

`AccessScope.tla` models the scopes a use case works through: source read,
resolution handles issued to one scope and passed to any, the re-read of
qualification and mapping before a stage, and `closeAsync` in the middle of a
call. The persistence port answers with whatever is current, so `PlansAreFresh`
asks that what is staged was current, together, at an instant since the stage was
called.

### ExistingSchema

Three processes install, seed, inspect or attach to one database, one command at
a time, and die anywhere. Only seeding is left to one process at a time, which is
the operator's discipline (the deployment runs one seeding container). A
bootstrap or seeding that dies half way is refused for ever; a death after
`clearAndSeed` deleted only `events` is accepted, and rightly so: what is left is
one whole fixture.

### Admission, AdmissionLedger and RuntimeControl

`Admission.tla` follows every request from its arrival to its one answer and to
the return of everything it holds. It EXTENDS the pools (`AdmissionLedger`) and
the control core (`RuntimeControl`), and sees of the coordinator, the registry
and the recovery what the handler sees: the order of the FIFO and the fence, the
entry of one event key, the lease of a paused write. The FIFO is the set of who is
`queued` with the relation `ahead`, since the handler asks of it who is first and
takes operations out of its middle. An action is a synchronous segment of the
handler.

| Code | Actions |
|---|---|
| `handler`, `startWriter`, `startNonWriter` | `Refuse`, `TurnAway`, `Admit`, `BindFails` |
| `validateWriter`, `runLogin`, `runQuery`, `runExistingOnly` | `ValidationFails / Canceled`, `Activate`, `ActivateTooLate`, `LoginValidated`, `QueryStopped`, `QueryValidated`, `ExistingOnlyValidated` |
| `executeManagement`, `executeRecognition`, `runOriginalRecognition` | `StartLimited`, `StartReplays`, `StartWork`, `StartUnknown`, `WorkPersists`, `WorkHasNoEffect`, `WorkFails`, `Pauses` |
| response owner: deadline, client abort | `OwnerCloses` |
| recovery bridge | `Publish`, `GiveUp` |
| `runtime-control.ts` | `OperatorHolds / Releases / Drains`, `DrainEnds` |

`fault` chooses one kind of failure for a behaviour: the identity binding or the
budget factory throws, a dependency breaks its contract (which freezes the
handler for good), or a trusted callback of the registry fails.

`RuntimeControl.tla` has holds, leases, drain (`DrainObserved`, `DrainAborts`,
`DrainExpires`) and the replay record; a command is a record and its id is the
revision it made.

### RunLifecycle

Who may write, over the life of a deployment: process starts that spend a ticket
and claim an epoch, host crashes that lose unsynced directory entries, commands
that MongoDB applies after their process is gone, and the maintenance script that
drains, stops, proves the end of every process, resets the dataset and starts
again. Where the code relies on its surroundings the model does too: that
maintenance runs alone and the host's run id is provisioned per start is operator
discipline (docs/implementation-plan.md:159 and 256-265), `verifyNoLateWork` is an
external port that answers truthfully, the compose file's `restart: "no"` holds for
the service, and a ticket is written without a sync of its own (its loss is a
start that fails).

### ProductionRuntime

One API process: what it opens on the way to service, what it gives back when a
step fails, and how a signal closes it.

| Code | Actions |
|---|---|
| `main`, `createG11bProductionApplication` | `ConnectMongo`, `ClaimRun`, `ComposeClaimed`, `CompositionThrows`, `StartHasFailed`, `ListenHttp`, `ListenHttpFails` |
| `g10a-runtime-owner.ts`: `startOwnedRuntime`, `closeOwnedRuntime` | `OpenControlSocket`, `CloseSettles` |
| `completeClaimedRuntimeProductionComposition`, the gate | `CompleteComposition`, `HttpFails`, `RequestArrives` |
| `closeG11bProductionResources`, `createG11bShutdownOwnerWithEngine` | `Signal`, `CloseSettles`, `ShutdownIsOver`, `DeadlineExpires`, `LoopEnds` |
| the undoing of a composition | `Undone` |
| connections, DRAIN | `AcceptConnection`, `ConnectionEnds`, `DrainArrives` |

`closing` is the resource whose close is awaited, and `CloseSettles` both its
answer and its failure: either way the next one is made. The claim is an outcome
of `ClaimRun`, since RunLifecycle has what it depends on. Three facts of the code
that the model shows: the listeners are there only from `READY` on and each once,
so a signal during the start, or the second one of a kind, ends the process where
it is; the deadline of 25 s is armed by a signal and not by a start that failed;
and a shutdown waits for connections, not for work that outlives its connection,
so `HandledRequestsAreServed` speaks of a request until its connection ends. The
owner's `close` racing its own `start` is left out: the application never does it.

### RuntimeLog

The never-throwing sink with its one worker, over the ring of files. A name points
to a file, so that a rename moves the name and an open reader keeps the file. Records
are numbered as they are offered; `Ring` has the names that exist, the greater the
older, and `Held` what their files hold. The
process dies between any two file operations and in the middle of an append; the
next one finds gaps and torn lines. A reader opens and measures the ring under the
mutex and reads outside of it, `left` having the names to come; `held` is a history
variable, what the ring held when it was opened. `LogIsFaithful` has what is on disk (the
newest records that were written, without a gap), what a read returns (the ring at
one moment), and what the sink reports of the records it was offered.

### ControlListener and ControlExchange

`ControlListener.tla`: who owns the path of the control socket. A process looks
at the path, moves a stale socket aside, listens, sets the mode and closes; each
look is a step. A death between `listen` and `chmod` leaves a socket of another
mode, which every later start refuses until the operator removes it.
`ControlExchange.tla`: one request from the command line through framing,
watchdog and dispatch to the control core and back; every deadline may elapse at
any moment and the answer may arrive whole, in part or not at all. A client's link
keeps the request it sent, and the core keeps the sequence of those it applied, so
that an exit code can be held against both. It EXTENDS `RuntimeControl`.

### Queries, RateLedger and BodyReader

`Queries.tla`: listings page by page under the observation lease, with writes and
resets between pages; a cursor is its scope, epoch and last key. `RateLedger.tla`:
the minute windows, with a clock that may go back (and then freezes every
category). `BodyReader.tla`: every event of a request's stream; a stream that
closes complete but unread frees its place only when the timer of 5 s fires, so
the property asks for a timer and not for the place.

### HumanAuth and RouteWork

`HumanAuth.tla`: login and verification over awaited reads of accounts; a
dependency that misbehaves in its synchronous part freezes the capability for
good. `RouteWork.tla` EXTENDS it: what each route makes of a request (validation,
work token, use case, answer and disposition), with accounts that change at every
await. An account that is disabled after its facts were read still acts: the
property says "at some instant since the request came". Choices: a request's data
is chosen where it is first read; `closeAsync` and the answer are one step; a
recognition is decided at its stage, since a writer works alone; a freeze between
validation and work makes management answer UNKNOWN_EFFECT, while a recognition
does not check again.

One behaviour to know of: a repetition of a stored event that arrives at another
instant is recognised by the adapter (`REPLAYED`), but the composition takes the
stored event for sound only if its `receivedAt` is the attempt's own, and answers
with an unknown effect. `g08b-recognition.test.ts:324` has equal
instants. In one process the operation registry
answers repetitions first, so it takes a restart between the two.

### MC modules

`MCScopedTransaction`, `MCAccessPersistence` and `MCLifecycle` put machines that
share no state into one instance: a variable `machine`, chosen at the start, says
which one moves, and the others stay as they start. Their states add up instead
of multiplying, and each machine behaves as it would alone.

## 3. Runs

| Run | Module, cfg | Bounds | Shows |
|---|---|---|---|
| `write_coordinator` | MCWriteCoordinator, WriteCoordinator.cfg | 3 writes, each of 5 hooks fails once, 1 hold; 276,119 states | one writer or readers, mirror of quiescence, finality of unknown, truthful promises, order |
| `write_coordinator_live` | MCWriteCoordinator, WriteCoordinatorLive.cfg | 2 writes, a failing started hook and cleanup, 1 hold; 42,730 states | every registered write is answered |
| `write_coordinator_hook_failure` | MCWriteCoordinator, WriteCoordinatorHookFailure.cfg | 2 writes, a failing queued hook | a counterexample, see section 5 |
| `operation_registry` | MCOperationRegistry, OperationRegistry.cfg | 3 keys, 2 contents, capacity 2, 3 reservations, 2 evidence objects; 16,754 states | capacity, leases and replays (`EntriesAreConsistent`), permits, refinement |
| `budget_ledger` | MCBudgetLedger, BudgetLedger.cfg | 2 rounds, 5 slots, windows of 3 and 5 ticks, clock to 7; 1,343,904 states | exclusion, windows, payment and abort before commit (`BudgetIsKept`), no refresh |
| `unknown_recovery` | MCUnknownRecovery, UnknownRecovery.cfg | one write of three kinds, windows of the product in seconds, 5 slots, timers up to 1 s late, clock to 20; 78,082 states | outcome, lease and late commands, and that a paused write is decided |
| `unknown_recovery_wake` | MCUnknownRecovery, UnknownRecoveryWake.cfg | a recognition woken by the composition | a counterexample, see section 5 |
| `unknown_recovery_timer` | MCUnknownRecovery, UnknownRecoveryTimer.cfg | a management write, timers half a tick ahead | a counterexample, see section 5 |
| `access_persistence` | MCAccessPersistence, AccessPersistence.cfg | 2 scopes, 3 requests out of 11, 2 arrivals, 2 seeded stores, 3 qualifications, 2 slots; 2 callers of one account; 220,374 states | the store's legality, one story of events and presence, faces, answers, images, serial operations; authentication and the truth of replies |
| `admission` | MCAdmission, Admission.cfg | 3 requests (a writer of either kind, a recognition, a query, login or repetition), 2 slots of each pool, 4 commands, 4 faults; 524,110 states | leases by phase, answers and entries against the database, quiet after DRAINED, commands once |
| `precommit` | MCScopedTransaction, ScopedTransaction.cfg | one transaction of either kind with its hand-off, 2 rounds, 4 slots, clock to 5; 3 scopes over 2 versions; 3 processes on a database; 1,170,833 states | disposition, session, layers, hand-off, plans, accepted datasets |
| `lifecycle` | MCLifecycle, Lifecycle.cfg | 3 starts, 2 runs, 2 epochs, 2 tickets; a log of 2 archives; 3 listeners; 3 clients on 2 connections; 1 reader of 2 rows a listing; 2 categories; 2 uploads; a process with 2 connections; 729,259 states | claims, epochs, log, socket, exchanges, listings, allowances, body readers, what a process opens and closes |

Why the bounds suffice. Three writes are one that runs or is paused, one head
that waits and one behind it: every guard of the coordinator speaks of the
current operation, the head, and the rest of the queue. In the registry two
keys fill the capacity and a third meets it full, and two pieces of evidence let
a key go through two continuations. In the ledger five slots are exhausted by
three confirmations and a native group, or two groups and a confirmation; the
windows are short enough that both deadlines pass and a group oversteps the
confirmation window. In `unknown_recovery` a tick is a second: command timeout,
confirmation window and both delays are those of the product (2, 10, 1, 2), the
execution window is shorter since only the initial commit uses it, and five
slots are few enough for the slots to run out before the window and enough for
the window to end first. At most a commit of 3 ticks, a window of 10 and one
late timer of 3 fit before the clock ends. The run is for timers that are in
step with the ledger's clock (`Phase = 0`), and leaves out the recognition woken
by the composition, which is never decided; the other two runs show just these.

In `access_persistence` two transactions are what a conflict has, and three
requests are an operation, its competitor and a repetition; the eleven requests
are picked so that every pair that shares a document is among them: both gates by
QR and by face, an event id reused with another credential, all update modes, a
create for a bound and for a new face, and a revocation. One seed has a free slot
and a visitor who is expected, the other a visitor inside and the last slot taken.
An inactive source and an unknown face are in the rules but not among the
requests: they change no qualification. `OneManagesOneScans` gives each of the
two callers of the routes one side: writers are serial, so that a second human or
a second source adds no interleaving a single one has not with the accounts.
Numbers of the product (3 rounds, 7 slots, 15,000 and 10,000 ms) are covered by
the proofs, which hold for every configuration.

In `admission` two writers and a third request fill and overfill pools of two;
both recognitions are about one event key, with equal or different contents.
`FaultsOrCommands` mixes operator commands with no fault but a freeze: the faults
are each about one request's segment and change nothing that control reads. In
`precommit` two rounds let a no-effect round precede another, four slots are a
native group and two confirmations, and windows of three ticks with commands of
two make both windows pass. One scope waits at a time, and two versions make a
plan stale once. In `lifecycle` three starts are a process, its late
predecessor and a second one in another container; `StartsRunsAndTickets` gives
behaviours with three starts one run and one ticket and the others two;
`LogsOrDrain` has no log export connected while the drain script or a lease is
about, as neither reads what the other writes. The log's two archives of one record make
every rename of a rotation happen, with a queue of two that overflows. Rates allow
one or two requests a key and three in all over two minutes.

`CHECK_DEADLOCK FALSE` everywhere: the system may stop (all writes final, a
frozen registry or ledger, all requests answered, the end of a bound).

Fairness (`FairSpec` of WriteCoordinator). Weak fairness of microtasks
(`DrainSegment`, `ResumeRunOperation`, `DeliverWake`, `SettlementLoop`) is what
a JavaScript event loop gives. `ExecutorEnds` is fair since an executor's rounds
and commands are bounded by its budget ledger and its driver timeouts;
`Decide(o)` since a validation is bounded by its request's deadline;
`ReleaseReadLease` since a read observation is one query with a timeout. Not
assumed: that the operator releases a hold, or that a paused post-commit unknown
is recovered; `EveryWriteSettles` says exactly "answered, or a hold for ever, or
a pause for ever". `FairSpec` of UnknownRecovery: microtasks and due timers
run, time passes, and every command of the recovery is answered, since each has
a driver timeout; it is not assumed that anyone else wakes the scheduler, and
`PausedIsDecided` speaks of the writes that the composition wakes it for.

## 4. Proofs

Every safety invariant and action property of a passing run is a theorem. What is
left to TLC is in the last paragraph of this section.

Assumptions are the named ASSUMEs of the modules and nothing else: `NoOp` is no
operation, hooks come from the known set, bounds and capacities are (positive)
naturals (there is at least one version, one archive, one record a file), markers
are outside of their sets, a native group costs two slots
(`captureConfig` fixes it), ids of different collections differ, and the stores
a process is started over are legal. The bounds that close a model (`MaxRecords`,
`MaxProcesses`, clocks, numbers of requests) are constants of the theorems like any
other, so these hold however large they are.

The type invariants are proved and no longer checked as properties of a run; the
runs check what is hard. Where a run's property has several parts
(`BudgetIsKept`, `EntriesAreConsistent`, `RecoveryHoldsItsLease`,
`WriteRightIsExclusive`), each part is an invariant of its own in the proof.

`WriteCoordinatorProofs` proves `IInv`: the type invariant, `OneWriter`,
`FifoIntegrity`, `QuiescenceMirrorsCoordinator`, `ReadersExcludeWriters`,
`UnknownEffectIsFinal`, `ResolvedMeansPersisted`, and four strengthenings that
say what a queued operation, the current operation, an unregistered operation
and the drain program counter look like. Those are needed since
e.g. `OneWriter` after `Start` rests on queued operations being inactive, and
`ResolvedMeansPersisted` on an operation not being settled before it runs. One
lemma says what each record transformation (`Terminate`, `Reject`, ...)
preserves, one what removing the i-th element of a sequence does, and there is
one step per action. `StartsInOrder` and `SettledForGood` follow as action
properties.

`OperationRegistryProofs` proves an invariant that is local to a key
(`KeyInv(entry, lease, permit, replayed)`) together with the exact counters.
Each operation changes one key, so the proof has a lemma per operation on one
key's values, and then frames the other keys. `Refinement` maps every step to a
step of `OnceStore` or to a stutter; it needs the capacity invariant, as
`Begin`'s guard counts begun keys.

`BudgetLedgerProofs` adds `Phases` to the checked invariants: a command belongs
to an open phase and a group never exceeds two sends. Without it, opening the
confirmation window could move the deadline under an open group. Each phase has
its lemma. `NothingIsRefunded` is the action property.

`UnknownRecoveryProofs` first proves `RecoveryKeepsTheBudget`, `Spec =>
Ledger!Spec`: every step of the system is a step of its ledger or leaves it
alone. So the ledger's theorems, instantiated on the variables of the system,
hold of it (`BudgetHoldsInRecovery`), and give `TypeCorrect`. `OnlyProvedOutcomes`,
`LeaseIsHeld` and `NothingLate` follow from one inductive invariant of four
parts: `Proved` (whoever acts on a commit as known has a committed server),
`Held` (whoever still has to act on the write keeps the lease), `Retained` (a
pausing write has left the adapter and its session is open) and `Driven` (the
scheduler drives or waits for a paused write only). The parts need each other:
that an answer does not come after the session has ended rests on `Driven`, which
rests on `Retained` for the microtasks still queued. They hold for any skew of
the clocks and for both wirings, so the two counterexamples below cost progress
and never safety.

`AccessProofs` has four parts. The first is about operations alone. `StoreOK` is the
legality of the store: the validators, `PresenceExplained` and `FacesAgree`. `EffectsKeep` says
that every operation keeps it, and that the store it leaves is `Newer`: the sum
of the two guards (`Stamp`) and each qualification's version only grow, and where
they did not grow nothing they stand for has changed. `MergeIsEffect` is the
heart of the matter. A transaction that read `a` and made `c` of it is applied to
a newer `b` in which nothing it wrote has changed; the result is what the same
operation makes of `b`. It rests on two facts: whoever raises a guard and meets
no conflict has seen everything but the other qualifications as it is
(`GuardedMerge`, and one lemma per operation that it does the same on documents
that differ only there), and an update that leaves the mapping alone has seen its
qualification and thereby its slots as they are (`InPlaceMerge`). A bind that
forgot the face guard would break just this.

The second part adds what transactions need (`IInv`): what each of them
read is legal and the committed documents are `Newer` than it, what it has
written is an operation on what it read, no two have written the same document,
and who was told something was told what is stored. All five properties of the
run follow for any number of scopes, requests, ids and slots; the last,
`TransactionsAreSerial`, from `MergeIsEffect` at each commit, those in doubt
included.

The third part is about images. Two lemmas carry `ImagesTell`: a store in agreement
has nothing its readers refuse (`ViewIsReadable`), so a transaction that may commit
can be recognised; and while a recognition is in doubt its event's key is free in
what is stored (`RecognitionWrites`, from the part of `IInv` that nobody has changed
what it writes). The fourth is about callers.
`FrozenIsSilent` is a property of each step and needs no invariant but the domains.
`RouteInv` is local to a caller: what was read of an account is one of the facts seen
since the request came (`Witnessed`), and the error a use case ends with tells what it
has written (`Truthful`). The disabling of an account touches all callers at once and
only adds to what each has witnessed.

`AdmissionProofs` rests on `RequestInv`, a predicate of one request in three parts:
in which phase which kind may be (`PhaseOf`), what it holds there, of every pool,
the coordinator and the registry (`HoldsOf`), and what it was told against what
is in the database (`ToldOf`). A segment touches one request (`OnlyTouches`), and the
two that touch many, the coordinator's failing closed and a drain, do the same to
each. What relates requests is small: no pool is over its limit (`InLimit`), one
recognition at most may have an effect and the entry is about it (`EffectInv`), and
the n-th applied command expected revision n - 1 (`ControlInv`), from which
`CommandsApplyOnce` follows since nothing expects the same revision twice.

`PrecommitProofs` goes up the layers. `BindingInv` (`LayersAgree` and `OneBoundary`
with `Boundary`: no round begins and no command of the work is sent behind a
boundary) holds under calls in any order, so `LayersStayTogether` is a theorem of
`BindingSpec`, and every step of the adapter is shown to be a step of the binding or
none. `ChainInv` then says what each stage has behind it (`StageInv`), who has the
session (`SessionInv`), what an answer or a refusal rests on (`AnswerInv`; that a refused change was
never sent its commit is `SessionInv`'s) and what the server
holds (`DataInv`), and `WorkerInv` goes on with sender, reader and cleaner behind the
hand-off: a session stays open until the write is confirmed, and it is confirmed by a
committed server only. `ScopesInv` says of a stage in flight that qualification
and mapping, which it reads again one after the other, were current together since it
was called, as a version is current once (`Honest`). `SchemaInv` has what a process
found before it goes on (`SchemaFound`), and that, while the metadata are there, a
seeding has cleared a prefix of the collections and the rest is one fixture
(`Remains`); therefore whoever attaches finds one whole fixture. Where a guard of
`ScopedTransaction` asks whether a step is ENABLED, the proof takes it as any truth
value.

`LifecycleProofs` has one part for each module of the run:

- Runs. `EpochsHaveOneWriter` is about what happened long ago. `TicketInv`: the marker of
  a spent ticket is on disk, and only one process is about to spend one, since a crash
  that takes its marker takes the process. `WinnerInv`: an epoch has one winner, for
  its compare-and-set found no claim and left one. `CastInv` and `WriteInv` bind
  commands that are still under way to their sender's epoch; `UpkeepInv` says that
  what maintenance has proved ended stays ended until it is over.
- Start and shutdown. `HeldStarting`, `HeldClosing`, `Closed`: which resources are open
  at each step of the sequence. `Timed`: signals, deadline and exit code. `Connected`:
  requests exist only between listening and the close of HTTP.
- Rates. A category counts in the last minute in which it allowed anything, no later
  than the clock, so a reading that is in another minute finds one in which nothing
  was allowed. `Counts` equates counters with cardinalities of what was allowed.
- Listener. At most one process is between two of its steps (`OneSteps`), so what lies
  at the path is known at each stage; what is removed as stale serves nobody
  (`StaleIsDead`), and what was moved aside has somebody who puts it back.
- Exchanges. `CoreInv`, `LinkInv`, `SlotInv`. A link's part speaks of the commands that were
  applied, which only grow (`Grows`), and so each step of the core keeps every link's
  part (`LinkHolds`).
- Listings. `Rank` is the number of rows above a row; ranks have no gap (`RankExact`), so a
  page is what ranks below its size, and is finite and not empty when there is a row
  (`PageIsHighest`). `WalkHolds`: pages go down, the cursor is below what was shown, and
  what was there from the first page is shown or below it.
- Bodies. Places are the cardinality of the bodies listened to; a timer is there just
  for these.
- The log. A rotation is many moves and a death may fall between any two, so
  `RingInv` speaks of files that have names and no move: each is increasing, an older
  name has older records, and there is no gap before the newest. `StepInv` has what a
  step relies on (the name it moves into is free), `OrderInv` that what waits is newer
  than what is with the driver and this than what is on disk, `WorkerInv` and
  `ToldInv` that an answer of an invalidated worker is told from one that counts, and
  `ReaderInv` that what a reader has and has yet to read are the ring it opened.

Model-checked only: `EveryWriteSettles` and `PausedIsDecided`, as liveness under
fairness is outside of what the prover does, and what the runs with a counterexample
show.

## 5. Findings

`write_coordinator_hook_failure`. `g09a-writer-quiescence.test.ts:112` says of a
throwing registered, queued or started hook, or start gate, that it blocks the
coordinator permanently and later work never executes.
`finalizeRecoveredBusinessResult` (write-operation-coordinator.ts:556) sets
`blocked = false` whatever had set it. If such a hook throws while another write
is paused as a post-commit unknown, the recovery of the paused write unblocks the
coordinator and later writes run. `UnknownEffectIsFinal` still holds: a write
that ended UNKNOWN is never followed by another.

`unknown_recovery_wake`. The composition defers the wake of the scheduler by one
microtask "so the scheduler cannot adopt the ticket while the coordinator still
rejects recovery as not yet paused" (g10a-admission-runtime-composition.ts:160).
That suffices for a management write, whose executor pauses in its own frame. A
recognition pauses in `runOriginalRecognition`, which `executeRecognition` still
awaits (g07b-admission-handler.ts:839), so its promise settles one turn later and
the wake comes first. The handle's `assertCurrent` throws, the scheduler is
`FAILED_CLOSED` for good, its `failClosed` of the ticket throws as well and is
swallowed; then `runOperation` pauses the write, which nobody resumes. The unit
tests wake the recognition's scheduler by hand, and the fault test that goes
through the composition has a management write.

`unknown_recovery_timer`. Ledger and scheduler both keep the cadence, the
scheduler with a timer of exactly the ledger's delay. The two clocks truncate
one monotonic clock from different origins, so a timer can fire in the
millisecond before `confirmationNextAt` (when anything else wakes the event loop
in it). The ledger then denies `CONFIRMATION_NOT_DUE`, which `drive` does not
tell from a spent budget: it fails closed with slots and window left, against
"deliberately retried through the ledger's prescribed alternating cadence"
(g10c-recovery-scheduler.ts:62).

## 6. Not modelled, and why

- Encodings: digests and frames of comparison inputs, parsing of bytes, routes and
  cursors' text, rendering of responses, the schema of log records, codecs of
  documents. They are equality of contents, or an outcome "malformed", where a
  property needs them.
- Capability forgery: that a token is genuine is the identity of what it stands
  for. Late, repeated and misplaced use of genuine tokens is modelled.
- Validation of files and environment before a start (`g11a-*`, `g12g*`): pure
  checks without later effect. `decideG11fMaintenance` is a pure policy that
  nothing under `src/src` calls.
- Driver monitoring and the face index experiment: no state that other parts
  depend on.
- The probe mode of a start and the wiring of its login: they hold no resource of
  their own.
- `unknown-recognition-recovery.ts` beyond acceptance: nothing drains its queue yet.
- Clocks that fail are a freeze in the ledgers and in authentication, and left out
  of `UnknownRecovery`.
- Two failures injected into one decision of the coordinator, see section 2.
- Log exports over the control socket beyond their admission, and the server's HTTP
  options.

Out of the prover's reach and therefore only model-checked: liveness. No property
rests on what a recursive definition computes.
