----------------------------- MODULE Admission -----------------------------
(***************************************************************************)
(* The admission handler (g07b-admission-handler.ts): every HTTP request   *)
(* from its arrival to its one answer and to the return of all it holds,   *)
(* composed with the resource ledger, the response owner, the writer FIFO, *)
(* the operation registry, the runtime control and the recovery of paused  *)
(* writes.                                                                 *)
(*                                                                         *)
(* An action is one synchronous segment of the handler, with the           *)
(* microtasks it leaves behind when they only deliver an answer.  The      *)
(* writer FIFO, the registry and the recovery have modules of their own    *)
(* (WriteCoordinator, OperationRegistry, UnknownRecovery); here each is    *)
(* what the handler sees of it: the order of the queue, the fence, the     *)
(* state of the entry of one event key, and the lease a paused write keeps.*)
(*                                                                         *)
(* Bounds: Requests arrive once each, with a kind of KindOf; all           *)
(* recognitions are about one event key; the operator sends each of        *)
(* Commands at most once.                                                  *)
(***************************************************************************)
EXTENDS AdmissionLedger, RuntimeControl

CONSTANTS
    KindOf,             \* [Requests -> SUBSET Kinds]: what a request may be
    Artifacts,          \* comparison artifacts of a recognition input
    NoArtifact,
    Commands,           \* the control commands, each sent any number of times
    RegistryCapacity,
    Writable,           \* writeClaimDisposition = 'WRITABLE'
    Faults              \* what may fail; one kind of fault in a behaviour

\* BIND: bindOperationIdentity throws.  BUDGET: createOperationBudgetBinding
\* throws.  FREEZE: an asynchronous dependency throws at once, or returns no
\* native promise.  REGISTRY: a trusted callback of the registry fails.
FaultNames == {"BIND", "BUDGET", "FREEZE", "REGISTRY"}

ASSUME KindAssumption == KindOf \in [Requests -> SUBSET Kinds]
ASSUME ArtifactAssumption == NoArtifact \notin Artifacts
ASSUME HolderAssumption == Holders = Requests
ASSUME FaultAssumption == Faults \subseteq FaultNames

VARIABLES
    kind,       \* [Requests -> Kinds \cup {"NONE"}]
    at,         \* where the handling of each request is
    answer,     \* what the client was told; the response owner is open at NONE
    artifact,   \* the input of each validated recognition
    queued,     \* the writers in the queue: VALIDATING or READY
    ahead,      \* its order: <<x, r>> when x is to start before r
    fence,      \* the coordinator: OPEN, PAUSED under a paused write, FAILED
    canceled,   \* validations marked by the maintenance
    reserved,   \* requests that hold a registry reservation
    entry,      \* the registry entry of the event key
    registry,   \* OPEN, or FROZEN after a failed callback
    frozen,     \* asyncDependenciesFrozen
    fault,      \* the kind of fault this behaviour has met, or NONE
    event,      \* the artifact of the persisted event, or NoArtifact
    committed   \* writers whose transaction the database has committed

requestVars == <<kind, at, artifact>>
fifoVars == <<queued, ahead>>
queueVars == <<fifoVars, fence, canceled>>
registryVars == <<reserved, entry, registry>>
databaseVars == <<event, committed>>
dependencyVars == <<frozen, fault>>
vars == <<leases, controlVars, requestVars, answer, queueVars, registryVars,
          dependencyVars, databaseVars>>

Recognitions == {"NORMAL_RECOGNITION", "EXISTING_ONLY"}
Writers == {"MANAGEMENT", "NORMAL_RECOGNITION"}
RelatedWrites == Writers \cup {"EXISTING_ONLY"}

\* A writer whose effect is unknown is UNKNOWN, or ABANDONED when its recovery
\* gave up and its transaction may still be alive; one the fail-closed coordinator
\* dropped while it was queued is BLOCKED; one whose identity could not be
\* bound is UNBOUND.
Phases == {"ABSENT", "VALIDATING", "READY", "WORKING", "PAUSED", "OVER",
           "UNKNOWN", "ABANDONED", "BLOCKED", "UNBOUND"}

\* An answer is kept as what it tells the client: that nothing was done, that
\* the outcome is not known, the result, or the result of an earlier request.
Answers == {"NONE", "NO_EFFECT", "UNCONFIRMED", "RESULT", "REPLAY"}

Says(plan) ==
    CASE plan \in {"EPOCH", "BUSY", "UNAVAILABLE", "REJECTED", "RATE_LIMITED", "CONFLICT"} ->
            "NO_EFFECT"
      [] plan \in {"LOST", "PROGRESS"} -> "UNCONFIRMED"
      [] OTHER -> plan

NoEntry == [state |-> "NONE", artifact |-> NoArtifact]

Init ==
    /\ ControlInit
    /\ LedgerInit
    /\ kind = [r \in Requests |-> "NONE"]
    /\ at = [r \in Requests |-> "ABSENT"]
    /\ answer = [r \in Requests |-> "NONE"]
    /\ artifact = [r \in Requests |-> NoArtifact]
    /\ queued = {}
    /\ ahead = {}
    /\ fence = "OPEN"
    /\ canceled = {}
    /\ reserved = {}
    /\ entry = NoEntry
    /\ registry = "OPEN"
    /\ frozen = FALSE
    /\ fault = "NONE"
    /\ event \in {NoArtifact} \cup Artifacts
    /\ committed = {}

-----------------------------------------------------------------------------
(* Helpers *)

Queued(r) == r \in queued

\* r joins the queue behind everybody; those who are gone leave it
Enters(r) == queued' = queued \cup {r} /\ ahead' = ahead \cup (queued \X {r})
Leave(gone) == queued' = queued \ gone /\ ahead' = ahead \cap (queued' \X queued')

IsFirst(r) == Queued(r) /\ \A x \in queued : <<x, r>> \notin ahead

Running == {r \in Requests : at[r] \in {"WORKING", "PAUSED"} /\ kind[r] \in Writers}

Open(r) == at[r] # "ABSENT" /\ answer[r] = "NONE"

\* tryRespond: the first answer closes the owner, any later one is dropped
Answered(r, plan) == IF answer[r] = "NONE" THEN [answer EXCEPT ![r] = Says(plan)] ELSE answer

\* r answers, and gives back what it holds in `back' and its HTTP lease
Reply(r, plan, back) ==
    /\ answer' = Answered(r, plan)
    /\ leases' = Moved(r, back \cup HttpPools, {})

Goes(r, phase) == at' = [at EXCEPT ![r] = phase]

Fails(f) == f \in Faults /\ fault \in {"NONE", f} /\ fault' = f

\* the settled hook gives the origin back when the operation leaves the queue;
\* a fail-closed coordinator has dropped the operation and throws
OriginOf(r) == IF Queued(r) THEN {"origin"} ELSE {}

\* a frozen registry releases nothing
Unreserved(r) == reserved' = IF registry = "OPEN" THEN reserved \ {r} ELSE reserved

\* markUnknown, completeCanonical, completeSafeTechnicalTerminal: management
\* has no entry, and a frozen registry keeps the one it has
EntryGoes(r, state) ==
    entry' = IF kind[r] = "NORMAL_RECOGNITION" /\ registry = "OPEN"
             THEN [state |-> state, artifact |-> artifact[r]] ELSE entry

\* unknownEffect of r: the coordinator rejects what is queued, for good.  A
\* READY writer is then answered by its deadline only.
FailsClosed(r, phase) ==
    /\ fence' = "FAILED"
    /\ Leave(Requests)
    /\ at' = [x \in Requests |->
                IF x = r THEN phase
                ELSE IF at[x] = "READY" THEN "BLOCKED" ELSE at[x]]

-----------------------------------------------------------------------------
(* Arrival: the synchronous part of the handler *)

Unavailable(k) == IF k \in Recognitions THEN "UNCONFIRMED" ELSE "UNAVAILABLE"

\* reserveCandidate and registerProvisional both succeed
CanRegister(k) ==
    /\ fence = "OPEN"
    /\ k = "NORMAL_RECOGNITION" =>
          /\ registry = "OPEN"
          /\ Cardinality(reserved) + (IF entry = NoEntry THEN 0 ELSE 1) < RegistryCapacity

\* what the handler answers at once, in the order of its checks; `stale' is
\* checkEpoch.  The last is the catch of startWriter, which returns all it took.
Refusal(k, stale) ==
    IF frozen THEN Unavailable(k)
    ELSE IF k \in Writers /\ MaintenanceVeto THEN "BUSY"
    ELSE IF k \in RelatedWrites /\ stale THEN "EPOCH"
    ELSE IF k \in Writers /\ ~Writable THEN "UNAVAILABLE"
    ELSE IF ~CanAcquire(k) \/ (k \in Writers /\ ~CanRegister(k)) THEN Unavailable(k)
    ELSE "NONE"

Arrives(r, k) ==
    /\ at[r] = "ABSENT" /\ k \in KindOf[r]
    /\ kind' = [kind EXCEPT ![r] = k]

Refuse(r, k) ==
    /\ Arrives(r, k)
    /\ \E stale \in BOOLEAN :
          /\ Refusal(k, stale) # "NONE"
          /\ answer' = Answered(r, Refusal(k, stale))
    /\ Goes(r, "OVER")
    /\ UNCHANGED <<leases, controlVars, artifact, queueVars, registryVars, dependencyVars,
                   databaseVars>>

\* a non-writer whose clock, rate, scrypt slot or maintenance veto turns it
\* away before its validation; it keeps nothing
TurnedAway(k) ==
    {"UNAVAILABLE"} \cup (IF k = "LOGIN" THEN {"RATE_LIMITED"} ELSE {})
                   \cup (IF k = "QUERY" /\ MaintenanceVeto THEN {"BUSY"} ELSE {})

TurnAway(r, k) ==
    /\ Arrives(r, k) /\ k \notin Writers
    /\ Refusal(k, FALSE) = "NONE"
    /\ \E plan \in TurnedAway(k) : answer' = Answered(r, plan)
    /\ Goes(r, "OVER")
    /\ UNCHANGED <<leases, controlVars, artifact, queueVars, registryVars, dependencyVars,
                   databaseVars>>

\* startWriter or startNonWriter up to the await of the validation.  The
\* client may be gone already: the owner is born closed.
Admit(r, k) ==
    /\ Arrives(r, k)
    /\ Refusal(k, FALSE) = "NONE"
    /\ k = "LOGIN" => HasRoom("scrypt")
    /\ k = "QUERY" => ~MaintenanceVeto
    /\ LET taken == Bundle(k) \cup (IF k = "LOGIN" THEN {"scrypt"} ELSE {}) IN
          \/ leases' = Moved(r, {}, taken) /\ UNCHANGED answer
          \/ leases' = Moved(r, {}, taken \ HttpPools) /\ answer' = Answered(r, "LOST")
    /\ Goes(r, "VALIDATING")
    /\ IF k \in Writers THEN Enters(r) ELSE UNCHANGED fifoVars
    /\ reserved' = IF k = "NORMAL_RECOGNITION" THEN reserved \cup {r} ELSE reserved
    /\ UNCHANGED <<controlVars, artifact, fence, canceled, entry, registry, dependencyVars,
                   databaseVars>>

\* bindOperationIdentity throws: the provisional operation exists but its
\* origin lease is not in originByOperation yet, so the settled hook of the
\* rejection does not give it back, and neither does the catch of startWriter
BindFails(r, k) ==
    /\ Fails("BIND") /\ UNCHANGED frozen
    /\ Arrives(r, k) /\ k \in Writers
    /\ Refusal(k, FALSE) = "NONE"
    /\ answer' = Answered(r, Unavailable(k))
    /\ leases' = Moved(r, {}, {"origin"})
    /\ Goes(r, "UNBOUND")
    /\ UNCHANGED <<controlVars, artifact, queueVars, registryVars, databaseVars>>

-----------------------------------------------------------------------------
(* The response owner *)

\* what the deadline answers: deadlineObservation.read
Late(r) ==
    IF kind[r] = "NORMAL_RECOGNITION" /\ at[r] = "WORKING" THEN "PROGRESS" ELSE "UNCONFIRMED"

\* onDeadline, or the close event of the response
OwnerCloses(r) ==
    /\ Open(r)
    /\ \E plan \in {Late(r), "LOST"} : Reply(r, plan, {})
    /\ UNCHANGED <<controlVars, requestVars, queueVars, registryVars, dependencyVars, databaseVars>>

-----------------------------------------------------------------------------
(* The validation of a request settles *)

ValidatedAs(r, kinds) == at[r] = "VALIDATING" /\ kind[r] \in kinds

\* a dependency that throws at once, or returns no native promise, freezes
\* every later use of a dependency
Freezes == Fails("FREEZE") /\ frozen' = TRUE

\* the validator rejects the request or fails: the provisional operation of a
\* writer is rejected before its start, whatever maintenance has marked
ValidationFails(r) ==
    /\ ValidatedAs(r, Kinds)
    /\ \E plan \in {"REJECTED", "UNCONFIRMED"} :
          /\ Reply(r, plan, ValidationPools \cup {"scrypt"} \cup OriginOf(r))
          /\ UNCHANGED dependencyVars \/ (plan = "UNCONFIRMED" /\ Freezes)
    /\ Goes(r, IF kind[r] \in Writers /\ ~Queued(r) THEN "BLOCKED" ELSE "OVER")
    /\ Leave({r})
    /\ Unreserved(r)
    /\ UNCHANGED <<controlVars, kind, artifact, fence, canceled, entry, registry, databaseVars>>

\* validateWriter finds its cancellation mark: settleMaintenanceKnownNoEffect.
\* When the reservation cannot be released, or the coordinator has dropped the
\* operation, the request answers UNAVAILABLE; its rejection before start then
\* still takes a queued operation out of the queue.
ValidationCanceled(r) ==
    /\ ValidatedAs(r, Writers) /\ r \in canceled
    /\ LET cleans == Queued(r) /\ (kind[r] = "MANAGEMENT" \/ registry = "OPEN") IN
          Reply(r, IF cleans THEN "BUSY" ELSE "UNAVAILABLE", ValidationPools \cup OriginOf(r))
    /\ Goes(r, IF Queued(r) THEN "OVER" ELSE "BLOCKED")
    /\ Leave({r})
    /\ Unreserved(r)
    /\ UNCHANGED <<controlVars, kind, artifact, fence, canceled, entry, registry, dependencyVars,
                   databaseVars>>

Inputs(r) == IF kind[r] \in Recognitions THEN Artifacts ELSE {NoArtifact}

\* the provisional operation is activated
Activate(r) ==
    /\ ValidatedAs(r, Writers) /\ r \notin canceled /\ Queued(r)
    /\ \E a \in Inputs(r) : artifact' = [artifact EXCEPT ![r] = a]
    /\ leases' = Moved(r, ValidationPools, {})
    /\ Goes(r, "READY")
    /\ UNCHANGED <<controlVars, kind, answer, queueVars, registryVars, dependencyVars, databaseVars>>

\* activate throws: the coordinator failed closed during the validation
ActivateTooLate(r) ==
    /\ ValidatedAs(r, Writers) /\ r \notin canceled /\ ~Queued(r)
    /\ Reply(r, "UNCONFIRMED", ValidationPools)
    /\ Goes(r, "BLOCKED")
    /\ Unreserved(r)
    /\ UNCHANGED <<controlVars, kind, artifact, queueVars, entry, registry, dependencyVars,
                   databaseVars>>

-----------------------------------------------------------------------------
(* Non-writers after their validation *)

\* runLogin: the scrypt slot is held for the validation only
LoginValidated(r) ==
    /\ ValidatedAs(r, {"LOGIN"})
    /\ leases' = Moved(r, ValidationPools \cup {"scrypt"}, {})
    /\ Goes(r, "WORKING")
    /\ UNCHANGED <<controlVars, kind, answer, artifact, queueVars, registryVars, dependencyVars,
                   databaseVars>>

\* what stops runQuery between its validation and its work
QueryStops(r) ==
    {"RATE_LIMITED", "UNAVAILABLE"} \cup (IF MaintenanceVeto THEN {"BUSY"} ELSE {})

QueryStopped(r) ==
    /\ ValidatedAs(r, {"QUERY"})
    /\ \E plan \in QueryStops(r) : Reply(r, plan, ValidationPools)
    /\ Goes(r, "OVER")
    /\ UNCHANGED <<controlVars, kind, artifact, queueVars, registryVars, dependencyVars, databaseVars>>

\* the second veto, the rate, the database slot and the read lease all pass
QueryValidated(r) ==
    /\ ValidatedAs(r, {"QUERY"})
    /\ MayRead /\ HasRoom("queryDb")
    /\ reads' = reads \cup {r}
    /\ leases' = Moved(r, {}, {"queryDb"})
    /\ Goes(r, "WORKING")
    /\ UNCHANGED <<replayVars, holdVars, persistence, kind, answer, artifact, queueVars,
                   registryVars, dependencyVars, databaseVars>>

\* loginWork or queryWork settles, or could not be called
NonWriterEnds(r) ==
    /\ at[r] = "WORKING" /\ kind[r] \in {"LOGIN", "QUERY"}
    /\ \E plan \in {"UNCONFIRMED"} \cup (IF frozen THEN {} ELSE {"RESULT"}) :
          /\ Reply(r, plan, ValidationPools \cup {"queryDb"})
          /\ UNCHANGED dependencyVars \/ (plan = "UNCONFIRMED" /\ Freezes)
    /\ Goes(r, "OVER")
    /\ reads' = reads \ {r}
    /\ UNCHANGED <<replayVars, holdVars, persistence, kind, artifact, queueVars, registryVars,
                   databaseVars>>

\* what the registry says of an input: lookupExisting and registerReserved.  A
\* safe technical terminal replays the answer of an effect that did not happen.
Told(a) ==
    IF registry = "FROZEN" THEN "UNCONFIRMED"
    ELSE IF entry = NoEntry THEN "UNCONFIRMED"
    ELSE IF entry.artifact # a THEN "CONFLICT"
    ELSE IF entry.state = "CANONICAL" THEN "REPLAY"
    ELSE IF entry.state = "SAFE" THEN "NO_EFFECT"
    ELSE "PROGRESS"

\* runExistingOnly after its validation: one segment
ExistingOnlyValidated(r) ==
    /\ ValidatedAs(r, {"EXISTING_ONLY"})
    /\ \E a \in Artifacts :
          /\ artifact' = [artifact EXCEPT ![r] = a]
          /\ \E plan \in {"RATE_LIMITED", "UNCONFIRMED", Told(a)} :
                Reply(r, plan, ValidationPools)
    /\ Goes(r, "OVER")
    /\ UNCHANGED <<controlVars, kind, queueVars, registryVars, dependencyVars, databaseVars>>

-----------------------------------------------------------------------------
(* The writer at the head of the queue: executeManagement and              *)
(* executeRecognition up to their first await                              *)

\* drain of the coordinator takes r
Starts(r) ==
    /\ fence = "OPEN" /\ Running = {}
    /\ IsFirst(r) /\ at[r] = "READY"
    /\ CanStartWriter

\* r ends without effect, and the registry takes its reservation back
StartEnds(r, plan) ==
    /\ Reply(r, plan, {"origin"})
    /\ Goes(r, "OVER")
    /\ Leave({r})
    /\ Unreserved(r)
    /\ UNCHANGED <<controlVars, kind, artifact, fence, canceled, entry, registry, dependencyVars,
                   databaseVars>>

\* the rate ledger limits the writer or throws, and a reservation can be released
StartLimited(r) ==
    /\ Starts(r)
    /\ kind[r] = "NORMAL_RECOGNITION" => registry = "OPEN"
    /\ StartEnds(r, "RATE_LIMITED") \/ StartEnds(r, "UNAVAILABLE")

\* registerReserved finds the entry of an earlier recognition
StartReplays(r) ==
    /\ Starts(r) /\ kind[r] = "NORMAL_RECOGNITION"
    /\ registry = "OPEN" /\ entry # NoEntry
    /\ StartEnds(r, Told(artifact[r]))

\* a recognition is registered before its work, whether it can begin or not
Registers(r, state) ==
    /\ Unreserved(r)
    /\ EntryGoes(r, state)

\* the work begins: it holds an issued-persistence lease
StartWork(r) ==
    /\ Starts(r) /\ MayIssue /\ ~frozen
    /\ kind[r] = "NORMAL_RECOGNITION" => registry = "OPEN" /\ entry = NoEntry
    /\ persistence' = persistence \cup {r}
    /\ Goes(r, "WORKING")
    /\ Leave({r})
    /\ Registers(r, "RUNNING")
    /\ UNCHANGED <<leases, replayVars, holdVars, reads, kind, artifact, answer, fence,
                   canceled, registry, dependencyVars, databaseVars>>

\* the work cannot be called: no lease is issued in maintenance, the registry
\* or the dependencies are frozen, the budget binding fails, or the call fails
\* at once.  The handler cannot tell it from work that failed later.
StartUnknown(r) ==
    /\ Starts(r)
    /\ \/ /\ ~MayIssue \/ frozen \/ (kind[r] = "NORMAL_RECOGNITION" /\ registry = "FROZEN")
          /\ UNCHANGED dependencyVars
       \/ Fails("BUDGET") /\ UNCHANGED frozen
       \/ Freezes
    /\ kind[r] = "NORMAL_RECOGNITION" /\ registry = "OPEN" => entry = NoEntry
    /\ Reply(r, "UNCONFIRMED", {})
    /\ FailsClosed(r, "UNKNOWN")
    /\ Registers(r, "UNKNOWN")
    /\ UNCHANGED <<controlVars, kind, artifact, canceled, registry, databaseVars>>

-----------------------------------------------------------------------------
(* The work of a writer *)

\* the transaction of r is open, or its commit was sent and not answered
Alive(r) == kind[r] \in Writers /\ at[r] \in {"WORKING", "PAUSED", "ABANDONED"}

\* the database commits the transaction of r; the event key is unique
Commit(r) ==
    /\ Alive(r) /\ r \notin committed
    /\ kind[r] = "NORMAL_RECOGNITION" => event = NoArtifact
    /\ committed' = committed \cup {r}
    /\ event' = IF kind[r] = "NORMAL_RECOGNITION" THEN artifact[r] ELSE event
    /\ UNCHANGED <<leases, controlVars, requestVars, answer, queueVars, registryVars, dependencyVars>>

\* the effect of r is in the database: its own transaction, or the event that
\* an earlier process persisted for the same input
Persisted(r) ==
    r \in committed \/ (kind[r] = "NORMAL_RECOGNITION" /\ event = artifact[r])

Works(r) == at[r] = "WORKING" /\ kind[r] \in Writers
Completes(r) == Works(r) /\ (kind[r] = "NORMAL_RECOGNITION" => registry = "OPEN")

\* the work of r settles, and with it the persistence lease
WorkEnds(r, plan, state) ==
    /\ Reply(r, plan, {"origin"})
    /\ Goes(r, "OVER")
    /\ persistence' = persistence \ {r}
    /\ EntryGoes(r, state)
    /\ UNCHANGED <<replayVars, holdVars, reads, kind, artifact, queueVars, reserved,
                   registry, dependencyVars, databaseVars>>

WorkPersists(r) == Completes(r) /\ Persisted(r) /\ WorkEnds(r, "RESULT", "CANONICAL")

WorkHasNoEffect(r) ==
    /\ Completes(r) /\ r \notin committed
    /\ WorkEnds(r, "NO_EFFECT", "SAFE")

\* the work fails without a retained handoff, answers UNKNOWN_EFFECT, or its
\* result cannot be rendered or completed
WorkFails(r) ==
    /\ Works(r)
    /\ Reply(r, "UNCONFIRMED", {})
    /\ FailsClosed(r, "UNKNOWN")
    /\ persistence' = persistence \ {r}
    /\ EntryGoes(r, "UNKNOWN")
    /\ UNCHANGED <<replayVars, holdVars, reads, kind, artifact, canceled, reserved, registry,
                   dependencyVars, databaseVars>>

\* Mutant of Pauses: the issued-persistence lease ends with the work.
PausesReleased(r) ==
    /\ Works(r)
    /\ Reply(r, "UNCONFIRMED", {})
    /\ Goes(r, "PAUSED")
    /\ fence' = "PAUSED"
    /\ EntryGoes(r, "UNKNOWN")
    /\ persistence' = persistence \ {r}
    /\ UNCHANGED <<replayVars, holdVars, reads, kind, artifact, fifoVars, canceled, reserved,
                   registry, dependencyVars, databaseVars>>

\* the initial commit was sent, its outcome is not known, and the recovery
\* bridge retains the handoff together with the lease
Pauses(r) ==
    /\ Works(r)
    /\ Reply(r, "UNCONFIRMED", {})
    /\ Goes(r, "PAUSED")
    /\ fence' = "PAUSED"
    /\ EntryGoes(r, "UNKNOWN")
    /\ UNCHANGED <<controlVars, kind, artifact, fifoVars, canceled, reserved, registry, dependencyVars,
                   databaseVars>>

\* Mutant of Publish: the recovery publishes what it did not prove.
PublishUnproved(r) ==
    /\ at[r] = "PAUSED"
    /\ kind[r] = "NORMAL_RECOGNITION" => registry = "OPEN"
    /\ leases' = Moved(r, {"origin"}, {})
    /\ Goes(r, "OVER")
    /\ fence' = "OPEN"
    /\ persistence' = persistence \ {r}
    /\ EntryGoes(r, "CANONICAL")
    /\ UNCHANGED <<replayVars, holdVars, reads, kind, artifact, answer, fifoVars, canceled,
                   reserved, registry, dependencyVars, databaseVars>>

\* the recovery proved the commit: canonicalMatched, then the writer's own
\* settlement; the client has its answer already
Publish(r) ==
    /\ at[r] = "PAUSED" /\ r \in committed
    /\ kind[r] = "NORMAL_RECOGNITION" => registry = "OPEN"
    /\ leases' = Moved(r, {"origin"}, {})
    /\ Goes(r, "OVER")
    /\ fence' = "OPEN"
    /\ persistence' = persistence \ {r}
    /\ EntryGoes(r, "CANONICAL")
    /\ UNCHANGED <<replayVars, holdVars, reads, kind, artifact, answer, fifoVars, canceled,
                   reserved, registry, dependencyVars, databaseVars>>

\* the recovery spent its slots, or could not publish: the persistence lease
\* stays out for good
GiveUp(r) ==
    /\ at[r] = "PAUSED"
    /\ FailsClosed(r, "ABANDONED")
    /\ UNCHANGED <<leases, controlVars, kind, artifact, answer, canceled, registryVars, dependencyVars,
                   databaseVars>>

RegistryFreezes ==
    /\ Fails("REGISTRY") /\ registry = "OPEN" /\ UNCHANGED frozen
    /\ registry' = "FROZEN"
    /\ UNCHANGED <<leases, controlVars, requestVars, answer, queueVars, reserved, entry, databaseVars>>

-----------------------------------------------------------------------------
(* The operator *)

OperatorHolds(c) ==
    /\ Hold(c)
    /\ UNCHANGED <<leases, requestVars, answer, queueVars, registryVars, dependencyVars, databaseVars>>

OperatorReleases(c) ==
    /\ Release(c)
    /\ UNCHANGED <<leases, requestVars, answer, queueVars, registryVars, dependencyVars, databaseVars>>

ReadyWriters == {r \in queued : at[r] = "READY"}

\* a READY writer whose reservation the frozen registry keeps stops the
\* settlement of those behind it
Keeps(r) == kind[r] = "NORMAL_RECOGNITION" /\ registry = "FROZEN"
SettledReady ==
    {r \in ReadyWriters : \A x \in ReadyWriters : x = r \/ <<x, r>> \in ahead => ~Keeps(x)}

\* DRAIN up to its first await, with the two callbacks of the coordinator: the
\* waiting validations are marked, the READY writers settle without effect
OperatorDrains(c) ==
    /\ Drain(c, \A r \in ReadyWriters : ~Keeps(r))
    /\ canceled' = canceled \cup {r \in queued : at[r] = "VALIDATING"}
    /\ Leave(SettledReady)
    /\ at' = [r \in Requests |-> IF r \in SettledReady THEN "OVER" ELSE at[r]]
    /\ answer' = [r \in Requests |->
                    IF r \in SettledReady /\ answer[r] = "NONE" THEN Says("BUSY") ELSE answer[r]]
    /\ leases' = [pool \in Pools |->
                    IF pool \in HttpPools \cup {"origin"} THEN leases[pool] \ SettledReady
                    ELSE leases[pool]]
    /\ reserved' = reserved \ SettledReady
    /\ UNCHANGED <<kind, artifact, fence, entry, registry, dependencyVars, databaseVars>>

DrainEnds ==
    /\ DrainObserved \/ DrainExpires \/ DrainAborts
    /\ UNCHANGED <<leases, requestVars, answer, queueVars, registryVars, dependencyVars, databaseVars>>

-----------------------------------------------------------------------------

ValidationEnds(r) ==
    \/ ValidationFails(r) \/ ValidationCanceled(r) \/ Activate(r) \/ ActivateTooLate(r)
    \/ LoginValidated(r) \/ QueryStopped(r) \/ QueryValidated(r) \/ ExistingOnlyValidated(r)

Start(r) == StartLimited(r) \/ StartReplays(r) \/ StartWork(r) \/ StartUnknown(r)

WorkSettles(r) == WorkPersists(r) \/ WorkHasNoEffect(r) \/ WorkFails(r) \/ Pauses(r)

Recover(r) == Publish(r) \/ GiveUp(r)

Operator ==
    \/ \E c \in Commands : OperatorHolds(c) \/ OperatorReleases(c) \/ OperatorDrains(c)
    \/ DrainEnds

Next ==
    \/ \E r \in Requests :
          \/ \E k \in KindOf[r] : Refuse(r, k) \/ TurnAway(r, k) \/ Admit(r, k) \/ BindFails(r, k)
          \/ OwnerCloses(r) \/ ValidationEnds(r) \/ Start(r) \/ Commit(r) \/ WorkSettles(r)
          \/ NonWriterEnds(r) \/ Recover(r)
    \/ RegistryFreezes
    \/ Operator

Spec == Init /\ [][Next]_vars

-----------------------------------------------------------------------------
(* Properties *)

\* Every variable stays in its domain.
TypeOK ==
    /\ ControlTypeOK
    /\ leases \in [Pools -> SUBSET Requests]
    /\ kind \in [Requests -> Kinds \cup {"NONE"}]
    /\ at \in [Requests -> Phases]
    /\ answer \in [Requests -> Answers]
    /\ artifact \in [Requests -> Artifacts \cup {NoArtifact}]
    /\ queued \subseteq Requests
    /\ ahead \subseteq queued \X queued
    /\ fence \in {"OPEN", "PAUSED", "FAILED"}
    /\ canceled \subseteq Requests
    /\ reserved \subseteq Requests
    /\ entry \in [state : {"NONE", "RUNNING", "UNKNOWN", "CANONICAL", "SAFE"},
                  artifact : Artifacts \cup {NoArtifact}]
    /\ registry \in {"OPEN", "FROZEN"}
    /\ frozen \in BOOLEAN
    /\ fault \in Faults \cup {"NONE"}
    /\ event \in Artifacts \cup {NoArtifact}
    /\ committed \subseteq Requests

\* what a request in its phase holds, beside the HTTP lease of an open answer
HeldIn(phase, k) ==
    CASE phase \in {"ABSENT", "OVER"} -> {}
      [] phase = "VALIDATING" -> {ValidationPool(k)} \cup OriginPool(k)
                                 \cup (IF k = "LOGIN" THEN {"scrypt"} ELSE {})
      [] phase = "WORKING" -> IF k \in Writers THEN {"origin"}
                              ELSE IF k = "QUERY" THEN {ValidationPool(k), "queryDb"} ELSE {}
      [] OTHER -> {"origin"}

\* No pool leaks and none is returned early: at every moment a request holds
\* exactly the leases its phase needs, its HTTP lease exactly while its answer
\* is owed, and no pool is over its limit.  The writers left with their origin
\* for good are those in UNKNOWN, ABANDONED, BLOCKED and UNBOUND.
ResourcesFollowPhase ==
    /\ \A r \in Requests :
          HeldBy(r) = HeldIn(at[r], kind[r]) \cup (IF Open(r) THEN {HttpPool(kind[r])} ELSE {})
    /\ \A pool \in Pools : Cardinality(leases[pool]) <= Limit[pool]
    /\ reads = {r \in Requests : at[r] = "WORKING" /\ kind[r] = "QUERY"}
    /\ persistence = {r \in Requests : Alive(r)}
    /\ \A r \in reserved : at[r] \in {"VALIDATING", "READY", "BLOCKED"} \/ registry = "FROZEN"
    /\ \A r \in Requests :
          at[r] \in {"VALIDATING", "READY"} /\ kind[r] = "NORMAL_RECOGNITION" => r \in reserved

\* What a client is told is so, and stays so: an answer that says nothing was
\* done is given to a writer whose transaction never commits, a result or a
\* replay to one whose effect is in the database, whatever the order of the
\* deadline, the drain, the recovery and the registry.
AnswersAreTrue ==
    \A r \in Requests :
        /\ answer[r] = "NO_EFFECT" => r \notin committed
        /\ answer[r] = "RESULT" /\ kind[r] \in Writers => Persisted(r)
        /\ answer[r] = "REPLAY" => event = artifact[r]

\* The operation registry never promises what the database does not hold: a
\* canonical entry is the persisted event, and a safe terminal is never the
\* entry of a committed recognition.
RegistryAgreesWithDatabase ==
    /\ entry.state = "CANONICAL" => event = entry.artifact
    /\ entry.state = "SAFE" =>
          \A r \in committed : kind[r] = "MANAGEMENT"

\* What the handler says, to clients and to later requests, the database holds.
AnswersHoldInTheDatabase == AnswersAreTrue /\ RegistryAgreesWithDatabase

\* A runtime that reported DRAINED is quiet for good: no transaction commits,
\* no write or query begins, and no lease is out, although requests still
\* arrive, validations still end and a paused write was being recovered.
DrainedIsQuiet ==
    [][outcome = "DRAINED" =>
          /\ UNCHANGED <<databaseVars, persistence, reads>>
          /\ outcome' = "DRAINED"]_vars

\* A control command changes the runtime at most once, however often and in
\* whatever order the operator sends it.
AppliedAtMostOnce ==
    \A i, j \in DOMAIN applied : applied[i] = applied[j] => i = j
=============================================================================
