-------------------------- MODULE WriteCoordinator --------------------------
(***************************************************************************)
(* The single-writer FIFO of PassHub together with the two gates it waits  *)
(* on: the read-observation lease of writer-quiescence.ts and the manual   *)
(* hold of runtime-control.ts, wired as g07b-admission-handler.ts does.    *)
(*                                                                         *)
(* The process is one JavaScript thread.  An action is one synchronous     *)
(* segment: the code between two awaits, microtasks or callbacks.  `drain' *)
(* is the program counter of the only asynchronous loop.                   *)
(*                                                                         *)
(* Bounds: Ops is the set of writes that ever arrive; each hook in         *)
(* FailingHooks throws at most once; the operator holds at most MaxHolds   *)
(* times.                                                                  *)
(***************************************************************************)
EXTENDS Naturals, Sequences, SequencesExt

CONSTANTS
    Ops,            \* write operations, one per registerProvisional call
    NoOp,           \* `current === null'
    FailingHooks,   \* the callbacks that may throw in this instance
    MaxHolds        \* bound on manual HOLD commands

Hooks == {"registered", "queued", "started", "startGate", "settled", "cleanup"}

ASSUME NoOpAssumption == NoOp \notin Ops
ASSUME HooksAssumption == FailingHooks \subseteq Hooks
ASSUME HoldsAssumption == MaxHolds \in Nat

VARIABLES
    queue,           \* FIFO of operations that have not started
    op,              \* [Ops -> Operation], the mutable fields of an operation
    current,         \* the operation that owns the write right
    nextSequence,
    drain,           \* where the drain loop is suspended
    drainScheduled,  \* a drain microtask is pending
    deferredByGate,
    blocked,
    writer,          \* writer-quiescence: lifecycle state of each receipt
    readLease,       \* writer-quiescence: a read observation is open
    manualHold,      \* runtime-control: manualControlId # null
    holds,           \* number of HOLD commands so far
    wakePending,     \* RELEASE's wake sits in the microtask queue
    maintenance,     \* NONE, then SETTLING within DRAIN's segment, then HELD
    thrown           \* the hooks that have thrown

coordinatorVars == <<queue, op, current, nextSequence>>
drainVars == <<drain, drainScheduled, deferredByGate, blocked>>
gateVars == <<readLease, manualHold, holds, wakePending, maintenance>>
vars == <<coordinatorVars, drainVars, gateVars, writer, thrown>>

Candidates == {"PRESTART_REJECTED", "BUSINESS_RESULT_PERSISTED",
               "KNOWN_NO_EFFECT", "UNKNOWN_EFFECT"}

\* `settled' abstracts settlementCount and invalidSettlement: no settlement
\* call yet, exactly one legal one, or anything else.
Operation ==
    [validation : {"ABSENT", "WAITING_VALIDATION", "READY", "REJECTED"},
     decided    : BOOLEAN,
     canceled   : BOOLEAN,
     active     : BOOLEAN,
     finalized  : BOOLEAN,
     settled    : {"NONE", "ONE", "INVALID"},
     candidate  : Candidates \cup {"NULL"},
     phase      : {"NONE", "REQUESTED", "PAUSED", "TERMINAL"},
     adopted    : BOOLEAN,
     outcome    : {"PENDING", "RESOLVED", "REJECTED"},
     sequence   : Nat]

WriterStates ==
    {"NONE", "PROVISIONAL", "QUEUED", "RUNNING", "BLOCKED", "UNKNOWN"}

Absent ==
    [validation |-> "ABSENT", decided |-> FALSE, canceled |-> FALSE,
     active |-> FALSE, finalized |-> FALSE, settled |-> "NONE",
     candidate |-> "NULL", phase |-> "NONE", adopted |-> FALSE,
     outcome |-> "PENDING", sequence |-> 0]

Init ==
    /\ queue = << >>
    /\ op = [o \in Ops |-> Absent]
    /\ current = NoOp
    /\ nextSequence = 0
    /\ drain = "IDLE"
    /\ drainScheduled = FALSE
    /\ deferredByGate = FALSE
    /\ blocked = FALSE
    /\ writer = [o \in Ops |-> "NONE"]
    /\ readLease = FALSE
    /\ manualHold = FALSE
    /\ holds = 0
    /\ wakePending = FALSE
    /\ maintenance = "NONE"
    /\ thrown = {}

-----------------------------------------------------------------------------
(* Helpers *)

\* drain() holds `running' from its first statement to its finally block
Running == drain # "IDLE"

\* startGate: no read observation is open and the operator does not hold
CanStartWriter == ~readLease /\ ~manualHold

\* the thread is not inside DRAIN's synchronous settlement loop
Yielded == maintenance # "SETTLING"

\* the injected failure of one hook
Throws(hook) ==
    /\ hook \in FailingHooks \ thrown
    /\ thrown' = thrown \cup {hook}

\* assertCurrent
IsCurrent(o) == Yielded /\ current = o /\ op[o].active /\ ~op[o].finalized

\* scheduleDrain, given the values of running, blocked and deferredByGate it
\* reads
ScheduleDrain(isRunning, isBlocked, isDeferred) ==
    drainScheduled' = (drainScheduled \/ ~(isRunning \/ isBlocked \/ isDeferred))

\* The terminal assignments of finalize, finalizeUnknown, failClosed,
\* finalizeMaintenanceKnownNoEffect and finalizeRecoveredBusinessResult.
Terminate(r, outcome) ==
    [r EXCEPT !.finalized = TRUE, !.active = FALSE, !.phase = "TERMINAL",
              !.outcome = outcome]

\* rejectQueued on one operation
Reject(r) == [r EXCEPT !.finalized = TRUE, !.active = FALSE, !.outcome = "REJECTED"]

Queued(o) == o \in ToSet(queue)

\* Mutant of FailClosed: the coordinator blocks but leaves its queue in place.
FailClosedQueueKept(o, r, mark) ==
    /\ blocked' = TRUE
    /\ queue' = queue
    /\ op' = [op EXCEPT ![o] = IF r.finalized THEN r ELSE Terminate(r, "REJECTED")]
    /\ current' = IF current = o /\ ~r.finalized THEN NoOp ELSE current
    /\ writer' = [writer EXCEPT ![o] = IF r.finalized THEN @ ELSE mark]

\* Everything that ends with the coordinator blocked: failClosed, a settled
\* hook that throws (mark = BLOCKED), and finalizeUnknown (mark = UNKNOWN).
\* o, whose fields are r by then, is rejected unless it is final already; the
\* queue is rejected and reported BLOCKED; `blocked' is set.
FailClosed(o, r, mark) ==
    /\ blocked' = TRUE
    /\ queue' = << >>
    /\ op' = [x \in Ops |->
                IF x = o THEN IF r.finalized THEN r ELSE Terminate(r, "REJECTED")
                ELSE IF Queued(x) /\ ~op[x].finalized THEN Reject(op[x]) ELSE op[x]]
    /\ current' = IF current = o /\ ~r.finalized THEN NoOp ELSE current
    /\ writer' = [x \in Ops |->
                IF x = o THEN IF r.finalized THEN writer[x] ELSE mark
                ELSE IF Queued(x) /\ ~op[x].finalized THEN "BLOCKED" ELSE writer[x]]

OutcomeOf(candidate) ==
    IF candidate = "BUSINESS_RESULT_PERSISTED" THEN "RESOLVED" ELSE "REJECTED"

-----------------------------------------------------------------------------
(* Ingress: provisional registration and the decision on its validation *)

Arrives(o) ==
    /\ op[o].validation = "ABSENT"
    /\ ~blocked
    /\ maintenance = "NONE"

\* registerProvisional
Register(o) ==
    /\ Arrives(o)
    /\ queue' = Append(queue, o)
    /\ op' = [op EXCEPT ![o] = [@ EXCEPT !.validation = "WAITING_VALIDATION",
                                         !.sequence = nextSequence]]
    /\ writer' = [writer EXCEPT ![o] = "PROVISIONAL"]
    /\ nextSequence' = nextSequence + 1
    /\ ScheduleDrain(Running, blocked, deferredByGate)
    /\ UNCHANGED <<current, drain, deferredByGate, blocked, gateVars, thrown>>

\* registerProvisional when the registered hook throws: the caller gets no
\* handle, so nothing is left to decide
RegisterFails(o) ==
    /\ Arrives(o)
    /\ Throws("registered")
    /\ FailClosed(o, [op[o] EXCEPT !.validation = "WAITING_VALIDATION",
                                   !.decided = TRUE,
                                   !.sequence = nextSequence], "BLOCKED")
    /\ UNCHANGED <<nextSequence, drain, drainScheduled, deferredByGate, gateVars>>

\* the provisional handle has made none of its one-shot decisions
Undecided(o) ==
    Yielded /\ op[o].validation = "WAITING_VALIDATION" /\ ~op[o].decided

Activated(o) == [op[o] EXCEPT !.decided = TRUE, !.validation = "READY"]
Declined(o) == [op[o] EXCEPT !.decided = TRUE, !.validation = "REJECTED"]

\* activate, reached when no maintenance cancellation is pending
Activate(o) ==
    /\ Undecided(o) /\ ~op[o].canceled
    /\ writer[o] = "PROVISIONAL"
    /\ op' = [op EXCEPT ![o] = Activated(o)]
    /\ writer' = [writer EXCEPT ![o] = "QUEUED"]
    /\ ScheduleDrain(Running, blocked, deferredByGate)
    /\ UNCHANGED <<queue, current, nextSequence, drain, deferredByGate, blocked,
                   gateVars, thrown>>

\* activate when the queued hook throws: an injected failure, or a receipt
\* that an earlier fail-closed has already marked BLOCKED
ActivateFails(o) ==
    /\ Undecided(o) /\ ~op[o].canceled
    /\ \/ writer[o] # "PROVISIONAL" /\ UNCHANGED thrown
       \/ Throws("queued")
    /\ FailClosed(o, Activated(o), "BLOCKED")
    /\ UNCHANGED <<nextSequence, drain, drainScheduled, deferredByGate, gateVars>>

\* the conditional scheduleDrain after an operation left the queue
RescheduleForHead(rest) ==
    IF rest # << >> /\ op[Head(rest)].validation = "READY"
    THEN ScheduleDrain(Running, blocked, deferredByGate)
    ELSE UNCHANGED drainScheduled

\* Mutant of LeaveQueue: the receipt is not deleted.
LeaveQueueReceiptKept(i, r) ==
    /\ queue' = RemoveAt(queue, i)
    /\ op' = [op EXCEPT ![queue[i]] = Terminate(r, "REJECTED")]
    /\ UNCHANGED writer

\* the operation leaves the queue and the settled hook deletes its receipt
LeaveQueue(i, r) ==
    /\ queue' = RemoveAt(queue, i)
    /\ op' = [op EXCEPT ![queue[i]] = Terminate(r, "REJECTED")]
    /\ writer' = [writer EXCEPT ![queue[i]] = "NONE"]

\* rejectBeforeStart
RejectBeforeStart(o) ==
    /\ Undecided(o)
    /\ \E i \in DOMAIN queue :
          /\ queue[i] = o
          /\ LeaveQueue(i, Declined(o))
          /\ RescheduleForHead(RemoveAt(queue, i))
    /\ UNCHANGED <<current, nextSequence, drain, deferredByGate, blocked,
                   gateVars, thrown>>

\* rejectBeforeStart when the settled hook throws (finalize, notifyLifecycle)
RejectBeforeStartFails(o) ==
    /\ Undecided(o)
    /\ Queued(o)
    /\ Throws("settled")
    /\ FailClosed(o, Declined(o), "BLOCKED")
    /\ UNCHANGED <<nextSequence, drain, drainScheduled, deferredByGate, gateVars>>

\* rejectBeforeStart after a fail-closed emptied the queue: the call throws,
\* its handle is spent
RejectTooLate(o) ==
    /\ Undecided(o)
    /\ ~Queued(o)
    /\ op' = [op EXCEPT ![o] = Declined(o)]
    /\ UNCHANGED <<queue, current, nextSequence, drainVars, gateVars, writer, thrown>>

-----------------------------------------------------------------------------
(* The drain loop.  A segment begins in the scheduled microtask or where   *)
(* the loop resumes after `await runOperation', and ends at the next await *)
(* or in the finally block.                                                *)

Turn == Yielded /\ (drainScheduled \/ drain = "LOOP")

HeadReady == queue # << >> /\ op[Head(queue)].validation = "READY"

\* the segment ends in the finally block with nothing to start
DrainStops ==
    /\ Turn
    /\ blocked \/ ~HeadReady
    /\ drain' = "IDLE"
    /\ drainScheduled' = FALSE
    /\ UNCHANGED <<coordinatorVars, deferredByGate, blocked, gateVars, writer, thrown>>

\* startGate returned false
DrainDefers ==
    /\ Turn /\ ~blocked /\ HeadReady
    /\ ~CanStartWriter
    /\ deferredByGate' = TRUE
    /\ drain' = "IDLE"
    /\ drainScheduled' = FALSE
    /\ UNCHANGED <<coordinatorVars, blocked, gateVars, writer, thrown>>

\* startGate threw
DrainGateFails ==
    /\ Turn /\ ~blocked /\ HeadReady
    /\ Throws("startGate")
    /\ FailClosed(Head(queue), op[Head(queue)], "BLOCKED")
    /\ drain' = "IDLE"
    /\ drainScheduled' = FALSE
    /\ UNCHANGED <<nextSequence, deferredByGate, gateVars>>

\* Mutant of Start: the first validated operation overtakes a head that is
\* still being validated.
StartFirstReady(o) ==
    /\ Turn /\ ~blocked
    /\ CanStartWriter
    /\ \E i \in DOMAIN queue :
          /\ queue[i] = o /\ op[o].validation = "READY"
          /\ queue' = RemoveAt(queue, i)
    /\ current' = o
    /\ op' = [op EXCEPT ![o] = [@ EXCEPT !.active = TRUE]]
    /\ writer' = [writer EXCEPT ![o] = "RUNNING"]
    /\ drain' = "EXECUTING"
    /\ drainScheduled' = FALSE
    /\ UNCHANGED <<nextSequence, deferredByGate, blocked, gateVars, thrown>>

\* queue.shift() and runOperation up to its await of the executor
Start(o) ==
    /\ Turn /\ ~blocked /\ HeadReady
    /\ CanStartWriter
    /\ o = Head(queue)
    /\ queue' = Tail(queue)
    /\ current' = o
    /\ op' = [op EXCEPT ![o] = [@ EXCEPT !.active = TRUE]]
    /\ writer' = [writer EXCEPT ![o] = "RUNNING"]
    /\ drain' = "EXECUTING"
    /\ drainScheduled' = FALSE
    /\ UNCHANGED <<nextSequence, deferredByGate, blocked, gateVars, thrown>>

\* the started hook threw: runOperation fails closed and the loop resumes
StartFails(o) ==
    /\ Turn /\ ~blocked /\ HeadReady
    /\ CanStartWriter
    /\ o = Head(queue)
    /\ Throws("started")
    /\ FailClosed(o, op[o], "BLOCKED")
    /\ drain' = "LOOP"
    /\ drainScheduled' = FALSE
    /\ UNCHANGED <<nextSequence, deferredByGate, gateVars>>

-----------------------------------------------------------------------------
(* The executor of the current operation and its settlement capability *)

\* the first candidate is kept, any further or illegal call spoils the settlement
Recorded(o, candidate, legal) ==
    [op[o] EXCEPT
        !.settled = IF op[o].settled = "NONE" /\ legal THEN "ONE" ELSE "INVALID",
        !.candidate = IF op[o].candidate = "NULL" THEN candidate ELSE op[o].candidate]

\* recordCandidate: a call while the operation is active, also after the
\* executor has returned; `legal' is isLegalCandidate
Settle(o, candidate, legal) ==
    /\ Yielded /\ op[o].active
    /\ op' = [op EXCEPT ![o] = Recorded(o, candidate, legal)]
    /\ UNCHANGED <<queue, current, nextSequence, drainVars, gateVars, writer, thrown>>

\* pausePostCommitUnknown
RequestPause(o) ==
    /\ IsCurrent(o)
    /\ op[o].phase = "NONE" /\ op[o].settled = "NONE"
    /\ op' = [op EXCEPT ![o] = [@ EXCEPT !.settled = "ONE",
                                         !.candidate = "UNKNOWN_EFFECT",
                                         !.phase = "REQUESTED"]]
    /\ UNCHANGED <<queue, current, nextSequence, drainVars, gateVars, writer, thrown>>

\* the executor's promise fulfils or rejects
ExecutorEnds ==
    /\ Yielded /\ drain = "EXECUTING"
    /\ drain' \in {"RETURNED", "THREW"}
    /\ UNCHANGED <<coordinatorVars, drainScheduled, deferredByGate, blocked,
                   gateVars, writer, thrown>>

\* runOperation resumes after its await
Resumes(o) == Yielded /\ current = o /\ drain \in {"RETURNED", "THREW"}

\* Mutant of SettledOnce: a second or illegal settlement call is not noticed.
SettledAtAll(o) == drain = "RETURNED" /\ op[o].settled # "NONE"

\* the executor returned and left one legal settlement
SettledOnce(o) == drain = "RETURNED" /\ op[o].settled = "ONE"

\* Mutant of PauseUnknown: the pause does not put the fence down.
PauseUnknownUnfenced(o) ==
    /\ Resumes(o)
    /\ SettledOnce(o) /\ op[o].phase = "REQUESTED"
    /\ op' = [op EXCEPT ![o] = [@ EXCEPT !.phase = "PAUSED"]]
    /\ drain' = "LOOP"
    /\ UNCHANGED <<queue, current, nextSequence, drainScheduled, deferredByGate,
                   blocked, gateVars, writer, thrown>>

\* the operation keeps the write right, the fence goes down
PauseUnknown(o) ==
    /\ Resumes(o)
    /\ SettledOnce(o) /\ op[o].phase = "REQUESTED"
    /\ op' = [op EXCEPT ![o] = [@ EXCEPT !.phase = "PAUSED"]]
    /\ blocked' = TRUE
    /\ drain' = "LOOP"
    /\ UNCHANGED <<queue, current, nextSequence, drainScheduled, deferredByGate,
                   gateVars, writer, thrown>>

\* finalize of a known disposition
FinishKnown(o) ==
    /\ Resumes(o)
    /\ SettledOnce(o) /\ op[o].candidate # "UNKNOWN_EFFECT"
    /\ op' = [op EXCEPT ![o] = Terminate(@, OutcomeOf(op[o].candidate))]
    /\ current' = NoOp
    /\ writer' = [writer EXCEPT ![o] = "NONE"]
    /\ drain' = "LOOP"
    /\ UNCHANGED <<queue, nextSequence, drainScheduled, deferredByGate, blocked,
                   gateVars, thrown>>

\* finalize of a known disposition when the settled hook throws
FinishKnownFails(o) ==
    /\ Resumes(o)
    /\ SettledOnce(o) /\ op[o].candidate # "UNKNOWN_EFFECT"
    /\ Throws("settled")
    /\ FailClosed(o, op[o], "BLOCKED")
    /\ drain' = "LOOP"
    /\ UNCHANGED <<nextSequence, drainScheduled, deferredByGate, gateVars>>

\* finalizeUnknown.  When the settled hook throws on an unknown effect, its
\* receipt is marked BLOCKED in place of UNKNOWN.
FinalizeUnknown(o) ==
    \/ FailClosed(o, op[o], "UNKNOWN") /\ UNCHANGED thrown
    \/ FailClosed(o, op[o], "BLOCKED") /\ Throws("settled")

\* runOperation ends unknown: the executor threw, or did not settle exactly
\* once, or settled UNKNOWN_EFFECT without a pause
FinishUnknown(o) ==
    /\ Resumes(o)
    /\ \/ ~SettledOnce(o)
       \/ op[o].candidate = "UNKNOWN_EFFECT" /\ op[o].phase # "REQUESTED"
    /\ FinalizeUnknown(o)
    /\ drain' = "LOOP"
    /\ UNCHANGED <<nextSequence, drainScheduled, deferredByGate, gateVars>>

-----------------------------------------------------------------------------
(* Recovery of a paused operation *)

\* owner.adopt(lease)
Adopt(o) ==
    /\ IsCurrent(o)
    /\ op[o].phase \in {"REQUESTED", "PAUSED"} /\ ~op[o].adopted
    /\ op' = [op EXCEPT ![o] = [@ EXCEPT !.adopted = TRUE]]
    /\ UNCHANGED <<queue, current, nextSequence, drainVars, gateVars, writer, thrown>>

Recoverable(o) == IsCurrent(o) /\ op[o].phase = "PAUSED" /\ op[o].adopted

\* handle.businessResultPersisted: publish, lift the fence, resume the FIFO
RecoverPersisted(o) ==
    /\ Recoverable(o)
    /\ op' = [op EXCEPT ![o] = Terminate(@, "RESOLVED")]
    /\ current' = NoOp
    /\ writer' = [writer EXCEPT ![o] = "NONE"]
    /\ blocked' = FALSE
    /\ ScheduleDrain(Running, FALSE, deferredByGate)
    /\ UNCHANGED <<queue, nextSequence, drain, deferredByGate, gateVars, thrown>>

\* handle.businessResultPersisted when the settled hook throws
RecoverPersistedFails(o) ==
    /\ Recoverable(o)
    /\ Throws("settled")
    /\ FailClosed(o, op[o], "BLOCKED")
    /\ UNCHANGED <<nextSequence, drain, drainScheduled, deferredByGate, gateVars>>

\* handle.failClosed
RecoverFailClosed(o) ==
    /\ Recoverable(o)
    /\ FinalizeUnknown(o)
    /\ UNCHANGED <<nextSequence, drain, drainScheduled, deferredByGate, gateVars>>

-----------------------------------------------------------------------------
(* The gates: read observation, manual hold, maintenance *)

\* Mutant of Wake: the drain is not scheduled.
WakeUnscheduled == deferredByGate' = FALSE /\ UNCHANGED drainScheduled

\* bundle.wake
Wake == deferredByGate' = FALSE /\ ScheduleDrain(Running, blocked, FALSE)

\* acquireReadObservationLease
AcquireReadLease ==
    /\ Yielded /\ ~readLease
    /\ \A o \in Ops : writer[o] = "NONE"
    /\ readLease' = TRUE
    /\ UNCHANGED <<coordinatorVars, drainVars, manualHold, holds, wakePending,
                   maintenance, writer, thrown>>

\* lease.release
ReleaseReadLease ==
    /\ Yielded /\ readLease
    /\ readLease' = FALSE
    /\ Wake
    /\ UNCHANGED <<coordinatorVars, drain, blocked, manualHold, holds, wakePending,
                   maintenance, writer, thrown>>

\* runtime-control hold
Hold ==
    /\ Yielded /\ ~manualHold /\ holds < MaxHolds
    /\ manualHold' = TRUE
    /\ holds' = holds + 1
    /\ UNCHANGED <<coordinatorVars, drainVars, readLease, wakePending, maintenance,
                   writer, thrown>>

\* runtime-control release: the wake is handed to a later microtask
Release ==
    /\ Yielded /\ manualHold
    /\ manualHold' = FALSE
    /\ wakePending' = TRUE
    /\ UNCHANGED <<coordinatorVars, drainVars, readLease, holds, maintenance,
                   writer, thrown>>

DeliverWake ==
    /\ Yielded /\ wakePending
    /\ wakePending' = FALSE
    /\ Wake
    /\ UNCHANGED <<coordinatorVars, drain, blocked, readLease, manualHold, holds,
                   maintenance, writer, thrown>>

\* runtime-control drain: new writers are vetoed from here on and the
\* validations in flight are marked; the settlement loop follows in the same
\* synchronous segment
StartMaintenance ==
    /\ maintenance = "NONE"
    /\ maintenance' = "SETTLING"
    /\ op' = [o \in Ops |->
                IF Queued(o) /\ op[o].validation = "WAITING_VALIDATION"
                THEN [op[o] EXCEPT !.canceled = TRUE] ELSE op[o]]
    /\ UNCHANGED <<queue, current, nextSequence, drainVars, readLease, manualHold,
                   holds, wakePending, writer, thrown>>

\* the next READY entry of settleReadyKnownNoEffect's snapshot
FirstReady(i) ==
    /\ op[queue[i]].validation = "READY"
    /\ \A j \in 1..(i - 1) : op[queue[j]].validation # "READY"

\* one iteration of settleReadyKnownNoEffect
SettleReady ==
    /\ maintenance = "SETTLING"
    /\ \E i \in DOMAIN queue : FirstReady(i) /\ LeaveQueue(i, op[queue[i]])
    /\ UNCHANGED <<current, nextSequence, drainVars, gateVars, thrown>>

\* the reservation cleanup throws: the entry stays queued, the drain command
\* ends INTERNAL_UNAVAILABLE
SettleReadyCleanupFails ==
    /\ maintenance = "SETTLING"
    /\ \E i \in DOMAIN queue : FirstReady(i)
    /\ Throws("cleanup")
    /\ maintenance' = "HELD"
    /\ UNCHANGED <<coordinatorVars, drainVars, readLease, manualHold, holds,
                   wakePending, writer>>

\* finalizeMaintenanceKnownNoEffect when the settled hook throws: only this
\* operation is rejected, the coordinator is not blocked
LeaveQueueUnpublished(i, r) ==
    /\ Throws("settled")
    /\ queue' = RemoveAt(queue, i)
    /\ op' = [op EXCEPT ![queue[i]] = Terminate(r, "REJECTED")]
    /\ writer' = [writer EXCEPT ![queue[i]] = "BLOCKED"]

SettleReadyHookFails ==
    /\ maintenance = "SETTLING"
    /\ \E i \in DOMAIN queue : FirstReady(i) /\ LeaveQueueUnpublished(i, op[queue[i]])
    /\ maintenance' = "HELD"
    /\ UNCHANGED <<current, nextSequence, drainVars, readLease, manualHold, holds,
                   wakePending>>

SettleReadyDone ==
    /\ maintenance = "SETTLING"
    /\ \A o \in ToSet(queue) : op[o].validation # "READY"
    /\ maintenance' = "HELD"
    /\ UNCHANGED <<coordinatorVars, drainVars, readLease, manualHold, holds,
                   wakePending, writer, thrown>>

\* consumeMaintenanceValidationCancellation, then settleMaintenanceKnownNoEffect
Canceled(o) == [op[o] EXCEPT !.canceled = FALSE, !.decided = TRUE]

SettleCanceled(o) ==
    /\ Undecided(o) /\ op[o].canceled
    /\ \E i \in DOMAIN queue :
          /\ queue[i] = o
          /\ LeaveQueue(i, Canceled(o))
          /\ RescheduleForHead(RemoveAt(queue, i))
    /\ UNCHANGED <<current, nextSequence, drain, deferredByGate, blocked,
                   gateVars, thrown>>

\* the settled hook throws: settleMaintenanceKnownNoEffect rethrows before it
\* reaches its scheduleDrain
SettleCanceledHookFails(o) ==
    /\ Undecided(o) /\ op[o].canceled
    /\ \E i \in DOMAIN queue :
          queue[i] = o /\ LeaveQueueUnpublished(i, Canceled(o))
    /\ UNCHANGED <<current, nextSequence, drainVars, gateVars>>

\* the reservation cleanup throws: the handler falls back to rejectBeforeStart
SettleCanceledCleanupFails(o) ==
    /\ Undecided(o) /\ op[o].canceled
    /\ Throws("cleanup")
    /\ \E i \in DOMAIN queue :
          /\ queue[i] = o
          /\ LeaveQueue(i, [Declined(o) EXCEPT !.canceled = FALSE])
          /\ RescheduleForHead(RemoveAt(queue, i))
    /\ UNCHANGED <<current, nextSequence, drain, deferredByGate, blocked, gateVars>>

\* a fail-closed emptied the queue first: settleMaintenanceKnownNoEffect throws
SettleCanceledTooLate(o) ==
    /\ Undecided(o) /\ op[o].canceled
    /\ ~Queued(o)
    /\ op' = [op EXCEPT ![o] = Canceled(o)]
    /\ UNCHANGED <<queue, current, nextSequence, drainVars, gateVars, writer, thrown>>

-----------------------------------------------------------------------------
(* The next-state relation *)

\* the validation of o ends: activated, rejected or canceled by maintenance
Decide(o) ==
    \/ Activate(o) \/ ActivateFails(o)
    \/ RejectBeforeStart(o) \/ RejectBeforeStartFails(o) \/ RejectTooLate(o)
    \/ SettleCanceled(o) \/ SettleCanceledHookFails(o)
    \/ SettleCanceledCleanupFails(o) \/ SettleCanceledTooLate(o)

DrainSegment ==
    \/ DrainStops \/ DrainDefers \/ DrainGateFails
    \/ \E o \in Ops : Start(o) \/ StartFails(o)

ResumeRunOperation ==
    \E o \in Ops :
        PauseUnknown(o) \/ FinishKnown(o) \/ FinishKnownFails(o) \/ FinishUnknown(o)

ExecutorCalls(o) ==
    \/ \E candidate \in Candidates, legal \in BOOLEAN : Settle(o, candidate, legal)
    \/ RequestPause(o)

Recover(o) ==
    \/ Adopt(o)
    \/ RecoverPersisted(o) \/ RecoverPersistedFails(o) \/ RecoverFailClosed(o)

Gates ==
    \/ AcquireReadLease \/ ReleaseReadLease
    \/ Hold \/ Release \/ DeliverWake
    \/ StartMaintenance

\* the rest of DRAIN's synchronous segment: nothing interleaves with it
SettlementLoop ==
    SettleReady \/ SettleReadyCleanupFails \/ SettleReadyHookFails \/ SettleReadyDone

Next ==
    \/ SettlementLoop
    \/ \E o \in Ops : \/ Register(o) \/ RegisterFails(o) \/ Decide(o)
                       \/ ExecutorCalls(o) \/ Recover(o)
    \/ DrainSegment \/ ExecutorEnds \/ ResumeRunOperation
    \/ Gates

Spec == Init /\ [][Next]_vars

\* What the event loop and the callers guarantee: microtasks run, an executor
\* ends (its commands and rounds are bounded by the operation budget), a
\* validation ends, a read observation is released.  Nothing obliges a paused
\* operation to be recovered or the operator to release a hold.
Fairness ==
    /\ WF_vars(DrainSegment)
    /\ WF_vars(ExecutorEnds)
    /\ WF_vars(ResumeRunOperation)
    /\ WF_vars(DeliverWake)
    /\ WF_vars(ReleaseReadLease)
    /\ WF_vars(SettlementLoop)
    /\ \A o \in Ops : WF_vars(Decide(o))

FairSpec == Spec /\ Fairness

-----------------------------------------------------------------------------
(* Properties *)

Registered(o) == op[o].validation # "ABSENT"

\* Every variable stays in its domain.
TypeOK ==
    /\ queue \in Seq(Ops)
    /\ op \in [Ops -> Operation]
    /\ current \in Ops \cup {NoOp}
    /\ nextSequence \in Nat
    /\ drain \in {"IDLE", "EXECUTING", "RETURNED", "THREW", "LOOP"}
    /\ drainScheduled \in BOOLEAN
    /\ deferredByGate \in BOOLEAN
    /\ blocked \in BOOLEAN
    /\ writer \in [Ops -> WriterStates]
    /\ readLease \in BOOLEAN
    /\ manualHold \in BOOLEAN
    /\ holds \in 0..MaxHolds
    /\ wakePending \in BOOLEAN
    /\ maintenance \in {"NONE", "SETTLING", "HELD"}
    /\ thrown \subseteq FailingHooks

\* The write right has one holder.  An operation is active exactly while it is
\* `current', an executing drain loop works for it, and once the loop has let
\* go of it (a post-commit unknown pause) the coordinator is blocked until the
\* recovery handle decides: no second writer can slip past a paused one.
OneWriter ==
    /\ \A o \in Ops : op[o].active <=> current = o
    /\ drain \in {"EXECUTING", "RETURNED", "THREW"} => current # NoOp
    /\ current # NoOp /\ drain \in {"IDLE", "LOOP"} =>
          op[current].phase = "PAUSED" /\ blocked

\* A read observation and a running writer exclude each other, although the
\* gate is read before the start and the lease may be asked for at any time.
ReadersExcludeWriters ==
    readLease => current = NoOp /\ \A o \in Ops : writer[o] # "RUNNING"

\* The two together: any number of readers of one observation, or one writer.
WriteRightIsExclusive == OneWriter /\ ReadersExcludeWriters

\* writer-quiescence (STATUS counters and the read gate) mirrors the
\* coordinator: each queued operation is PROVISIONAL or QUEUED according to its
\* validation, the active one is RUNNING, and nothing that left the coordinator
\* is still counted as pending or running.
QuiescenceMirrorsCoordinator ==
    \A o \in Ops :
        /\ writer[o] = "PROVISIONAL" <=>
              Queued(o) /\ op[o].validation = "WAITING_VALIDATION"
        /\ writer[o] = "QUEUED" <=> Queued(o) /\ op[o].validation = "READY"
        /\ writer[o] = "RUNNING" <=> op[o].active

\* After an unknown effect nothing writes again: the coordinator is blocked,
\* no operation is current and nothing is queued, even though recovery can
\* lift a fence.
UnknownEffectIsFinal ==
    (\E o \in Ops : writer[o] = "UNKNOWN") =>
        blocked /\ current = NoOp /\ queue = << >>

\* The caller's promise and the coordinator agree: pending exactly until the
\* operation is final, and resolved only for an operation whose single legal
\* settlement, or whose recovery, said that the business result persisted.
ResolvedMeansPersisted ==
    \A o \in Ops :
        /\ op[o].finalized <=> op[o].outcome # "PENDING"
        /\ op[o].outcome = "RESOLVED" =>
              /\ writer[o] = "NONE"
              /\ \/ op[o].adopted
                 \/ op[o].settled = "ONE" /\ op[o].candidate = "BUSINESS_RESULT_PERSISTED"

\* The FIFO loses nobody and keeps arrival order: the operations that were
\* registered and are not final are those in the queue and the current one, and
\* the queue is sorted by sequence.
FifoIntegrity ==
    /\ \A o \in Ops : Queued(o) \/ current = o <=> Registered(o) /\ ~op[o].finalized
    /\ \A i, j \in DOMAIN queue : i < j => op[queue[i]].sequence < op[queue[j]].sequence

\* First come, first served: an operation starts only when every operation
\* registered before it is final.
StartsInOrder ==
    [][\A o, p \in Ops :
        ~op[o].active /\ op'[o].active /\ Registered(p) /\ ~op[p].finalized /\ p # o
            => op[o].sequence < op[p].sequence]_vars

\* A caller hears once: no settled promise changes, no final operation becomes
\* active again.
SettledForGood ==
    [][\A o \in Ops : op[o].finalized =>
        /\ op'[o].finalized /\ ~op'[o].active
        /\ op'[o].outcome = op[o].outcome]_vars

\* Every registered write is answered, unless the operator holds for ever or a
\* post-commit unknown stays paused for ever: a write deferred by a hold, a read
\* observation or a pause that ends is taken up again.
EveryWriteSettles ==
    \A o \in Ops :
        Registered(o) ~> \/ op[o].outcome # "PENDING"
                         \/ []manualHold
                         \/ \E p \in Ops : [](op[p].phase = "PAUSED")

\* What g09a-writer-quiescence.test.ts says of a throwing registered, queued or
\* started hook and of a throwing start gate: it blocks the coordinator
\* permanently.
HookFailureBlocksPermanently ==
    thrown \cap {"registered", "queued", "started", "startGate"} # {} => blocked
=============================================================================
