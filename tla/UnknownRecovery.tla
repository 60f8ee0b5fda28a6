--------------------------- MODULE UnknownRecovery ---------------------------
(***************************************************************************)
(* One write whose initial commit may end with its result unknown, and its *)
(* recovery: the Mongo adapter hands the open session over, the bridge     *)
(* pauses the write and queues a ticket, the scheduler claims the ticket   *)
(* and resends the commit or reads the canonical result, in turn, until    *)
(* the result is confirmed or the budget is spent.                         *)
(*                                                                         *)
(* The budget is the BudgetLedger itself: a step that calls the ledger     *)
(* conjoins the ledger's action.  `microtasks' is the FIFO of the event    *)
(* loop; what waits for the driver or a timer runs when it is empty.       *)
(*                                                                         *)
(* The ledger's clock and the timers of the event loop truncate one        *)
(* monotonic clock to milliseconds, from different origins: `half' is half *)
(* a unit of it, and Phase the half unit the timers are ahead by.          *)
(*                                                                         *)
(* Bounds: MaxTime ends the clock, MaxLateness is how late a timer fires.  *)
(***************************************************************************)
EXTENDS Naturals, Sequences

CONSTANTS
    ExecutionMs, MaxRounds, SingleCommandMs, ConfirmationMs, ConfirmationSlots,
    NativeGroupSlots, NativeGroupMs, FirstDelayMs, LaterDelayMs, Evidence, MaxTime,
    Cases,          \* the writes considered: records of a kind and a wiring
    Phase, MaxLateness

VARIABLES
    \* the ledger of the write
    now, frozen, rounds, roundActive, commitAdmitted, lastRoundCommit,
    executionDeadline, executionCommand, confirming, confirmationDeadline,
    confirmationNextAt, confirmationCommand, slots, attempt, confirmed, result,
    authorized, consumed, unknownSeen, cleanupSeen, group, groupCommand, sends,
    \* the write
    write,          \* its kind, and who wakes the scheduler
    stage,          \* how far the adapter's transaction is
    server,         \* what the database made of the commit (external)
    session,        \* the client session
    handoff,        \* HandoffState.status
    matchedEvent,   \* matchedRecognitionEvent # null
    registered,     \* the adapter's transactions still hold the transaction
    phase,          \* the coordinator's recoveryPhase
    settlement,     \* how the coordinator finalized the write
    registry,       \* the registry entry of a recognition
    lease,          \* the issued-persistence lease
    \* its recovery
    ticket, scheduler, driving,
    awaited,        \* what the scheduler's drive awaits
    timer, half, microtasks

Ledger == INSTANCE BudgetLedger

ASSUME LedgerAssumption == Ledger!ConfigAssumption /\ Ledger!GroupAssumption

ASSUME RecoveryAssumption ==
    /\ Cases \subseteq [kind   : {"MANAGEMENT", "RECOGNITION"},
                        wakeup : {"COMPOSITION", "OUTSIDE"}]
    /\ Phase \in {0, 1}
    /\ MaxLateness \in Nat

ledgerVars ==
    <<now, frozen, rounds, roundActive, commitAdmitted, lastRoundCommit,
      executionDeadline, executionCommand, confirming, confirmationDeadline,
      confirmationNextAt, confirmationCommand, slots, attempt, confirmed, result,
      authorized, consumed, unknownSeen, cleanupSeen, group, groupCommand, sends>>
transactionVars == <<stage, server, session, handoff, matchedEvent, registered>>
ownerVars == <<phase, settlement, registry, lease>>
schedulerVars == <<ticket, scheduler, driving, awaited, timer>>
vars == <<ledgerVars, write, transactionVars, ownerVars, schedulerVars, half, microtasks>>

NoTimer == [armed |-> FALSE, due |-> 0]

Init ==
    /\ Ledger!Init
    /\ write \in Cases
    /\ stage = "START"
    /\ server = "OPEN"
    /\ session = "OPEN"
    /\ handoff = "NONE"
    /\ matchedEvent = FALSE
    /\ registered = TRUE
    /\ phase = "NONE"
    /\ settlement = "NONE"
    /\ registry = IF write.kind = "RECOGNITION" THEN "ORIGINAL" ELSE "NONE"
    /\ lease = "NONE"
    /\ ticket = "NONE"
    /\ scheduler = "IDLE"
    /\ driving = FALSE
    /\ awaited = "NONE"
    /\ timer = NoTimer
    /\ half = 0
    /\ microtasks = <<>>

TimerClock == now + (half + Phase) \div 2

\* The event loop takes its next task.
Yielded == microtasks = <<>>

-----------------------------------------------------------------------------
(* The write, up to the answer of its initial commit *)

\* invokeG08WriterWork takes the lease, beginScoped opens a round.
BeginWork ==
    /\ Yielded /\ stage = "START"
    /\ Ledger!BeginRound
    /\ stage' = "WORKING"
    /\ lease' = "ISSUED"
    /\ UNCHANGED <<write, server, session, handoff, matchedEvent, registered, phase,
                   settlement, registry, schedulerVars, half, microtasks>>

SendInitialCommit ==
    /\ Yielded /\ stage = "WORKING"
    /\ Ledger!AdmitExecutionCommand("INITIAL_COMMIT")
    /\ stage' = "COMMITTING"
    /\ server' = "SENT"
    /\ UNCHANGED <<write, session, handoff, matchedEvent, registered, ownerVars,
                   schedulerVars, half, microtasks>>

\* The server acts on a commit it has got, whatever becomes of the answer.
ServerCommits ==
    /\ Yielded /\ server = "SENT"
    /\ server' = "COMMITTED"
    /\ UNCHANGED <<ledgerVars, write, stage, session, handoff, matchedEvent,
                   registered, ownerVars, schedulerVars, half, microtasks>>

ServerAborts ==
    /\ Yielded /\ server = "SENT"
    /\ server' = "ABORTED"
    /\ UNCHANGED <<ledgerVars, write, stage, session, handoff, matchedEvent,
                   registered, ownerVars, schedulerVars, half, microtasks>>

InitialCommitResolves ==
    /\ Yielded /\ stage = "COMMITTING" /\ server = "COMMITTED"
    /\ Ledger!FinishExecutionCommand
    /\ stage' = "RESOLVED"
    /\ UNCHANGED <<write, server, session, handoff, matchedEvent, registered,
                   ownerVars, schedulerVars, half, microtasks>>

InitialCommitRejects ==
    /\ Yielded /\ stage = "COMMITTING"
    /\ Ledger!FinishExecutionCommand
    /\ stage' = "REJECTED"
    /\ UNCHANGED <<write, server, session, handoff, matchedEvent, registered,
                   ownerVars, schedulerVars, half, microtasks>>

\* A known result: the adapter forgets the transaction, then ends the session.
FinishKnownRound ==
    /\ Yielded /\ stage = "RESOLVED"
    /\ Ledger!FinishRound
    /\ stage' = "ENDING"
    /\ registered' = FALSE
    /\ UNCHANGED <<write, server, session, handoff, matchedEvent, ownerVars,
                   schedulerVars, half, microtasks>>

\* The lease is released, the executor settles, the coordinator finalizes.
SessionEnds ==
    /\ Yielded /\ stage = "ENDING"
    /\ stage' = "OVER"
    /\ session' = "ENDED"
    /\ lease' = "RELEASED"
    /\ phase' = "TERMINAL"
    /\ settlement' = "PERSISTED"
    /\ registry' = IF write.kind = "RECOGNITION" THEN "CANONICAL" ELSE registry
    /\ UNCHANGED <<ledgerVars, write, server, handoff, matchedEvent, registered,
                   schedulerVars, half, microtasks>>

\* One catch serves both: a session that cannot be ended after a known commit
\* is handed over as if the commit were unknown.
SessionEndFails ==
    /\ Yielded /\ stage = "ENDING"
    /\ stage' = "UNKNOWN"
    /\ UNCHANGED <<ledgerVars, write, server, session, handoff, matchedEvent,
                   registered, ownerVars, schedulerVars, half, microtasks>>

FinishUnknownRound ==
    /\ Yielded /\ stage = "REJECTED"
    /\ Ledger!FinishRound
    /\ stage' = "UNKNOWN"
    /\ UNCHANGED <<write, server, session, handoff, matchedEvent, registered,
                   ownerVars, schedulerVars, half, microtasks>>

\* handoffG10cPostCommitUnknown: the window opens before the handoff escapes.
HandOff ==
    /\ Yielded /\ stage = "UNKNOWN"
    /\ Ledger!StartConfirmation("UNKNOWN_RESULT")
    /\ stage' = "HANDED_OFF"
    /\ handoff' = "RETAINED"
    /\ UNCHANGED <<write, server, session, matchedEvent, registered, ownerVars,
                   schedulerVars, half, microtasks>>

-----------------------------------------------------------------------------
(* The pause *)

\* What is left of the executor when it has paused the write: a recognition
\* returns through executeRecognition before runOperation is resumed.
Unwinding == IF write.kind = "RECOGNITION" THEN "EXECUTOR" ELSE "RUN_OPERATION"

\* transitionUnknown, then pausePostCommitUnknown: the coordinator grants the
\* pause, the bridge adopts it, takes the handoff and queues the ticket.
Pause ==
    /\ Yielded /\ stage = "HANDED_OFF" /\ handoff = "RETAINED"
    /\ stage' = "OVER"
    /\ phase' = "REQUESTED"
    /\ handoff' = "TAKEN"
    /\ ticket' = "QUEUED"
    /\ registry' = IF write.kind = "RECOGNITION" THEN "UNKNOWN" ELSE registry
    /\ microtasks' = <<"BRIDGE", Unwinding>>
    /\ UNCHANGED <<ledgerVars, write, server, session, matchedEvent, registered,
                   settlement, lease, scheduler, driving, awaited, timer, half>>

\* The microtask of the bridge calls onPausedTicket, which the composition
\* defers once more; elsewhere it is not given.
BridgeNotifies ==
    /\ ~Yielded /\ Head(microtasks) = "BRIDGE"
    /\ microtasks' = IF write.wakeup = "COMPOSITION"
                     THEN Append(Tail(microtasks), "WAKE") ELSE Tail(microtasks)
    /\ UNCHANGED <<ledgerVars, write, transactionVars, ownerVars, schedulerVars,
                   half>>

ExecutorReturns ==
    /\ ~Yielded /\ Head(microtasks) = "EXECUTOR"
    /\ microtasks' = Append(Tail(microtasks), "RUN_OPERATION")
    /\ UNCHANGED <<ledgerVars, write, transactionVars, ownerVars, schedulerVars,
                   half>>

RunOperationPauses ==
    /\ ~Yielded /\ Head(microtasks) = "RUN_OPERATION"
    /\ microtasks' = Tail(microtasks)
    /\ phase' = "PAUSED"
    /\ UNCHANGED <<ledgerVars, write, transactionVars, settlement, registry, lease,
                   schedulerVars, half>>

-----------------------------------------------------------------------------
(* The scheduler *)

\* failClosed: the scheduler stops for good.
Stop ==
    /\ scheduler' = "FAILED_CLOSED"
    /\ driving' = FALSE
    /\ awaited' = "NONE"
    /\ timer' = NoTimer

\* It fails the write closed too, if the terminal it holds lets it: that needs
\* the write to be paused.
GiveUp ==
    /\ Stop
    /\ IF phase = "PAUSED"
       THEN ticket' = "TERMINAL" /\ phase' = "TERMINAL" /\ settlement' = "UNKNOWN_EFFECT"
       ELSE ticket' = "CLAIMED" /\ UNCHANGED <<phase, settlement>>

\* The next command, if the write is paused and the ledger admits it.
Send(kind) ==
    /\ phase = "PAUSED"
    /\ Ledger!NextKind = kind
    /\ Ledger!AdmitNextUnknownConfirmation
    /\ scheduler' = kind
    /\ ticket' = "CLAIMED"
    /\ driving' = TRUE
    /\ awaited' = kind
    /\ timer' = NoTimer
    /\ UNCHANGED <<write, transactionVars, ownerVars, half>>

Refused(kind) ==
    /\ ~(phase = "PAUSED" /\ Ledger!NextKind = kind /\ Ledger!ConfirmationDue)
    /\ GiveUp
    /\ UNCHANGED <<ledgerVars, write, transactionVars, registry, lease, half>>

\* wake, called by the composition's microtask or from outside, at any time
WakeCalled ==
    \/ /\ ~Yielded /\ Head(microtasks) = "WAKE"
       /\ microtasks' = Tail(microtasks)
    \/ /\ Yielded /\ write.wakeup = "OUTSIDE"
       /\ UNCHANGED microtasks

\* a terminal is held from the claim until the recovery ends
Wakeable == scheduler = "IDLE" /\ ~driving /\ ~timer.armed

WakeSends == WakeCalled /\ Wakeable /\ ticket = "QUEUED" /\ Send("ORIGINAL_COMMIT")
WakeRefused == WakeCalled /\ Wakeable /\ ticket = "QUEUED" /\ Refused("ORIGINAL_COMMIT")

TimerFires == Yielded /\ timer.armed /\ TimerClock >= timer.due /\ ~driving

TimerSends == TimerFires /\ Send(scheduler) /\ UNCHANGED microtasks
TimerRefused == TimerFires /\ Refused(scheduler) /\ UNCHANGED microtasks

\* Mutant of Arm: the drive is not over when the timer is armed, and the timer
\* finds it so.
ArmWhileDriving(delay, kind) ==
    /\ timer' = [armed |-> TRUE, due |-> TimerClock + delay]
    /\ scheduler' = kind
    /\ awaited' = "NONE"
    /\ UNCHANGED driving

Arm(delay, kind) ==
    /\ timer' = [armed |-> TRUE, due |-> TimerClock + delay]
    /\ scheduler' = kind
    /\ driving' = FALSE
    /\ awaited' = "NONE"

\* a resend whose transport or command fails: nothing is known
CommitRejected ==
    /\ Yielded /\ awaited = "ORIGINAL_COMMIT"
    /\ Ledger!SettleStillUnknown
    /\ Arm(IF attempt = 0 THEN FirstDelayMs ELSE LaterDelayMs, "CANONICAL_READ")
    /\ UNCHANGED <<write, transactionVars, ownerVars, ticket, half, microtasks>>

\* Mutant of ReadInconclusive: a read that finds nothing ends the session.
ReadInconclusiveEndsSession ==
    /\ Yielded /\ awaited = "CANONICAL_READ"
    /\ Ledger!SettleStillUnknown
    /\ Arm(LaterDelayMs, "ORIGINAL_COMMIT")
    /\ session' = "ENDED"
    /\ UNCHANGED <<write, stage, server, handoff, matchedEvent, registered, ownerVars,
                   ticket, half, microtasks>>

ReadInconclusive ==
    /\ Yielded /\ awaited = "CANONICAL_READ"
    /\ Ledger!SettleStillUnknown
    /\ Arm(LaterDelayMs, "ORIGINAL_COMMIT")
    /\ UNCHANGED <<write, transactionVars, ownerVars, ticket, half, microtasks>>

\* confirmedPersisted up to the await of the cleaner.  A recognition first
\* gives its canonical event to the registry.
Confirm ==
    /\ awaited' = "CLEANUP"
    /\ registry' = IF write.kind = "RECOGNITION" THEN "CANONICAL" ELSE registry
    /\ UNCHANGED <<phase, settlement, lease, ticket, scheduler, driving, timer>>

\* Mutant of CommitResolves: a resend counts as an answer whatever it did.
CommitAnswered ==
    /\ Yielded /\ awaited = "ORIGINAL_COMMIT"
    /\ write.kind = "MANAGEMENT"
    /\ Ledger!SettleConfirmed
    /\ Confirm
    /\ UNCHANGED <<write, transactionVars, half, microtasks>>

CommitResolves ==
    /\ Yielded /\ awaited = "ORIGINAL_COMMIT" /\ server = "COMMITTED"
    /\ write.kind = "MANAGEMENT"
    /\ Ledger!SettleConfirmed
    /\ Confirm
    /\ UNCHANGED <<write, transactionVars, half, microtasks>>

\* For a recognition the confirmed resend is a dead end: no canonical event was
\* read, confirmedPersisted throws, and the scheduler fails closed.
CommitResolvesWithoutEvent ==
    /\ Yielded /\ awaited = "ORIGINAL_COMMIT" /\ server = "COMMITTED"
    /\ write.kind = "RECOGNITION" /\ ~matchedEvent
    /\ Ledger!SettleConfirmed
    /\ GiveUp
    /\ UNCHANGED <<write, transactionVars, registry, lease, half, microtasks>>

ReadMatches ==
    /\ Yielded /\ awaited = "CANONICAL_READ" /\ server = "COMMITTED"
    /\ Ledger!SettleConfirmed
    /\ matchedEvent' = (write.kind = "RECOGNITION")
    /\ Confirm
    /\ UNCHANGED <<write, stage, server, session, handoff, registered, half,
                   microtasks>>

\* The cleaner deletes the handoff whether or not the session could be ended.
CleanupSucceeds ==
    /\ Yielded /\ awaited = "CLEANUP" /\ registered
    /\ registered' = FALSE
    /\ handoff' = "DELETED"
    /\ session' = "ENDED"
    /\ phase' = "TERMINAL"
    /\ settlement' = "PERSISTED"
    /\ lease' = "RELEASED"
    /\ ticket' = "TERMINAL"
    /\ scheduler' = "IDLE"
    /\ driving' = FALSE
    /\ awaited' = "NONE"
    /\ UNCHANGED <<ledgerVars, write, stage, server, matchedEvent, registry, timer,
                   half, microtasks>>

\* The transaction is missing or still active, or its session does not end.
CleanupFails ==
    /\ Yielded /\ awaited = "CLEANUP"
    /\ registered' \in {registered, FALSE}
    /\ handoff' = "DELETED"
    /\ GiveUp
    /\ UNCHANGED <<ledgerVars, write, stage, server, session, matchedEvent, registry,
                   lease, half, microtasks>>

\* The session has ended, but the coordinator's settled hook throws.
PublicationFails ==
    /\ Yielded /\ awaited = "CLEANUP" /\ registered
    /\ registered' = FALSE
    /\ handoff' = "DELETED"
    /\ session' = "ENDED"
    /\ phase' = "TERMINAL"
    /\ settlement' = "HOOK_FAILED"
    /\ ticket' = "TERMINAL"
    /\ Stop
    /\ UNCHANGED <<ledgerVars, write, stage, server, matchedEvent, registry, lease,
                   half, microtasks>>

-----------------------------------------------------------------------------

\* What the adapter and the executor do in the turn of an answer.
InOneTurn == stage \in {"START", "RESOLVED", "ENDING", "REJECTED", "UNKNOWN", "HANDED_OFF"}

\* Time passes between tasks.  The driver honours the timeout of a command,
\* and a timer is late by at most MaxLateness.
Elapse ==
    /\ Yielded /\ ~InOneTurn
    /\ executionCommand.active => now < executionCommand.until
    /\ confirmationCommand.active => now < confirmationCommand.until
    /\ timer.armed => TimerClock < timer.due + MaxLateness
    /\ half' = 1 - half
    /\ IF half = 1 THEN Ledger!Tick ELSE UNCHANGED ledgerVars
    /\ UNCHANGED <<write, transactionVars, ownerVars, schedulerVars, microtasks>>

Work ==
    \/ BeginWork \/ SendInitialCommit \/ InitialCommitResolves \/ InitialCommitRejects
    \/ FinishKnownRound \/ SessionEnds
    \/ SessionEndFails \/ FinishUnknownRound \/ HandOff \/ Pause

Microtask ==
    \/ BridgeNotifies \/ ExecutorReturns \/ RunOperationPauses
    \/ WakeSends \/ WakeRefused

Turn == TimerSends \/ TimerRefused

Answer ==
    \/ CommitRejected \/ CommitResolves \/ CommitResolvesWithoutEvent
    \/ ReadInconclusive \/ ReadMatches
    \/ CleanupSucceeds \/ CleanupFails \/ PublicationFails

Next == Work \/ Microtask \/ Turn \/ Answer \/ ServerCommits \/ ServerAborts \/ Elapse

Spec == Init /\ [][Next]_vars

\* The event loop runs every microtask and every due timer, the driver answers
\* or times out, and time passes.
Fairness ==
    /\ WF_vars(~Yielded /\ Microtask)
    /\ WF_vars(Turn)
    /\ WF_vars(Answer)
    /\ WF_vars(Elapse)

FairSpec == Spec /\ Fairness

-----------------------------------------------------------------------------
(* Properties *)

TypeOK ==
    /\ Ledger!TypeOK
    /\ write \in Cases
    /\ stage \in {"START", "WORKING", "COMMITTING", "RESOLVED", "ENDING", "REJECTED",
                 "UNKNOWN", "HANDED_OFF", "OVER"}
    /\ server \in {"OPEN", "SENT", "COMMITTED", "ABORTED"}
    /\ session \in {"OPEN", "ENDED"}
    /\ handoff \in {"NONE", "RETAINED", "TAKEN", "DELETED"}
    /\ matchedEvent \in BOOLEAN /\ registered \in BOOLEAN
    /\ phase \in {"NONE", "REQUESTED", "PAUSED", "TERMINAL"}
    /\ settlement \in {"NONE", "PERSISTED", "UNKNOWN_EFFECT", "HOOK_FAILED"}
    /\ registry \in IF write.kind = "RECOGNITION"
                   THEN {"ORIGINAL", "UNKNOWN", "CANONICAL"} ELSE {"NONE"}
    /\ lease \in {"NONE", "ISSUED", "RELEASED"}
    /\ ticket \in {"NONE", "QUEUED", "CLAIMED", "TERMINAL"}
    /\ scheduler \in {"IDLE", "ORIGINAL_COMMIT", "CANONICAL_READ", "FAILED_CLOSED"}
    /\ driving \in BOOLEAN
    /\ awaited \in {"NONE", "ORIGINAL_COMMIT", "CANONICAL_READ", "CLEANUP"}
    /\ timer \in [armed : BOOLEAN, due : Nat]
    /\ half \in {0, 1}
    /\ microtasks \in Seq({"BRIDGE", "WAKE", "EXECUTOR", "RUN_OPERATION"})

\* A write is published as persisted, and a recognition as canonical, only if
\* the database has committed it, whatever the driver said of the commit.
OutcomeIsProved ==
    settlement = "PERSISTED" \/ registry = "CANONICAL" => server = "COMMITTED"

\* The issued-persistence lease, which keeps the runtime from reporting that it
\* has drained, is released only once the write is published and its session
\* has ended: every failure of the recovery keeps it.
LeaseHeldUntilSafe ==
    lease = "RELEASED" => settlement = "PERSISTED" /\ session = "ENDED"

\* A recovery command is in flight, or due to be sent, only for a write that is
\* paused, whose session is open, whose handoff the owner holds and whose lease
\* still is: none can reach the database after the outcome was decided.
NoLateCommand ==
    confirmationCommand.active \/ timer.armed =>
        /\ phase = "PAUSED" /\ session = "OPEN" /\ handoff = "TAKEN"
        /\ ticket = "CLAIMED" /\ lease = "ISSUED"

\* The recovery acts under the lease until the outcome is safe, and not at all
\* once it is decided.
RecoveryHoldsItsLease == LeaseHeldUntilSafe /\ NoLateCommand

\* The scheduler fails closed only when the budget has no slot or no window
\* left, the confirmed outcome could not be cleaned up or published, or a
\* recognition was confirmed by a resend, which leaves no canonical event.
GivesUpOnlyWhenSpent ==
    scheduler = "FAILED_CLOSED" =>
        \/ slots = 0
        \/ now + SingleCommandMs > confirmationDeadline
        \/ handoff = "DELETED"
        \/ write.kind = "RECOGNITION" /\ confirmed /\ ~matchedEvent

\* The scheduler does not adopt the ticket while the coordinator would still
\* reject recovery as not yet paused.
RecoveryWaitsForPause == phase = "REQUESTED" => scheduler = "IDLE"

\* A paused write that the composition wakes the scheduler for is decided: its
\* writer queue is not held for ever by a recovery that has stopped.
PausedIsDecided ==
    phase = "PAUSED" /\ write.wakeup = "COMPOSITION" ~> phase = "TERMINAL"
=============================================================================
