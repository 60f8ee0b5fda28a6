---------------------------- MODULE BudgetLedger ----------------------------
(***************************************************************************)
(* The per-operation budget of a write: budget-ledger.ts.  It decides when *)
(* an execution round may begin and which driver command may be sent: CRUD *)
(* and the initial commit within the execution window, confirmations of an *)
(* unknown commit and native abort groups within the confirmation window.  *)
(*                                                                         *)
(* Every call is one synchronous transition; what interleaves are the      *)
(* calls, the commands in flight, which may settle at any later time, and  *)
(* the clock.  A denial changes nothing and has no action.  Whatever       *)
(* freezes the ledger (a spent, foreign or forged permit, reused evidence, *)
(* a stale owner, a clock that fails or runs back) is the action Freeze.   *)
(*                                                                         *)
(* Bounds: MaxTime ends the clock; Evidence is the evidence that exists.   *)
(***************************************************************************)
EXTENDS Naturals, FiniteSets

CONSTANTS
    ExecutionMs, MaxRounds, SingleCommandMs, ConfirmationMs, ConfirmationSlots,
    NativeGroupSlots, NativeGroupMs,    \* BudgetLedgerConfig
    FirstDelayMs, LaterDelayMs,         \* the cadence of settleStillUnknown
    Evidence,                           \* continuation evidence objects
    MaxTime                             \* bound on the clock

Positive == Nat \ {0}

ASSUME ConfigAssumption ==
    /\ ExecutionMs \in Positive /\ SingleCommandMs \in Positive
    /\ ConfirmationMs \in Positive /\ NativeGroupMs \in Positive
    /\ FirstDelayMs \in Nat /\ LaterDelayMs \in Nat
    /\ MaxRounds \in Positive /\ ConfirmationSlots \in Positive
    /\ MaxTime \in Nat

\* captureConfig fixes the price of a native group at two slots, and the ledger
\* lets a group send twice
ASSUME GroupAssumption == NativeGroupSlots = 2

VARIABLES
    now,                    \* what the trusted clock reads
    frozen,
    rounds,                 \* roundsStarted; 0 is `executionStartMs === null'
    roundActive,            \* activeRound # null
    commitAdmitted,         \* the current or last round's initialCommitAdmitted
    lastRoundCommit,        \* lastRoundInitialCommit
    executionDeadline,
    executionCommand,
    confirming,             \* confirmationStartMs # null
    confirmationDeadline,
    confirmationNextAt,
    confirmationCommand,
    slots,                  \* confirmationSlotsRemaining
    attempt,                \* confirmationAttempt
    confirmed,
    result,
    authorized,             \* continuationAuthorized
    consumed,               \* consumedContinuationEvidence
    unknownSeen,            \* unknownResultSeen
    cleanupSeen,            \* precommitCleanupSeen
    group,                  \* nativeGroup
    groupCommand,           \* nativeGroup.command
    sends                   \* history: confirmation-phase commands admitted

executionVars ==
    <<rounds, roundActive, commitAdmitted, lastRoundCommit, executionDeadline>>
windowVars == <<confirming, confirmationDeadline, unknownSeen, cleanupSeen>>
slotVars == <<slots, sends>>
outcomeVars == <<confirmed, result, attempt, confirmationNextAt>>
continuationVars == <<authorized, consumed>>
groupVars == <<group, groupCommand>>
vars == <<now, frozen, executionVars, executionCommand, windowVars, slotVars,
          outcomeVars, confirmationCommand, continuationVars, groupVars>>

\* A command in flight; `until' is its admission time plus its timeout.
Command == [active : BOOLEAN, until : Nat]
NoCommand == [active |-> FALSE, until |-> 0]
Sent(until) == [active |-> TRUE, until |-> until]

Group == [active : BOOLEAN, deadline : Nat, attempts : Nat]
NoGroup == [active |-> FALSE, deadline |-> 0, attempts |-> 0]

Results == {"NONE", "STILL_UNKNOWN", "CANONICAL_RESULT", "NO_EFFECT_CONFIRMED"}

Init ==
    /\ now = 0
    /\ frozen = FALSE
    /\ rounds = 0
    /\ roundActive = FALSE
    /\ commitAdmitted = FALSE
    /\ lastRoundCommit = FALSE
    /\ executionDeadline = 0
    /\ executionCommand = NoCommand
    /\ confirming = FALSE
    /\ confirmationDeadline = 0
    /\ confirmationNextAt = 0
    /\ confirmationCommand = NoCommand
    /\ slots = ConfirmationSlots
    /\ attempt = 0
    /\ confirmed = FALSE
    /\ result = "NONE"
    /\ authorized = FALSE
    /\ consumed = {}
    /\ unknownSeen = FALSE
    /\ cleanupSeen = FALSE
    /\ group = NoGroup
    /\ groupCommand = NoCommand
    /\ sends = 0

Least(a, b) == IF a < b THEN a ELSE b

-----------------------------------------------------------------------------
(* Execution: rounds and their commands *)

\* Mutant of BeginRound: every round opens a window of its own.
BeginRoundAfresh ==
    /\ ~frozen
    /\ confirming => authorized
    /\ ~group.active /\ ~roundActive
    /\ rounds < MaxRounds
    /\ rounds > 0 => now < executionDeadline
    /\ executionDeadline' = now + ExecutionMs
    /\ rounds' = rounds + 1
    /\ roundActive' = TRUE
    /\ commitAdmitted' = FALSE
    /\ result' = IF authorized THEN "NONE" ELSE result
    /\ authorized' = FALSE
    /\ UNCHANGED <<now, frozen, lastRoundCommit, executionCommand, windowVars, slotVars,
                   confirmed, attempt, confirmationNextAt, confirmationCommand, consumed,
                   groupVars>>

BeginRound ==
    /\ ~frozen
    /\ confirming => authorized
    /\ ~group.active /\ ~roundActive
    /\ rounds < MaxRounds
    /\ rounds > 0 => now < executionDeadline
    /\ executionDeadline' = IF rounds = 0 THEN now + ExecutionMs ELSE executionDeadline
    /\ rounds' = rounds + 1
    /\ roundActive' = TRUE
    /\ commitAdmitted' = FALSE
    /\ result' = IF authorized THEN "NONE" ELSE result
    /\ authorized' = FALSE
    /\ UNCHANGED <<now, frozen, lastRoundCommit, executionCommand, windowVars, slotVars,
                   confirmed, attempt, confirmationNextAt, confirmationCommand, consumed,
                   groupVars>>

FinishRound ==
    /\ ~frozen
    /\ roundActive /\ ~executionCommand.active
    /\ lastRoundCommit' = commitAdmitted
    /\ roundActive' = FALSE
    /\ UNCHANGED <<now, frozen, rounds, commitAdmitted, executionDeadline,
                   executionCommand, windowVars, slotVars, outcomeVars,
                   confirmationCommand, continuationVars, groupVars>>

AdmitExecutionCommand(kind) ==
    /\ ~frozen
    /\ roundActive /\ ~confirming /\ ~group.active /\ ~executionCommand.active
    /\ kind = "INITIAL_COMMIT" => ~commitAdmitted
    /\ now < executionDeadline
    /\ executionCommand' = Sent(now + Least(SingleCommandMs, executionDeadline - now))
    /\ commitAdmitted' = (commitAdmitted \/ kind = "INITIAL_COMMIT")
    /\ UNCHANGED <<now, frozen, rounds, roundActive, lastRoundCommit, executionDeadline,
                   windowVars, slotVars, outcomeVars, confirmationCommand,
                   continuationVars, groupVars>>

FinishExecutionCommand ==
    /\ ~frozen
    /\ executionCommand.active
    /\ executionCommand' = NoCommand
    /\ UNCHANGED <<now, frozen, executionVars, windowVars, slotVars, outcomeVars,
                   confirmationCommand, continuationVars, groupVars>>

-----------------------------------------------------------------------------
(* Confirmation of an unknown commit *)

\* the first origin opens the window, a later one is only noted
StartConfirmation(origin) ==
    /\ ~frozen
    /\ ~confirming => rounds > 0 /\ ~executionCommand.active
    /\ unknownSeen' = (unknownSeen \/ origin = "UNKNOWN_RESULT")
    /\ cleanupSeen' = (cleanupSeen \/ origin = "PRECOMMIT_CLEANUP")
    /\ confirming' = TRUE
    /\ IF confirming
       THEN UNCHANGED <<confirmationDeadline, confirmationNextAt>>
       ELSE /\ confirmationDeadline' = now + ConfirmationMs
            /\ confirmationNextAt' = now
    /\ UNCHANGED <<now, frozen, executionVars, executionCommand, slotVars, confirmed,
                   result, attempt, confirmationCommand, continuationVars, groupVars>>

NextKind == IF attempt % 2 = 0 THEN "ORIGINAL_COMMIT" ELSE "CANONICAL_READ"

\* the guard of admitNextUnknownConfirmation, and of the probe
\* assertNextUnknownConfirmationKind
ConfirmationDue ==
    /\ ~frozen
    /\ confirming /\ unknownSeen
    /\ ~confirmed /\ result # "NO_EFFECT_CONFIRMED"
    /\ ~confirmationCommand.active /\ ~group.active
    /\ slots >= 1
    /\ now >= confirmationNextAt
    /\ now < confirmationDeadline
    /\ NextKind = "ORIGINAL_COMMIT" => confirmationDeadline - now >= SingleCommandMs

AdmitNextUnknownConfirmation ==
    /\ ConfirmationDue
    /\ confirmationCommand' =
          Sent(now + IF NextKind = "ORIGINAL_COMMIT" THEN SingleCommandMs
                     ELSE Least(SingleCommandMs, confirmationDeadline - now))
    /\ slots' = slots - 1
    /\ sends' = sends + 1
    /\ UNCHANGED <<now, frozen, executionVars, executionCommand, windowVars, outcomeVars,
                   continuationVars, groupVars>>

Settles ==
    /\ ~frozen
    /\ confirmationCommand.active
    /\ confirmationCommand' = NoCommand
    /\ UNCHANGED <<now, frozen, executionVars, executionCommand, windowVars, slotVars,
                   continuationVars, groupVars>>

SettleStillUnknown ==
    /\ Settles
    /\ attempt' = attempt + 1
    /\ result' = "STILL_UNKNOWN"
    /\ confirmationNextAt' = now + IF attempt = 0 THEN FirstDelayMs ELSE LaterDelayMs
    /\ UNCHANGED confirmed

SettleConfirmed ==
    /\ Settles
    /\ confirmed' = TRUE
    /\ result' = "CANONICAL_RESULT"
    /\ UNCHANGED <<attempt, confirmationNextAt>>

SettleNoEffectConfirmed ==
    /\ Settles
    /\ result' = "NO_EFFECT_CONFIRMED"
    /\ UNCHANGED <<confirmed, attempt, confirmationNextAt>>

AuthorizeContinuation(e) ==
    /\ ~frozen
    /\ rounds > 0 /\ confirming
    /\ ~roundActive /\ ~executionCommand.active /\ ~confirmationCommand.active
    /\ ~group.active
    /\ ~authorized
    /\ result = "NO_EFFECT_CONFIRMED"
    /\ rounds < MaxRounds
    /\ now < executionDeadline
    /\ e \notin consumed
    /\ consumed' = consumed \cup {e}
    /\ authorized' = TRUE
    /\ UNCHANGED <<now, frozen, executionVars, executionCommand, windowVars, slotVars,
                   outcomeVars, confirmationCommand, groupVars>>

-----------------------------------------------------------------------------
(* Native abort of a transaction whose commit was never sent *)

CommitSent == IF roundActive THEN commitAdmitted ELSE lastRoundCommit

ReserveNativePrecommitGroup ==
    /\ ~frozen
    /\ confirming /\ cleanupSeen
    /\ ~confirmed /\ ~CommitSent
    /\ ~confirmationCommand.active /\ ~executionCommand.active
    /\ ~group.active
    /\ slots >= NativeGroupSlots
    /\ now < confirmationDeadline
    /\ group' = [active |-> TRUE, deadline |-> now + NativeGroupMs, attempts |-> 0]
    /\ slots' = slots - NativeGroupSlots
    /\ UNCHANGED <<now, frozen, executionVars, executionCommand, windowVars, sends,
                   outcomeVars, confirmationCommand, continuationVars, groupCommand>>

\* Mutant of AdmitNativePrecommitCommand: a group sends once too often.
AdmitNativePrecommitCommandThrice ==
    /\ ~frozen
    /\ group.active
    /\ ~confirmationCommand.active /\ ~executionCommand.active /\ ~groupCommand.active
    /\ group.attempts <= 2
    /\ now < group.deadline
    /\ groupCommand' = Sent(group.deadline)
    /\ group' = [group EXCEPT !.attempts = @ + 1]
    /\ sends' = sends + 1
    /\ UNCHANGED <<now, frozen, executionVars, executionCommand, windowVars, slots,
                   outcomeVars, confirmationCommand, continuationVars>>

AdmitNativePrecommitCommand ==
    /\ ~frozen
    /\ group.active
    /\ ~confirmationCommand.active /\ ~executionCommand.active /\ ~groupCommand.active
    /\ group.attempts < 2
    /\ now < group.deadline
    /\ groupCommand' = Sent(group.deadline)
    /\ group' = [group EXCEPT !.attempts = @ + 1]
    /\ sends' = sends + 1
    /\ UNCHANGED <<now, frozen, executionVars, executionCommand, windowVars, slots,
                   outcomeVars, confirmationCommand, continuationVars>>

FinishNativePrecommitCommand ==
    /\ ~frozen
    /\ group.active /\ groupCommand.active
    /\ groupCommand' = NoCommand
    /\ UNCHANGED <<now, frozen, executionVars, executionCommand, windowVars, slotVars,
                   outcomeVars, confirmationCommand, continuationVars, group>>

FinishNativePrecommitGroup(outcome) ==
    /\ ~frozen
    /\ group.active /\ ~groupCommand.active
    /\ group' = NoGroup
    /\ result' = outcome
    /\ UNCHANGED <<now, frozen, executionVars, executionCommand, windowVars, slotVars,
                   confirmed, attempt, confirmationNextAt, confirmationCommand,
                   continuationVars, groupCommand>>

-----------------------------------------------------------------------------

Freeze ==
    /\ ~frozen
    /\ frozen' = TRUE
    /\ UNCHANGED <<now, executionVars, executionCommand, windowVars, slotVars,
                   outcomeVars, confirmationCommand, continuationVars, groupVars>>

Tick ==
    /\ ~frozen
    /\ now < MaxTime
    /\ now' = now + 1
    /\ UNCHANGED <<frozen, executionVars, executionCommand, windowVars, slotVars,
                   outcomeVars, confirmationCommand, continuationVars, groupVars>>

Execution ==
    \/ BeginRound \/ FinishRound
    \/ \E kind \in {"CRUD", "INITIAL_COMMIT"} : AdmitExecutionCommand(kind)
    \/ FinishExecutionCommand

Confirmation ==
    \/ \E origin \in {"UNKNOWN_RESULT", "PRECOMMIT_CLEANUP"} : StartConfirmation(origin)
    \/ AdmitNextUnknownConfirmation
    \/ SettleStillUnknown \/ SettleConfirmed \/ SettleNoEffectConfirmed
    \/ \E e \in Evidence : AuthorizeContinuation(e)

NativeAbort ==
    \/ ReserveNativePrecommitGroup
    \/ AdmitNativePrecommitCommand \/ FinishNativePrecommitCommand
    \/ \E outcome \in {"STILL_UNKNOWN", "NO_EFFECT_CONFIRMED"} :
          FinishNativePrecommitGroup(outcome)

Next == Execution \/ Confirmation \/ NativeAbort \/ Freeze \/ Tick

Spec == Init /\ [][Next]_vars

-----------------------------------------------------------------------------
(* Properties *)

TypeOK ==
    /\ now \in Nat /\ frozen \in BOOLEAN
    /\ rounds \in 0..MaxRounds
    /\ roundActive \in BOOLEAN /\ commitAdmitted \in BOOLEAN /\ lastRoundCommit \in BOOLEAN
    /\ executionDeadline \in Nat
    /\ executionCommand \in Command
    /\ confirming \in BOOLEAN
    /\ confirmationDeadline \in Nat /\ confirmationNextAt \in Nat
    /\ confirmationCommand \in Command
    /\ slots \in 0..ConfirmationSlots
    /\ attempt \in Nat
    /\ confirmed \in BOOLEAN
    /\ result \in Results
    /\ authorized \in BOOLEAN
    /\ consumed \subseteq Evidence
    /\ unknownSeen \in BOOLEAN /\ cleanupSeen \in BOOLEAN
    /\ group \in Group
    /\ groupCommand \in Command
    /\ sends \in Nat

\* One driver command of an operation is in flight at a time, whatever phase
\* it belongs to, and while a native group is open no other command is.
OneCommandInFlight ==
    /\ ~(executionCommand.active /\ (confirming \/ group.active))
    /\ ~(confirmationCommand.active /\ group.active)
    /\ groupCommand.active => group.active

\* A command that is sent can end within its window: an execution command by
\* the execution deadline, a confirmation by the confirmation deadline, an
\* abort by its group's deadline, which oversteps the confirmation window by
\* less than NativeGroupMs.
WindowsHold ==
    /\ executionCommand.active => executionCommand.until <= executionDeadline
    /\ confirmationCommand.active => confirmationCommand.until <= confirmationDeadline
    /\ groupCommand.active => groupCommand.until <= group.deadline
    /\ group.active => group.deadline < confirmationDeadline + NativeGroupMs

\* Every command sent after the execution phase was paid for with a slot, and
\* an open group has paid for the sends it still has.
SendsArePaid ==
    sends + slots + (IF group.active THEN 2 - group.attempts ELSE 0) <= ConfirmationSlots

\* A native abort group is open only while the round it cleans up has not sent
\* its commit and no canonical result is known.
AbortOnlyBeforeCommit == group.active => ~CommitSent /\ ~confirmed

\* The budget of an operation is kept, at every moment and in every phase.
BudgetIsKept == OneCommandInFlight /\ WindowsHold /\ SendsArePaid /\ AbortOnlyBeforeCommit

\* No budget is refreshed: a deadline, once set, never moves, slots are never
\* refunded, rounds and consumed evidence are never forgotten, and a frozen
\* ledger never thaws.
BudgetsNeverRefresh ==
    [][/\ rounds > 0 => executionDeadline' = executionDeadline
       /\ confirming => confirming' /\ confirmationDeadline' = confirmationDeadline
       /\ slots' <= slots
       /\ rounds' >= rounds
       /\ consumed \subseteq consumed'
       /\ frozen => frozen']_vars
=============================================================================
