--------------------------- MODULE OperationBinding ---------------------------
(***************************************************************************)
(* The authority over one write's database commands:                       *)
(* operation-budget-binding.ts over precommit-termination-lifecycle.ts     *)
(* over the budget ledger.  Three layers keep a state of their own for the *)
(* same boundary, each checks the coordinator's owner fence and each can   *)
(* freeze, for good, without the others.                                   *)
(*                                                                         *)
(* A command is admitted and sent in one step and settles in a later one.  *)
(* The settlement of an abort goes to the lifecycle directly, so that it   *)
(* works under a frozen binding.  A denial changes nothing and has no      *)
(* action.  A spent, foreign or forged token, or a call from within a      *)
(* call, is FreezeBinding, FreezeLifecycle or the ledger's Freeze.         *)
(***************************************************************************)
EXTENDS Naturals

CONSTANTS
    ExecutionMs, MaxRounds, SingleCommandMs, ConfirmationMs, ConfirmationSlots,
    NativeGroupSlots, NativeGroupMs, FirstDelayMs, LaterDelayMs, Evidence, MaxTime

VARIABLES
    now, frozen, rounds, roundActive, commitAdmitted, lastRoundCommit,
    executionDeadline, executionCommand, confirming, confirmationDeadline,
    confirmationNextAt, confirmationCommand, slots, attempt, confirmed, result,
    authorized, consumed, unknownSeen, cleanupSeen, group, groupCommand, sends,
    owner,              \* whether the coordinator's fence says current
    bindingFrozen,      \* BindingState.frozen
    precommit,          \* BindingState.precommit # null
    unknownCommit,      \* BindingState.unknownCommit # null
    action,             \* unknownCommit.action # null
    lifecycleFrozen,
    phase,              \* PrecommitTerminationPhase
    abortGroup          \* activeGroup, with lastCommandsAdmitted

Ledger == INSTANCE BudgetLedger

ASSUME LedgerAssumption == Ledger!ConfigAssumption /\ Ledger!GroupAssumption

ledgerVars ==
    <<now, frozen, rounds, roundActive, commitAdmitted, lastRoundCommit,
      executionDeadline, executionCommand, confirming, confirmationDeadline,
      confirmationNextAt, confirmationCommand, slots, attempt, confirmed, result,
      authorized, consumed, unknownSeen, cleanupSeen, group, groupCommand, sends>>
tokenVars == <<precommit, unknownCommit, action>>
lifecycleVars == <<phase, abortGroup>>
bindingVars == <<ledgerVars, owner, bindingFrozen, tokenVars, lifecycleFrozen, lifecycleVars>>

Phases == {"OPEN", "SEALED_PRECOMMIT", "SEALED_COMMIT_UNKNOWN", "TERMINATED"}
AbortGroup == [active : BOOLEAN, commands : Nat, inFlight : BOOLEAN]

BindingInit ==
    /\ Ledger!Init
    /\ owner = TRUE
    /\ bindingFrozen = FALSE
    /\ precommit = FALSE
    /\ unknownCommit = FALSE
    /\ action = FALSE
    /\ lifecycleFrozen = FALSE
    /\ phase = "OPEN"
    /\ abortGroup = [active |-> FALSE, commands |-> 0, inFlight |-> FALSE]

\* `transition' of each layer, up to its owner's answer
BindingEntered == owner /\ ~bindingFrozen
LifecycleEntered == owner /\ ~lifecycleFrozen

\* assertOperationBudgetBindingCurrent: a transition without work
BindingIsCurrent == BindingEntered /\ UNCHANGED bindingVars

-----------------------------------------------------------------------------
(* Execution *)

BeginRound ==
    /\ BindingEntered
    /\ Ledger!BeginRound
    /\ UNCHANGED <<owner, bindingFrozen, tokenVars, lifecycleFrozen, lifecycleVars>>

FinishRound ==
    /\ BindingEntered
    /\ Ledger!FinishRound
    /\ UNCHANGED <<owner, bindingFrozen, tokenVars, lifecycleFrozen, lifecycleVars>>

AdmitCommand(kind) ==
    /\ BindingEntered
    /\ Ledger!AdmitExecutionCommand(kind)
    /\ UNCHANGED <<owner, bindingFrozen, tokenVars, lifecycleFrozen, lifecycleVars>>

SettleCommand ==
    /\ BindingEntered
    /\ Ledger!FinishExecutionCommand
    /\ UNCHANGED <<owner, bindingFrozen, tokenVars, lifecycleFrozen, lifecycleVars>>

-----------------------------------------------------------------------------
(* The two terminal boundaries *)

Sealable == LifecycleEntered /\ phase = "OPEN"

StartPrecommitTermination ==
    /\ BindingEntered
    /\ ~precommit /\ ~unknownCommit
    /\ Sealable
    /\ Ledger!StartConfirmation("PRECOMMIT_CLEANUP")
    /\ precommit' = TRUE
    /\ phase' = "SEALED_PRECOMMIT"
    /\ UNCHANGED <<owner, bindingFrozen, unknownCommit, action, lifecycleFrozen, abortGroup>>

StartUnknownCommitConfirmation ==
    /\ BindingEntered
    /\ ~precommit /\ ~unknownCommit
    /\ Sealable
    /\ Ledger!StartConfirmation("UNKNOWN_RESULT")
    /\ unknownCommit' = TRUE
    /\ phase' = "SEALED_COMMIT_UNKNOWN"
    /\ UNCHANGED <<owner, bindingFrozen, precommit, action, lifecycleFrozen, abortGroup>>

\* The window is open but the scope cannot be sealed: the binding is closed.
\* A boundary that ended leaves `precommit' null and only the lifecycle's phase
\* remembers it.
StartUnsealed(origin) ==
    /\ BindingEntered
    /\ ~precommit /\ ~unknownCommit
    /\ ~Sealable
    /\ Ledger!StartConfirmation(origin)
    /\ bindingFrozen' = TRUE
    /\ UNCHANGED <<owner, tokenVars, lifecycleFrozen, lifecycleVars>>

-----------------------------------------------------------------------------
(* Confirmation of an unknown commit *)

AdmitConfirmation ==
    /\ BindingEntered
    /\ unknownCommit
    /\ Ledger!AdmitNextUnknownConfirmation
    /\ action' = TRUE
    /\ UNCHANGED <<owner, bindingFrozen, precommit, unknownCommit, lifecycleFrozen,
                   lifecycleVars>>

SettleConfirmation ==
    /\ BindingEntered
    /\ unknownCommit /\ action
    /\ \/ Ledger!SettleStillUnknown
       \/ Ledger!SettleConfirmed
       \/ Ledger!SettleNoEffectConfirmed
    /\ action' = FALSE
    /\ UNCHANGED <<owner, bindingFrozen, precommit, unknownCommit, lifecycleFrozen,
                   lifecycleVars>>

-----------------------------------------------------------------------------
(* The native abort *)

ReserveAbortGroup ==
    /\ BindingEntered
    /\ precommit
    /\ LifecycleEntered
    /\ phase = "SEALED_PRECOMMIT" /\ ~abortGroup.active
    /\ Ledger!ReserveNativePrecommitGroup
    /\ abortGroup' = [active |-> TRUE, commands |-> 0, inFlight |-> FALSE]
    /\ UNCHANGED <<owner, bindingFrozen, tokenVars, lifecycleFrozen, phase>>

AdmitAbort ==
    /\ BindingEntered
    /\ precommit /\ abortGroup.active
    /\ LifecycleEntered
    /\ phase = "SEALED_PRECOMMIT" /\ ~abortGroup.inFlight
    /\ Ledger!AdmitNativePrecommitCommand
    /\ abortGroup' = [abortGroup EXCEPT !.commands = @ + 1, !.inFlight = TRUE]
    /\ UNCHANGED <<owner, bindingFrozen, tokenVars, lifecycleFrozen, phase>>

SettleAbort ==
    /\ LifecycleEntered
    /\ abortGroup.active /\ abortGroup.inFlight
    /\ Ledger!FinishNativePrecommitCommand
    /\ abortGroup' = [abortGroup EXCEPT !.inFlight = FALSE]
    /\ UNCHANGED <<owner, bindingFrozen, tokenVars, lifecycleFrozen, phase>>

\* Mutant of TerminatePrecommit: the binding goes on holding the boundary.
TerminatePrecommitKeeping(outcome) ==
    /\ BindingEntered
    /\ precommit /\ abortGroup.active
    /\ LifecycleEntered
    /\ ~abortGroup.inFlight /\ abortGroup.commands >= 1
    /\ Ledger!FinishNativePrecommitGroup(outcome)
    /\ abortGroup' = [abortGroup EXCEPT !.active = FALSE]
    /\ phase' = "TERMINATED"
    /\ UNCHANGED <<owner, bindingFrozen, tokenVars, lifecycleFrozen>>

TerminatePrecommit(outcome) ==
    /\ BindingEntered
    /\ precommit /\ abortGroup.active
    /\ LifecycleEntered
    /\ ~abortGroup.inFlight /\ abortGroup.commands >= 1
    /\ Ledger!FinishNativePrecommitGroup(outcome)
    /\ abortGroup' = [abortGroup EXCEPT !.active = FALSE]
    /\ phase' = "TERMINATED"
    /\ precommit' = FALSE
    /\ UNCHANGED <<owner, bindingFrozen, unknownCommit, action, lifecycleFrozen>>

-----------------------------------------------------------------------------

LoseOwner ==
    /\ owner
    /\ owner' = FALSE
    /\ UNCHANGED <<ledgerVars, bindingFrozen, tokenVars, lifecycleFrozen, lifecycleVars>>

FreezeBinding ==
    /\ ~bindingFrozen
    /\ bindingFrozen' = TRUE
    /\ UNCHANGED <<ledgerVars, owner, tokenVars, lifecycleFrozen, lifecycleVars>>

FreezeLifecycle ==
    /\ ~lifecycleFrozen
    /\ lifecycleFrozen' = TRUE
    /\ UNCHANGED <<ledgerVars, owner, bindingFrozen, tokenVars, lifecycleVars>>

FreezeLedger ==
    /\ Ledger!Freeze
    /\ UNCHANGED <<owner, bindingFrozen, tokenVars, lifecycleFrozen, lifecycleVars>>

Elapse ==
    /\ Ledger!Tick
    /\ UNCHANGED <<owner, bindingFrozen, tokenVars, lifecycleFrozen, lifecycleVars>>

Executes ==
    \/ BeginRound \/ FinishRound
    \/ \E kind \in {"CRUD", "INITIAL_COMMIT"} : AdmitCommand(kind)
    \/ SettleCommand

Terminates ==
    \/ StartPrecommitTermination \/ StartUnknownCommitConfirmation
    \/ \E origin \in {"PRECOMMIT_CLEANUP", "UNKNOWN_RESULT"} : StartUnsealed(origin)
    \/ AdmitConfirmation \/ SettleConfirmation
    \/ ReserveAbortGroup \/ AdmitAbort \/ SettleAbort
    \/ \E outcome \in {"STILL_UNKNOWN", "NO_EFFECT_CONFIRMED"} : TerminatePrecommit(outcome)

BindingNext ==
    \/ Executes \/ Terminates
    \/ LoseOwner \/ FreezeBinding \/ FreezeLifecycle \/ FreezeLedger \/ Elapse

BindingSpec == BindingInit /\ [][BindingNext]_bindingVars

-----------------------------------------------------------------------------
(* Properties *)

\* The binding, the lifecycle and the ledger tell the same story of the
\* boundary, whichever of them is frozen: what one takes for open or in flight
\* no other takes for closed or settled.
LayersAgree ==
    /\ abortGroup.active = group.active
    /\ abortGroup.inFlight = groupCommand.active
    /\ abortGroup.active => precommit /\ abortGroup.commands = group.attempts
    /\ action = confirmationCommand.active
    /\ action => unknownCommit
    /\ precommit => phase = "SEALED_PRECOMMIT" /\ confirming /\ cleanupSeen
    /\ unknownCommit => phase = "SEALED_COMMIT_UNKNOWN" /\ confirming /\ unknownSeen

\* A write is ended by one of the two boundaries: a transaction that was sent an
\* abort has not been sent its commit, never will be, and its result is not
\* asked for.
OneBoundary ==
    abortGroup.commands > 0 => ~Ledger!CommitSent /\ ~unknownCommit /\ confirming
=============================================================================
