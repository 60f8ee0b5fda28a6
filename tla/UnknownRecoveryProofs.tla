----------------------- MODULE UnknownRecoveryProofs -----------------------
(***************************************************************************)
(* Proofs about UnknownRecovery for every configuration of the budget,     *)
(* every set of cases, skew and lateness of timers, and clock bound.       *)
(***************************************************************************)
EXTENDS UnknownRecovery, TLAPS

\* what is proved of the ledger, on the variables of the system
Budget == INSTANCE BudgetLedgerProofs

InHand == {"WORKING", "COMMITTING", "RESOLVED", "ENDING", "REJECTED", "UNKNOWN", "HANDED_OFF"}
Pausing == {"REQUESTED", "PAUSED"}

\* What was committed stays so, and nothing counts as committed before.
Proved ==
    /\ stage \in {"RESOLVED", "ENDING"} \/ awaited = "CLEANUP" => server = "COMMITTED"
    /\ settlement = "PERSISTED" \/ registry = "CANONICAL" => server = "COMMITTED"
    /\ stage \in {"START", "WORKING"} => server = "OPEN"

\* Somebody who still has to act on the write holds its lease.
Held ==
    /\ stage \in InHand \/ microtasks # <<>> => lease = "ISSUED"
    /\ phase \in Pausing \/ awaited # "NONE" \/ timer.armed => lease = "ISSUED"
    /\ lease = "RELEASED" => settlement = "PERSISTED" /\ session = "ENDED"

\* A write that pauses has left the adapter, which keeps its session.
Retained ==
    /\ microtasks # <<>> \/ phase \in Pausing =>
          stage = "OVER" /\ session = "OPEN" /\ handoff = "TAKEN"
    /\ stage # "OVER" => session = "OPEN"

\* The scheduler drives or waits, for a paused write only.
Driven ==
    /\ awaited # "NONE" \/ timer.armed => phase = "PAUSED" /\ ticket = "CLAIMED"
    /\ awaited # "NONE" => driving /\ ~timer.armed
    /\ confirmationCommand.active => awaited \in {"ORIGINAL_COMMIT", "CANONICAL_READ"}

IInv == Proved /\ Held /\ Retained /\ Driven

-----------------------------------------------------------------------------
(* The recovery uses the ledger as its specification says *)

\* An answer settles the confirmation command in the ledger, or none is there.
LEMMA LedgerKeepsCommand ==
    ASSUME \/ Ledger!BeginRound \/ Ledger!FinishRound \/ Ledger!FinishExecutionCommand
           \/ Ledger!AdmitExecutionCommand("INITIAL_COMMIT")
           \/ Ledger!StartConfirmation("UNKNOWN_RESULT") \/ Ledger!Tick
    PROVE  confirmationCommand' = confirmationCommand
BY DEF Ledger!BeginRound, Ledger!FinishRound, Ledger!FinishExecutionCommand,
       Ledger!AdmitExecutionCommand, Ledger!StartConfirmation, Ledger!Tick

LEMMA LedgerSettles ==
    ASSUME Ledger!SettleStillUnknown \/ Ledger!SettleConfirmed
    PROVE  ~confirmationCommand'.active
BY DEF Ledger!SettleStillUnknown, Ledger!SettleConfirmed, Ledger!Settles, Ledger!NoCommand

\* Every step of the write or of its recovery is a step of its budget ledger or
\* leaves the ledger alone: what is proved of the ledger holds in the system.
THEOREM RecoveryKeepsTheBudget == Spec => Ledger!Spec
<1>1. Init => Ledger!Init
  BY DEF Init
<1>2. ASSUME [Next]_vars PROVE [Ledger!Next]_(Ledger!vars)
  <2>1. CASE Work
    BY <2>1 DEF Work, BeginWork, SendInitialCommit, InitialCommitResolves,
       InitialCommitRejects, FinishKnownRound, SessionEnds, SessionEndFails,
       FinishUnknownRound, HandOff, Pause, ledgerVars,
       Ledger!Next, Ledger!Execution, Ledger!Confirmation, Ledger!vars,
       Ledger!executionVars, Ledger!windowVars, Ledger!slotVars, Ledger!outcomeVars,
       Ledger!continuationVars, Ledger!groupVars
  <2>2. CASE Microtask
    BY <2>2 DEF Microtask, BridgeNotifies, ExecutorReturns, RunOperationPauses, WakeSends,
       WakeRefused, Send, Refused, ledgerVars,
       Ledger!Next, Ledger!Execution, Ledger!Confirmation, Ledger!vars,
       Ledger!executionVars, Ledger!windowVars, Ledger!slotVars, Ledger!outcomeVars,
       Ledger!continuationVars, Ledger!groupVars
  <2>3. CASE Turn
    BY <2>3 DEF Turn, TimerSends, TimerRefused, Send, Refused, ledgerVars,
       Ledger!Next, Ledger!Execution, Ledger!Confirmation, Ledger!vars,
       Ledger!executionVars, Ledger!windowVars, Ledger!slotVars, Ledger!outcomeVars,
       Ledger!continuationVars, Ledger!groupVars
  <2>4. CASE Answer
    BY <2>4 DEF Answer, CommitRejected, CommitResolves, CommitResolvesWithoutEvent,
       ReadInconclusive, ReadMatches, CleanupSucceeds, CleanupFails, PublicationFails,
       ledgerVars,
       Ledger!Next, Ledger!Execution, Ledger!Confirmation, Ledger!vars,
       Ledger!executionVars, Ledger!windowVars, Ledger!slotVars, Ledger!outcomeVars,
       Ledger!continuationVars, Ledger!groupVars
  <2>5. CASE ServerCommits \/ ServerAborts \/ Elapse
    BY <2>5 DEF ServerCommits, ServerAborts, Elapse, ledgerVars, Ledger!Next, Ledger!vars,
       Ledger!executionVars, Ledger!windowVars, Ledger!slotVars, Ledger!outcomeVars,
       Ledger!continuationVars, Ledger!groupVars
  <2>6. CASE UNCHANGED vars
    BY <2>6 DEF vars, ledgerVars, Ledger!vars,
       Ledger!executionVars, Ledger!windowVars, Ledger!slotVars, Ledger!outcomeVars,
       Ledger!continuationVars, Ledger!groupVars
  <2> QED
    BY <1>2, <2>1, <2>2, <2>3, <2>4, <2>5, <2>6 DEF Next
<1> QED
  BY <1>1, <1>2, PTL DEF Spec, Ledger!Spec

\* The two instances of the ledger are one specification.
LEMMA SameInit == Ledger!Init => Budget!Init
BY DEF Ledger!Init, Budget!Init, Ledger!NoCommand, Budget!NoCommand, Ledger!NoGroup,
       Budget!NoGroup

LEMMA SameStep == [Ledger!Next]_(Ledger!vars) => [Budget!Next]_(Budget!vars)
BY DEF Ledger!Next, Budget!Next, Ledger!Execution, Budget!Execution,
       Ledger!Confirmation, Budget!Confirmation, Ledger!NativeAbort,
       Budget!NativeAbort, Ledger!Freeze, Budget!Freeze, Ledger!Tick, Budget!Tick,
       Ledger!BeginRound, Budget!BeginRound, Ledger!FinishRound, Budget!FinishRound,
       Ledger!AdmitExecutionCommand, Budget!AdmitExecutionCommand,
       Ledger!FinishExecutionCommand, Budget!FinishExecutionCommand,
       Ledger!StartConfirmation, Budget!StartConfirmation,
       Ledger!AdmitNextUnknownConfirmation, Budget!AdmitNextUnknownConfirmation,
       Ledger!ConfirmationDue, Budget!ConfirmationDue, Ledger!NextKind,
       Budget!NextKind, Ledger!Settles, Budget!Settles, Ledger!SettleStillUnknown,
       Budget!SettleStillUnknown, Ledger!SettleConfirmed, Budget!SettleConfirmed,
       Ledger!SettleNoEffectConfirmed, Budget!SettleNoEffectConfirmed,
       Ledger!AuthorizeContinuation, Budget!AuthorizeContinuation,
       Ledger!ReserveNativePrecommitGroup, Budget!ReserveNativePrecommitGroup,
       Ledger!CommitSent, Budget!CommitSent, Ledger!AdmitNativePrecommitCommand,
       Budget!AdmitNativePrecommitCommand, Ledger!FinishNativePrecommitCommand,
       Budget!FinishNativePrecommitCommand, Ledger!FinishNativePrecommitGroup,
       Budget!FinishNativePrecommitGroup, Ledger!vars, Budget!vars,
       Ledger!executionVars, Budget!executionVars, Ledger!windowVars,
       Budget!windowVars, Ledger!slotVars, Budget!slotVars, Ledger!outcomeVars,
       Budget!outcomeVars, Ledger!continuationVars, Budget!continuationVars,
       Ledger!groupVars, Budget!groupVars, Ledger!Sent, Budget!Sent, Ledger!Least,
       Budget!Least, Ledger!NoCommand, Budget!NoCommand, Ledger!NoGroup,
       Budget!NoGroup

LEMMA SameAssumptions == Budget!ConfigAssumption /\ Budget!GroupAssumption
BY LedgerAssumption DEF Ledger!ConfigAssumption, Ledger!GroupAssumption, Ledger!Positive,
   Budget!ConfigAssumption, Budget!GroupAssumption, Budget!Positive

LEMMA SameSpec == Spec => Budget!Spec
<1>1. Ledger!Spec => Budget!Spec
  BY SameInit, SameStep, PTL DEF Ledger!Spec, Budget!Spec
<1> QED
  BY <1>1, RecoveryKeepsTheBudget

\* The recovery inherits the guarantees of the ledger: every command it sends
\* can end within its window, every one is paid for, and the transaction is not
\* aborted once its commit was sent.
THEOREM BudgetHoldsInRecovery ==
    Spec => [](Ledger!TypeOK /\ Ledger!WindowsHold /\ Ledger!SendsArePaid
               /\ Ledger!AbortOnlyBeforeCommit)
<1>1. Budget!Spec => []Budget!TypeOK
  BY SameAssumptions, Budget!TypeCorrect
<1>2. Budget!Spec => []Budget!WindowsHold
  BY SameAssumptions, Budget!CommandsEndInTheirWindows
<1>3. Budget!Spec => []Budget!SendsArePaid
  BY SameAssumptions, Budget!ConfirmationIsPaidFor
<1>4. Budget!Spec => []Budget!AbortOnlyBeforeCommit
  BY SameAssumptions, Budget!NoAbortAfterCommit
<1>5. /\ Budget!TypeOK => Ledger!TypeOK
      /\ Budget!WindowsHold => Ledger!WindowsHold
      /\ Budget!SendsArePaid => Ledger!SendsArePaid
      /\ Budget!AbortOnlyBeforeCommit => Ledger!AbortOnlyBeforeCommit
  BY DEF Budget!TypeOK, Ledger!TypeOK, Budget!Command, Ledger!Command, Budget!Group,
     Ledger!Group, Budget!Results, Ledger!Results, Budget!WindowsHold, Ledger!WindowsHold,
     Budget!SendsArePaid, Ledger!SendsArePaid, Budget!AbortOnlyBeforeCommit,
     Ledger!AbortOnlyBeforeCommit, Budget!CommitSent, Ledger!CommitSent
<1> QED
  BY <1>1, <1>2, <1>3, <1>4, <1>5, SameSpec, PTL

-----------------------------------------------------------------------------
(* The invariant *)

LEMMA InitHolds == Init => IInv
BY DEF Init, IInv, Proved, Held, Retained, Driven, NoTimer, InHand, Pausing,
       Ledger!Init, Ledger!NoCommand

LEMMA WorkKeeps == IInv /\ Work => IInv'
<1> SUFFICES ASSUME IInv, Work PROVE IInv'
  OBVIOUS
<1> USE DEF IInv, Proved, Held, Retained, Driven, InHand, Pausing, Yielded
<1>1. CASE BeginWork
  BY <1>1, LedgerKeepsCommand DEF BeginWork, schedulerVars
<1>2. CASE SendInitialCommit
  BY <1>2, LedgerKeepsCommand DEF SendInitialCommit, schedulerVars, ownerVars
<1>3. CASE InitialCommitResolves
  BY <1>3, LedgerKeepsCommand DEF InitialCommitResolves, schedulerVars, ownerVars
<1>4. CASE InitialCommitRejects
  BY <1>4, LedgerKeepsCommand DEF InitialCommitRejects, schedulerVars, ownerVars
<1>5. CASE FinishKnownRound
  BY <1>5, LedgerKeepsCommand DEF FinishKnownRound, schedulerVars, ownerVars
<1>6. CASE SessionEnds
  BY <1>6 DEF SessionEnds, schedulerVars, ledgerVars
<1>7. CASE SessionEndFails
  BY <1>7 DEF SessionEndFails, schedulerVars, ledgerVars, ownerVars
<1>8. CASE FinishUnknownRound
  BY <1>8, LedgerKeepsCommand DEF FinishUnknownRound, schedulerVars, ownerVars
<1>9. CASE HandOff
  BY <1>9, LedgerKeepsCommand DEF HandOff, schedulerVars, ownerVars
<1>10. CASE Pause
  BY <1>10 DEF Pause, schedulerVars, ledgerVars
<1> QED
  BY <1>1, <1>2, <1>3, <1>4, <1>5, <1>6, <1>7, <1>8, <1>9, <1>10 DEF Work

\* A microtask finds the lease still held: whoever queued it has not let go.
LEMMA MicrotaskKeeps == IInv /\ (BridgeNotifies \/ ExecutorReturns \/ RunOperationPauses) => IInv'
<1> SUFFICES ASSUME IInv, BridgeNotifies \/ ExecutorReturns \/ RunOperationPauses
             PROVE  IInv'
  OBVIOUS
<1> USE DEF IInv, Proved, Held, Retained, Driven, InHand, Pausing, Yielded
<1>1. CASE BridgeNotifies \/ ExecutorReturns
  BY <1>1 DEF BridgeNotifies, ExecutorReturns, transactionVars, ownerVars, schedulerVars,
              ledgerVars
<1>2. CASE RunOperationPauses
  BY <1>2 DEF RunOperationPauses, transactionVars, schedulerVars, ledgerVars
<1> QED
  BY <1>1, <1>2

\* A send is for a paused write only, and a refusal ends the recovery.
LEMMA SendKeeps ==
    ASSUME IInv, NEW kind, Send(kind), microtasks' = microtasks \/ microtasks # <<>>
    PROVE  IInv'
<1>1. confirmationCommand'.active => kind \in {"ORIGINAL_COMMIT", "CANONICAL_READ"}
  BY DEF Send, Ledger!NextKind
<1>2. kind \in {"ORIGINAL_COMMIT", "CANONICAL_READ"}
  BY DEF Send, Ledger!NextKind
<1> QED
  BY <1>1, <1>2 DEF Send, IInv, Proved, Held, Retained, Driven, InHand, Pausing, NoTimer,
     transactionVars, ownerVars

LEMMA RefusalKeeps ==
    ASSUME IInv, NEW kind, Refused(kind), awaited = "NONE",
           microtasks' = microtasks \/ microtasks # <<>>
    PROVE  IInv'
BY DEF Refused, GiveUp, Stop, IInv, Proved, Held, Retained, Driven, InHand, Pausing, NoTimer,
   transactionVars, ledgerVars

LEMMA TurnKeeps == IInv /\ (WakeSends \/ WakeRefused \/ Turn) => IInv'
<1> SUFFICES ASSUME IInv, WakeSends \/ WakeRefused \/ Turn PROVE IInv'
  OBVIOUS
<1>1. CASE WakeSends
  BY <1>1, SendKeeps DEF WakeSends, WakeCalled, Yielded
<1>2. CASE WakeRefused
  BY <1>2, RefusalKeeps DEF WakeRefused, WakeCalled, Wakeable, Yielded, IInv, Driven
<1>3. CASE TimerSends
  BY <1>3, SendKeeps DEF TimerSends
<1>4. CASE TimerRefused
  BY <1>4, RefusalKeeps DEF TimerRefused, TimerFires, IInv, Driven
<1> QED
  BY <1>1, <1>2, <1>3, <1>4 DEF Turn

LEMMA AnswerKeeps == IInv /\ Answer => IInv'
<1> SUFFICES ASSUME IInv, Answer PROVE IInv'
  OBVIOUS
<1> USE DEF IInv, Proved, Held, Retained, Driven, InHand, Pausing, Yielded
<1>1. CASE CommitRejected \/ ReadInconclusive
  BY <1>1, LedgerSettles DEF CommitRejected, ReadInconclusive, Arm, transactionVars, ownerVars
<1>2. CASE CommitResolves
  BY <1>2, LedgerSettles DEF CommitResolves, Confirm, transactionVars
<1>3. CASE CommitResolvesWithoutEvent
  BY <1>3, LedgerSettles
     DEF CommitResolvesWithoutEvent, GiveUp, Stop, NoTimer, transactionVars
<1>4. CASE ReadMatches
  BY <1>4, LedgerSettles DEF ReadMatches, Confirm
<1>5. CASE CleanupSucceeds
  BY <1>5 DEF CleanupSucceeds, ledgerVars
<1>6. CASE CleanupFails
  BY <1>6 DEF CleanupFails, GiveUp, Stop, NoTimer, ledgerVars
<1>7. CASE PublicationFails
  BY <1>7 DEF PublicationFails, Stop, NoTimer, ledgerVars
<1> QED
  BY <1>1, <1>2, <1>3, <1>4, <1>5, <1>6, <1>7 DEF Answer

LEMMA OutsideKeeps == IInv /\ (ServerCommits \/ ServerAborts \/ Elapse) => IInv'
<1> SUFFICES ASSUME IInv, ServerCommits \/ ServerAborts \/ Elapse PROVE IInv'
  OBVIOUS
<1> USE DEF IInv, Proved, Held, Retained, Driven, InHand, Pausing, Yielded
<1>1. CASE ServerCommits \/ ServerAborts
  BY <1>1 DEF ServerCommits, ServerAborts, ownerVars, schedulerVars, ledgerVars
<1>2. CASE Elapse
  <2>1. confirmationCommand' = confirmationCommand
    BY <1>2, LedgerKeepsCommand DEF Elapse, ledgerVars
  <2> QED
    BY <1>2, <2>1 DEF Elapse, transactionVars, ownerVars, schedulerVars
<1> QED
  BY <1>1, <1>2

THEOREM InvariantHolds == Spec => []IInv
<1>1. IInv /\ [Next]_vars => IInv'
  <2> SUFFICES ASSUME IInv, [Next]_vars PROVE IInv'
    OBVIOUS
  <2>1. CASE UNCHANGED vars
    BY <2>1 DEF vars, ledgerVars, transactionVars, ownerVars, schedulerVars, IInv, Proved,
       Held, Retained, Driven
  <2> QED
    BY <2>1, WorkKeeps, MicrotaskKeeps, TurnKeeps, AnswerKeeps, OutsideKeeps
       DEF Next, Microtask
<1> QED
  BY <1>1, InitHolds, PTL DEF Spec

-----------------------------------------------------------------------------

Timers == [armed : BOOLEAN, due : Nat]
Tasks == {"BRIDGE", "WAKE", "EXECUTOR", "RUN_OPERATION"}

\* The part of TypeOK that is neither the ledger's, the timer's nor the queue's.
Fields ==
    /\ write \in Cases
    /\ stage \in {"START", "WORKING", "COMMITTING", "RESOLVED", "ENDING", "REJECTED",
                 "UNKNOWN", "HANDED_OFF", "OVER"}
    /\ server \in {"OPEN", "SENT", "COMMITTED", "ABORTED"}
    /\ session \in {"OPEN", "ENDED"}
    /\ handoff \in {"NONE", "RETAINED", "TAKEN", "DELETED"}
    /\ matchedEvent \in BOOLEAN /\ registered \in BOOLEAN
    /\ phase \in {"NONE", "REQUESTED", "PAUSED", "TERMINAL"}
    /\ settlement \in {"NONE", "PERSISTED", "UNKNOWN_EFFECT", "HOOK_FAILED"}
    /\ registry \in IF write.kind = "RECOGNITION"
                   THEN {"ORIGINAL", "UNKNOWN", "CANONICAL"} ELSE {"NONE"}
    /\ lease \in {"NONE", "ISSUED", "RELEASED"}
    /\ ticket \in {"NONE", "QUEUED", "CLAIMED", "TERMINAL"}
    /\ scheduler \in {"IDLE", "ORIGINAL_COMMIT", "CANONICAL_READ", "FAILED_CLOSED"}
    /\ driving \in BOOLEAN
    /\ awaited \in {"NONE", "ORIGINAL_COMMIT", "CANONICAL_READ", "CLEANUP"}
    /\ half \in {0, 1}

LEMMA TypeParts ==
    TypeOK <=> Ledger!TypeOK /\ Fields /\ timer \in Timers /\ microtasks \in Seq(Tasks)
BY DEF TypeOK, Fields, Timers, Tasks

LEMMA NextTypeParts ==
    ASSUME Ledger!TypeOK', Fields', timer' \in Timers, microtasks' \in Seq(Tasks)
    PROVE  TypeOK'
BY DEF TypeOK, Fields, Timers, Tasks

\* Everything the recovery keeps is of its type, the ledger's budget included.
THEOREM TypeCorrect == Spec => []TypeOK
<1> DEFINE Clocked == Ledger!TypeOK /\ Ledger!TypeOK'
<1>a. NoTimer \in Timers
  BY DEF NoTimer, Timers
<1>1. Init /\ Ledger!TypeOK => TypeOK
  <2>1. Init => timer \in Timers /\ microtasks \in Seq(Tasks)
    BY <1>a DEF Init
  <2>2. Init => Fields
    BY RecoveryAssumption DEF Init, Fields
  <2> QED
    BY <2>1, <2>2, TypeParts
<1>2. TypeOK /\ Clocked /\ [Next]_vars => TypeOK'
  <2> SUFFICES ASSUME TypeOK, Clocked, [Next]_vars PROVE TypeOK'
    OBVIOUS
  <2>1. /\ Fields /\ timer \in Timers /\ microtasks \in Seq(Tasks)
        /\ Ledger!TypeOK /\ Ledger!TypeOK'
    BY TypeParts
  <2>2. \A delay \in {FirstDelayMs, LaterDelayMs} :
           [armed |-> TRUE, due |-> TimerClock + delay] \in Timers
    <3>1. now \in Nat /\ half \in {0, 1} /\ Phase \in {0, 1}
      BY <2>1, RecoveryAssumption DEF Ledger!TypeOK, Fields
    <3>2. TimerClock \in Nat
      BY <3>1 DEF TimerClock
    <3>3. FirstDelayMs \in Nat /\ LaterDelayMs \in Nat
      BY LedgerAssumption DEF Ledger!ConfigAssumption
    <3> QED
      BY <3>2, <3>3 DEF Timers
  <2>3. CASE Work
    <3>1. microtasks' \in Seq(Tasks)
      <4>1. microtasks' \in {microtasks, <<"BRIDGE", Unwinding>>}
        BY <2>3 DEF Work, BeginWork, SendInitialCommit, InitialCommitResolves,
           InitialCommitRejects, FinishKnownRound, SessionEnds, SessionEndFails,
           FinishUnknownRound, HandOff, Pause
      <4>2. <<"BRIDGE", Unwinding>> \in Seq(Tasks)
        BY DEF Unwinding, Tasks
      <4> QED
        BY <2>1, <4>1, <4>2
    <3>2. timer' = timer
      BY <2>3 DEF Work, BeginWork, SendInitialCommit, InitialCommitResolves,
         InitialCommitRejects, FinishKnownRound, SessionEnds, SessionEndFails,
         FinishUnknownRound, HandOff, Pause, schedulerVars
    <3>3. Fields'
      BY <2>1, <2>3 DEF Fields, Work, BeginWork, SendInitialCommit, InitialCommitResolves,
         InitialCommitRejects, FinishKnownRound, SessionEnds, SessionEndFails,
         FinishUnknownRound, HandOff, Pause, ownerVars, schedulerVars
    <3> QED
      BY <2>1, <3>1, <3>2, <3>3, NextTypeParts
  <2>4. CASE BridgeNotifies \/ ExecutorReturns \/ RunOperationPauses
    <3>1. microtasks' \in Seq(Tasks) /\ timer' = timer
      BY <2>1, <2>4 DEF BridgeNotifies, ExecutorReturns, RunOperationPauses, Yielded, Tasks,
         schedulerVars
    <3>2. Fields'
      BY <2>1, <2>4 DEF Fields, BridgeNotifies, ExecutorReturns, RunOperationPauses,
         transactionVars, ownerVars, schedulerVars
    <3> QED
      BY <2>1, <3>1, <3>2, NextTypeParts
  <2>5. CASE WakeSends \/ TimerSends
    <3>1. timer' \in Timers /\ microtasks' \in Seq(Tasks)
      BY <1>a, <2>1, <2>5 DEF WakeSends, WakeCalled, TimerSends, Send, Yielded
    <3>2. Fields'
      BY <2>1, <2>5 DEF Fields, WakeSends, TimerSends, Send, Ledger!NextKind,
         transactionVars, ownerVars
    <3> QED
      BY <2>1, <3>1, <3>2, NextTypeParts
  <2>6. CASE WakeRefused \/ TimerRefused
    <3>1. timer' \in Timers /\ microtasks' \in Seq(Tasks)
      BY <1>a, <2>1, <2>6 DEF WakeRefused, WakeCalled, TimerRefused, Refused, GiveUp, Stop,
         Yielded
    <3>2. Fields'
      BY <2>1, <2>6 DEF Fields, WakeRefused, TimerRefused, Refused, GiveUp, Stop,
         transactionVars
    <3> QED
      BY <2>1, <3>1, <3>2, NextTypeParts
  <2>7. CASE CommitRejected \/ ReadInconclusive
    <3>1. timer' \in Timers /\ microtasks' = microtasks
      BY <2>2, <2>7 DEF CommitRejected, ReadInconclusive, Arm
    <3>2. Fields'
      BY <2>1, <2>7 DEF Fields, CommitRejected, ReadInconclusive, Arm, transactionVars,
         ownerVars
    <3> QED
      BY <2>1, <3>1, <3>2, NextTypeParts
  <2>8. CASE CommitResolves \/ CommitResolvesWithoutEvent \/ ReadMatches
    <3>1. timer' \in Timers /\ microtasks' = microtasks
      BY <1>a, <2>1, <2>8 DEF CommitResolves, CommitResolvesWithoutEvent, ReadMatches,
         Confirm, GiveUp, Stop
    <3>2. matchedEvent' \in BOOLEAN
      BY <2>1, <2>8 DEF Fields, CommitResolves, CommitResolvesWithoutEvent, ReadMatches,
         transactionVars
    <3>3. Fields'
      BY <2>1, <2>8, <3>2 DEF Fields, CommitResolves, CommitResolvesWithoutEvent,
         ReadMatches, Confirm, GiveUp, Stop, transactionVars
    <3> QED
      BY <2>1, <3>1, <3>3, NextTypeParts
  <2>9. CASE CleanupSucceeds \/ CleanupFails \/ PublicationFails
    <3>1. timer' \in Timers /\ microtasks' = microtasks
      BY <1>a, <2>1, <2>9 DEF CleanupSucceeds, CleanupFails, PublicationFails, GiveUp, Stop
    <3>2. Fields'
      BY <2>1, <2>9 DEF Fields, CleanupSucceeds, CleanupFails, PublicationFails, GiveUp, Stop
    <3> QED
      BY <2>1, <3>1, <3>2, NextTypeParts
  <2>10. CASE ServerCommits \/ ServerAborts \/ Elapse
    <3>1. timer' = timer /\ microtasks' = microtasks
      BY <2>10 DEF ServerCommits, ServerAborts, Elapse, schedulerVars
    <3>2. Fields'
      BY <2>1, <2>10 DEF Fields, ServerCommits, ServerAborts, Elapse, transactionVars,
         ownerVars, schedulerVars
    <3> QED
      BY <2>1, <3>1, <3>2, NextTypeParts
  <2>11. CASE UNCHANGED vars
    BY <2>1, <2>11, NextTypeParts
       DEF Fields, vars, transactionVars, ownerVars, schedulerVars
  <2> QED
    BY <2>3, <2>4, <2>5, <2>6, <2>7, <2>8, <2>9, <2>10, <2>11
       DEF Next, Microtask, Turn, Answer
<1>3. Spec => []Ledger!TypeOK
  BY BudgetHoldsInRecovery, PTL
<1> HIDE DEF Clocked
<1> QED
  BY <1>1, <1>2, <1>3, PTL DEF Spec, Clocked

\* Nothing is published as persisted or canonical that the database has not
\* committed.
THEOREM OnlyProvedOutcomes == Spec => []OutcomeIsProved
<1>1. IInv => OutcomeIsProved
  BY DEF IInv, Proved, OutcomeIsProved
<1> QED
  BY <1>1, InvariantHolds, PTL

\* The lease outlives every failure of the recovery.
THEOREM LeaseIsHeld == Spec => []LeaseHeldUntilSafe
<1>1. IInv => LeaseHeldUntilSafe
  BY DEF IInv, Held, LeaseHeldUntilSafe
<1> QED
  BY <1>1, InvariantHolds, PTL

\* A recovery command is sent, and a timer armed for one, only while the write
\* is paused and its session, handoff, ticket and lease are held.
THEOREM NothingLate == Spec => []NoLateCommand
<1>1. IInv => NoLateCommand
  BY DEF IInv, Held, Retained, Driven, Pausing, NoLateCommand
<1> QED
  BY <1>1, InvariantHolds, PTL

\* The recovery acts under the lease until the outcome is safe, and not at all
\* once it is decided.
THEOREM TheLeaseCoversTheRecovery == Spec => []RecoveryHoldsItsLease
BY LeaseIsHeld, NothingLate, PTL DEF RecoveryHoldsItsLease
=============================================================================
