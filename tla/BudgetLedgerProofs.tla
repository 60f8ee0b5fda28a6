------------------------- MODULE BudgetLedgerProofs -------------------------
(***************************************************************************)
(* BudgetLedger's invariants, for every configuration that captureConfig   *)
(* admits, every bound on the clock and any set of evidence.               *)
(***************************************************************************)
EXTENDS BudgetLedger, TLAPS

\* What ties the phases together: a command belongs to a phase that is open,
\* and a round to a ledger that has begun.
Phases ==
    /\ roundActive => rounds > 0
    /\ executionCommand.active => roundActive
    /\ confirmationCommand.active => confirming
    /\ group.active => confirming
    /\ group.attempts <= 2

Invariant ==
    /\ TypeOK
    /\ Phases
    /\ OneCommandInFlight
    /\ WindowsHold
    /\ SendsArePaid
    /\ AbortOnlyBeforeCommit

LEMMA InitInvariant == Init => Invariant
<1> SUFFICES ASSUME Init PROVE Invariant OBVIOUS
<1> USE DEF Init
<1>0. NoCommand \in Command /\ NoGroup \in Group
  BY DEF NoCommand, Command, NoGroup, Group
<1>5. rounds \in 0..MaxRounds /\ slots \in 0..ConfirmationSlots
  BY ConfigAssumption DEF Positive
<1>6. result \in Results /\ consumed \subseteq Evidence
  BY DEF Results
<1>1. TypeOK
  BY <1>0, <1>5, <1>6 DEF TypeOK
<1>2. Phases
  BY DEF Phases, NoCommand, NoGroup
<1>3. OneCommandInFlight /\ WindowsHold
  BY DEF OneCommandInFlight, WindowsHold, NoCommand, NoGroup
<1>4. SendsArePaid /\ AbortOnlyBeforeCommit
  BY ConfigAssumption DEF SendsArePaid, AbortOnlyBeforeCommit, NoGroup, Positive
<1> QED BY <1>1, <1>2, <1>3, <1>4 DEF Invariant

-----------------------------------------------------------------------------
(* The execution phase keeps the invariant *)

LEMMA ExecutionStep == Invariant /\ Execution => Invariant'
<1> USE DEF Invariant, executionVars, windowVars, slotVars, outcomeVars,
            continuationVars, groupVars
<1>1. ASSUME Invariant, BeginRound PROVE Invariant'
  <2>0. rounds' \in 1..MaxRounds /\ executionDeadline' \in Nat /\ result' \in Results
    BY <1>1, ConfigAssumption DEF BeginRound, TypeOK, Positive, Results
  <2>6. rounds' \in 0..MaxRounds
    BY <2>0, ConfigAssumption DEF Positive
  <2>1. TypeOK'
    BY <1>1, <2>0, <2>6 DEF BeginRound, TypeOK
  <2>5. Phases'
    BY <1>1, <2>0 DEF BeginRound, Phases
  <2>2. OneCommandInFlight' /\ SendsArePaid'
    BY <1>1 DEF BeginRound, OneCommandInFlight, SendsArePaid
  <2>3. WindowsHold'
    BY <1>1 DEF BeginRound, TypeOK, Phases, WindowsHold
  <2>4. AbortOnlyBeforeCommit'
    BY <1>1 DEF BeginRound, AbortOnlyBeforeCommit
  <2> QED BY <2>1, <2>2, <2>3, <2>4, <2>5
<1>2. ASSUME Invariant, FinishRound PROVE Invariant'
  <2>1. TypeOK' /\ Phases'
    BY <1>2 DEF FinishRound, TypeOK, Phases
  <2>2. OneCommandInFlight' /\ SendsArePaid' /\ WindowsHold'
    BY <1>2 DEF FinishRound, OneCommandInFlight, SendsArePaid, WindowsHold
  <2>3. AbortOnlyBeforeCommit'
    BY <1>2 DEF FinishRound, AbortOnlyBeforeCommit, CommitSent
  <2> QED BY <2>1, <2>2, <2>3
<1>3. ASSUME Invariant, NEW kind \in {"CRUD", "INITIAL_COMMIT"},
             AdmitExecutionCommand(kind)
      PROVE  Invariant'
  <2> DEFINE until == now + Least(SingleCommandMs, executionDeadline - now)
  <2>1. until \in Nat /\ until <= executionDeadline
    BY <1>3, ConfigAssumption DEF AdmitExecutionCommand, TypeOK, Least, Positive
  <2>2. executionCommand' = [active |-> TRUE, until |-> until]
    BY <1>3 DEF AdmitExecutionCommand, Sent
  <2> HIDE DEF until
  <2>0. executionCommand' \in Command
    BY <2>1, <2>2 DEF Command
  <2>7. commitAdmitted' \in BOOLEAN
    BY <1>3, Zenon DEF AdmitExecutionCommand
  <2>3. TypeOK' /\ Phases'
    BY <1>3, <2>0, <2>7 DEF AdmitExecutionCommand, TypeOK, Phases
  <2>4. OneCommandInFlight' /\ SendsArePaid'
    BY <1>3 DEF AdmitExecutionCommand, OneCommandInFlight, SendsArePaid
  <2>5. WindowsHold'
    BY <1>3, <2>1, <2>2 DEF AdmitExecutionCommand, WindowsHold
  <2>6. AbortOnlyBeforeCommit'
    BY <1>3 DEF AdmitExecutionCommand, AbortOnlyBeforeCommit
  <2> QED BY <2>3, <2>4, <2>5, <2>6
<1>4. ASSUME Invariant, FinishExecutionCommand PROVE Invariant'
  BY <1>4 DEF FinishExecutionCommand, TypeOK, Phases, OneCommandInFlight, SendsArePaid,
              WindowsHold, AbortOnlyBeforeCommit, CommitSent, NoCommand, Command
<1> QED BY <1>1, <1>2, <1>3, <1>4 DEF Execution

-----------------------------------------------------------------------------
(* The confirmation phase keeps the invariant *)

\* What an action leaves alone it cannot disturb, one conjunct at a time.
LEMMA SettlesStep ==
    ASSUME Invariant, Settles
    PROVE  /\ Phases' /\ OneCommandInFlight' /\ WindowsHold' /\ SendsArePaid'
           /\ confirmationCommand' \in Command
           /\ ~group.active
           /\ UNCHANGED <<group, CommitSent>>
BY DEF Settles, Invariant, TypeOK, Phases, OneCommandInFlight, WindowsHold, SendsArePaid,
       CommitSent, NoCommand, Command, executionVars, windowVars, slotVars,
       continuationVars, groupVars

LEMMA ConfirmationStep == Invariant /\ Confirmation => Invariant'
<1> USE DEF Invariant, executionVars, windowVars, slotVars, outcomeVars,
            continuationVars, groupVars
<1>1. ASSUME Invariant, NEW origin \in {"UNKNOWN_RESULT", "PRECOMMIT_CLEANUP"},
             StartConfirmation(origin)
      PROVE  Invariant'
  <2>1. TypeOK' /\ Phases'
    BY <1>1, ConfigAssumption DEF StartConfirmation, TypeOK, Phases, Positive
  <2>2. OneCommandInFlight'
    BY <1>1 DEF StartConfirmation, Phases, OneCommandInFlight
  <2>3. WindowsHold'
    BY <1>1 DEF StartConfirmation, Phases, WindowsHold
  <2>4. SendsArePaid' /\ AbortOnlyBeforeCommit'
    BY <1>1 DEF StartConfirmation, SendsArePaid, AbortOnlyBeforeCommit, CommitSent
  <2> QED BY <2>1, <2>2, <2>3, <2>4
<1>2. ASSUME Invariant, AdmitNextUnknownConfirmation PROVE Invariant'
  <2> DEFINE until == now + IF NextKind = "ORIGINAL_COMMIT" THEN SingleCommandMs
                            ELSE Least(SingleCommandMs, confirmationDeadline - now)
  <2>1. until \in Nat /\ until <= confirmationDeadline
    BY <1>2, ConfigAssumption
    DEF AdmitNextUnknownConfirmation, ConfirmationDue, TypeOK, Least, Positive
  <2>2. confirmationCommand' = [active |-> TRUE, until |-> until]
    BY <1>2 DEF AdmitNextUnknownConfirmation, Sent
  <2> HIDE DEF until
  <2>0. confirmationCommand' \in Command
    BY <2>1, <2>2 DEF Command
  <2>3. slots' \in 0..ConfirmationSlots /\ sends' \in Nat
    BY <1>2, ConfigAssumption
    DEF AdmitNextUnknownConfirmation, ConfirmationDue, TypeOK, Positive
  <2>8. TypeOK' /\ Phases'
    BY <1>2, <2>0, <2>3 DEF AdmitNextUnknownConfirmation, ConfirmationDue, TypeOK, Phases
  <2>4. OneCommandInFlight'
    BY <1>2 DEF AdmitNextUnknownConfirmation, ConfirmationDue, OneCommandInFlight
  <2>5. WindowsHold'
    BY <1>2, <2>1, <2>2 DEF AdmitNextUnknownConfirmation, WindowsHold
  <2>6. SendsArePaid'
    BY <1>2 DEF AdmitNextUnknownConfirmation, ConfirmationDue, SendsArePaid, TypeOK
  <2>7. AbortOnlyBeforeCommit'
    BY <1>2 DEF AdmitNextUnknownConfirmation, AbortOnlyBeforeCommit, CommitSent
  <2> QED BY <2>8, <2>4, <2>5, <2>6, <2>7
<1>3. ASSUME Invariant, SettleStillUnknown PROVE Invariant'
  <2>1. Settles
    BY <1>3 DEF SettleStillUnknown
  <2>2. TypeOK'
    BY <1>3, SettlesStep, ConfigAssumption
    DEF SettleStillUnknown, Settles, TypeOK, Results
  <2> QED BY <1>3, <2>1, <2>2, SettlesStep DEF AbortOnlyBeforeCommit
<1>4. ASSUME Invariant, SettleConfirmed PROVE Invariant'
  <2>1. Settles
    BY <1>4 DEF SettleConfirmed
  <2>2. TypeOK'
    BY <1>4, SettlesStep DEF SettleConfirmed, Settles, TypeOK, Results
  <2> QED BY <1>4, <2>1, <2>2, SettlesStep DEF AbortOnlyBeforeCommit
<1>5. ASSUME Invariant, SettleNoEffectConfirmed PROVE Invariant'
  <2>1. Settles
    BY <1>5 DEF SettleNoEffectConfirmed
  <2>2. TypeOK'
    BY <1>5, SettlesStep DEF SettleNoEffectConfirmed, Settles, TypeOK, Results
  <2> QED BY <1>5, <2>1, <2>2, SettlesStep DEF AbortOnlyBeforeCommit
<1>6. ASSUME Invariant, NEW e \in Evidence, AuthorizeContinuation(e) PROVE Invariant'
  BY <1>6 DEF AuthorizeContinuation, TypeOK, Phases, OneCommandInFlight, SendsArePaid,
              WindowsHold, AbortOnlyBeforeCommit, CommitSent
<1> QED BY <1>1, <1>2, <1>3, <1>4, <1>5, <1>6 DEF Confirmation

-----------------------------------------------------------------------------
(* Native abort groups keep the invariant *)

LEMMA NativeAbortStep == Invariant /\ NativeAbort => Invariant'
<1> USE DEF Invariant, executionVars, windowVars, slotVars, outcomeVars,
            continuationVars, groupVars
<1>1. ASSUME Invariant, ReserveNativePrecommitGroup PROVE Invariant'
  <2> USE <1>1 DEF ReserveNativePrecommitGroup
  <2>1. TypeOK' /\ Phases'
    BY ConfigAssumption, GroupAssumption DEF TypeOK, Phases, Group, Positive
  <2>2. OneCommandInFlight' /\ AbortOnlyBeforeCommit'
    BY DEF OneCommandInFlight, AbortOnlyBeforeCommit, CommitSent
  <2>3. WindowsHold'
    BY ConfigAssumption DEF WindowsHold, OneCommandInFlight, TypeOK, Positive
  <2>4. SendsArePaid'
    BY GroupAssumption, ConfigAssumption DEF SendsArePaid, TypeOK, Positive
  <2> QED BY <2>1, <2>2, <2>3, <2>4
<1>2. ASSUME Invariant, AdmitNativePrecommitCommand PROVE Invariant'
  <2>1. /\ group' = [active |-> TRUE, deadline |-> group.deadline,
                     attempts |-> group.attempts + 1]
        /\ groupCommand' = [active |-> TRUE, until |-> group.deadline]
    BY <1>2 DEF AdmitNativePrecommitCommand, TypeOK, Group, Sent
  <2>2. TypeOK' /\ Phases'
    BY <1>2, <2>1 DEF AdmitNativePrecommitCommand, TypeOK, Phases, Group, Command
  <2>3. OneCommandInFlight' /\ AbortOnlyBeforeCommit'
    BY <1>2, <2>1 DEF AdmitNativePrecommitCommand, OneCommandInFlight, Phases,
                      AbortOnlyBeforeCommit, CommitSent
  <2>5. group.deadline \in Nat
    BY <1>2 DEF TypeOK, Group
  <2>6. WindowsHold'
    BY <1>2, <2>1, <2>5 DEF AdmitNativePrecommitCommand, WindowsHold
  <2>4. SendsArePaid'
    BY <1>2, <2>1 DEF AdmitNativePrecommitCommand, SendsArePaid, TypeOK, Group
  <2> QED BY <2>2, <2>3, <2>4, <2>6
<1>3. ASSUME Invariant, FinishNativePrecommitCommand PROVE Invariant'
  BY <1>3 DEF FinishNativePrecommitCommand, TypeOK, Phases, OneCommandInFlight,
              SendsArePaid, WindowsHold, AbortOnlyBeforeCommit, CommitSent,
              NoCommand, Command
<1>4. ASSUME Invariant, NEW outcome \in {"STILL_UNKNOWN", "NO_EFFECT_CONFIRMED"},
             FinishNativePrecommitGroup(outcome)
      PROVE  Invariant'
  <2> USE <1>4 DEF FinishNativePrecommitGroup, NoGroup
  <2>1. TypeOK' /\ Phases'
    BY DEF TypeOK, Phases, Group, Results
  <2>2. OneCommandInFlight' /\ WindowsHold' /\ AbortOnlyBeforeCommit'
    BY DEF OneCommandInFlight, WindowsHold, AbortOnlyBeforeCommit
  <2>3. SendsArePaid'
    BY ConfigAssumption DEF SendsArePaid, TypeOK, Phases, Group, Positive
  <2> QED BY <2>1, <2>2, <2>3
<1> QED BY <1>1, <1>2, <1>3, <1>4 DEF NativeAbort

-----------------------------------------------------------------------------

LEMMA InvariantStep == Invariant /\ [Next]_vars => Invariant'
<1> USE DEF executionVars, windowVars, slotVars, outcomeVars, continuationVars, groupVars
<1>1. Invariant /\ Freeze => Invariant'
  BY DEF Freeze, Invariant, TypeOK, Phases, OneCommandInFlight, SendsArePaid,
         WindowsHold, AbortOnlyBeforeCommit, CommitSent
<1>2. Invariant /\ Tick => Invariant'
  BY DEF Tick, Invariant, TypeOK, Phases, OneCommandInFlight, SendsArePaid,
         WindowsHold, AbortOnlyBeforeCommit, CommitSent
<1>3. Invariant /\ UNCHANGED vars => Invariant'
  BY DEF vars, Invariant, TypeOK, Phases, OneCommandInFlight, SendsArePaid,
         WindowsHold, AbortOnlyBeforeCommit, CommitSent
<1> QED BY <1>1, <1>2, <1>3, ExecutionStep, ConfirmationStep, NativeAbortStep DEF Next

LEMMA InvariantHolds == Spec => []Invariant
BY InitInvariant, InvariantStep, PTL DEF Spec

-----------------------------------------------------------------------------
(* The theorems *)

\* Every variable of the ledger keeps its type; in particular the slots never
\* go below zero, nor the rounds over their limit.
THEOREM TypeCorrect == Spec => []TypeOK
BY InvariantHolds, PTL DEF Invariant

\* Commands of different phases are never in flight together.
THEOREM OneCommandAtATime == Spec => []OneCommandInFlight
BY InvariantHolds, PTL DEF Invariant

\* Every command can end within the window it was admitted in.
THEOREM CommandsEndInTheirWindows == Spec => []WindowsHold
BY InvariantHolds, PTL DEF Invariant

\* The confirmation phase sends no more commands than it has slots.
THEOREM ConfirmationIsPaidFor == Spec => []SendsArePaid
BY InvariantHolds, PTL DEF Invariant

\* A native group is never open once the commit was sent or its result known.
THEOREM NoAbortAfterCommit == Spec => []AbortOnlyBeforeCommit
BY InvariantHolds, PTL DEF Invariant

\* The budget is kept in every phase: exclusion, windows, payment, abort order.
THEOREM TheBudgetIsKept == Spec => []BudgetIsKept
BY OneCommandAtATime, CommandsEndInTheirWindows, ConfirmationIsPaidFor,
   NoAbortAfterCommit, PTL DEF BudgetIsKept

\* No step of the ledger refreshes a budget.
THEOREM NothingIsRefunded == Spec => BudgetsNeverRefresh
<1> DEFINE Keeps ==
      /\ rounds > 0 => executionDeadline' = executionDeadline
      /\ confirming => confirming' /\ confirmationDeadline' = confirmationDeadline
      /\ slots' <= slots
      /\ rounds' >= rounds
      /\ consumed \subseteq consumed'
      /\ frozen => frozen'
<1> USE ConfigAssumption, GroupAssumption
    DEF Invariant, TypeOK, executionVars, windowVars, slotVars, outcomeVars,
        continuationVars, groupVars, Positive
<1>1. Invariant /\ Execution => Keeps
  BY DEF Execution, BeginRound, FinishRound, AdmitExecutionCommand,
         FinishExecutionCommand
<1>2. Invariant /\ Confirmation => Keeps
  BY DEF Confirmation, StartConfirmation, AdmitNextUnknownConfirmation, ConfirmationDue,
         Settles, SettleStillUnknown, SettleConfirmed, SettleNoEffectConfirmed,
         AuthorizeContinuation
<1>3. Invariant /\ NativeAbort => Keeps
  BY DEF NativeAbort, ReserveNativePrecommitGroup, AdmitNativePrecommitCommand,
         FinishNativePrecommitCommand, FinishNativePrecommitGroup
<1>4. Invariant /\ (Freeze \/ Tick \/ UNCHANGED vars) => Keeps
  BY DEF Freeze, Tick, vars
<1>5. Invariant /\ [Next]_vars => [Keeps]_vars
  BY <1>1, <1>2, <1>3, <1>4 DEF Next
<1> QED BY <1>5, InvariantHolds, PTL DEF Spec, BudgetsNeverRefresh
=============================================================================
