--------------------------- MODULE PrecommitProofs ---------------------------
(***************************************************************************)
(* A write from its binding to the end of its scope, proved for every      *)
(* number of operations and commands, every set of ids and faces, and any  *)
(* time a clock shows.                                                     *)
(*                                                                         *)
(* The parts build on each other.  The binding comes first, under any      *)
(* order of its calls (BindingInv), and then each step of the adapter is   *)
(* shown to be a step of the binding.  ChainInv is about the adapter: what *)
(* each stage of a write has behind it (StageInv), who owns its session    *)
(* (SessionInv), what it was answered (AnswerInv) and what its transaction *)
(* has written (DataInv).  WorkerInv adds the worker that takes a write    *)
(* over after its commit was in doubt, and ScopesInv the scopes a use case *)
(* reads and plans in, one handle at a time.  The last part is about the   *)
(* database all of it works on: SchemaInv says what bootstraps, seedings   *)
(* and deaths leave of it, and with it no process accepts half a database. *)
(***************************************************************************)
EXTENDS PostCommitHandoff, AccessScope, ExistingSchema, FiniteSetTheorems, TLAPS

-----------------------------------------------------------------------------
(* The binding, in whatever order its calls come. *)

\* The fields of the three layers that the layers compare.
BindingTypes ==
    /\ abortGroup \in AbortGroup /\ group \in Ledger!Group
    /\ now \in Nat

\* A write is never continued, and so no round begins and no command of the work
\* is sent once a boundary was opened; an abort is for a transaction that was not
\* sent its commit.
Boundary ==
    /\ ~authorized
    /\ confirming => ~executionCommand.active
    /\ group.active => confirming /\ ~confirmed /\ ~Ledger!CommitSent
    /\ groupCommand.active => group.active
    /\ abortGroup.commands > 0 => confirming /\ phase \in {"SEALED_PRECOMMIT", "TERMINATED"}

BindingInv == BindingTypes /\ LayersAgree /\ OneBoundary /\ Boundary

-----------------------------------------------------------------------------

USE DEF tokenVars, lifecycleVars, Ledger!executionVars, Ledger!windowVars, Ledger!slotVars,
        Ledger!outcomeVars, Ledger!continuationVars, Ledger!groupVars, Refusals

LEMMA BindingStarts == BindingInit => BindingInv
<1>. SUFFICES ASSUME BindingInit PROVE BindingInv
  OBVIOUS
<1>1. /\ abortGroup = [active |-> FALSE, commands |-> 0, inFlight |-> FALSE]
      /\ group = [active |-> FALSE, deadline |-> 0, attempts |-> 0]
      /\ groupCommand.active = FALSE /\ confirmationCommand.active = FALSE
      /\ authorized = FALSE /\ confirming = FALSE /\ precommit = FALSE /\ unknownCommit = FALSE
      /\ action = FALSE /\ now = 0
  BY DEF BindingInit, Ledger!Init, Ledger!NoCommand, Ledger!NoGroup
<1>2. BindingTypes
  BY <1>1 DEF BindingTypes, AbortGroup, Ledger!Group
<1>3. /\ abortGroup.active = FALSE /\ abortGroup.inFlight = FALSE /\ abortGroup.commands = 0
      /\ group.active = FALSE
  BY <1>1
<1>4. LayersAgree /\ OneBoundary /\ Boundary
  <2>1. LayersAgree
    BY <1>1, <1>3 DEF LayersAgree
  <2>2. OneBoundary
    BY <1>3 DEF OneBoundary
  <2>3. Boundary
    BY <1>1, <1>3 DEF Boundary
  <2>. QED  BY <2>1, <2>2, <2>3
<1>. QED  BY <1>2, <1>4 DEF BindingInv

\* The rounds and the commands of the work.
LEMMA ExecutesKeeps ==
    ASSUME BindingInv, Executes
    PROVE  BindingInv'
<1>1. CASE BeginRound
  BY <1>1 DEF BeginRound, Ledger!BeginRound, BindingInv, BindingTypes, LayersAgree, OneBoundary,
              Boundary, Ledger!CommitSent
<1>2. CASE FinishRound
  BY <1>2 DEF FinishRound, Ledger!FinishRound, BindingInv, BindingTypes, LayersAgree,
     OneBoundary, Boundary, Ledger!CommitSent
<1>3. ASSUME NEW k \in {"CRUD", "INITIAL_COMMIT"}, AdmitCommand(k)
      PROVE  BindingInv'
  BY <1>3 DEF AdmitCommand, Ledger!AdmitExecutionCommand, BindingInv, BindingTypes,
              LayersAgree, OneBoundary, Boundary, Ledger!CommitSent
<1>4. CASE SettleCommand
  BY <1>4 DEF SettleCommand, Ledger!FinishExecutionCommand, Ledger!NoCommand, Ledger!Command,
              BindingInv, BindingTypes, LayersAgree, OneBoundary, Boundary, Ledger!CommitSent
<1>. QED  BY <1>1, <1>2, <1>3, <1>4 DEF Executes

\* The two boundaries, the confirmation and the native abort.
LEMMA TerminatesKeeps ==
    ASSUME BindingInv, Terminates
    PROVE  BindingInv'
<1>. USE DEF BindingInv, BindingTypes, LayersAgree, OneBoundary, Boundary, Ledger!CommitSent
<1>1. CASE StartPrecommitTermination
  BY <1>1 DEF StartPrecommitTermination, Sealable, Ledger!StartConfirmation
<1>2. CASE StartUnknownCommitConfirmation
  BY <1>2 DEF StartUnknownCommitConfirmation, Sealable, Ledger!StartConfirmation
<1>3. ASSUME NEW o \in {"PRECOMMIT_CLEANUP", "UNKNOWN_RESULT"}, StartUnsealed(o)
      PROVE  BindingInv'
  BY <1>3 DEF StartUnsealed, Ledger!StartConfirmation
<1>4. CASE AdmitConfirmation
  BY <1>4 DEF AdmitConfirmation, Ledger!AdmitNextUnknownConfirmation, Ledger!Sent
<1>5. CASE SettleConfirmation
  <2>2. unknownCommit /\ confirming /\ ~group.active
    BY <1>5 DEF SettleConfirmation
  <2>1. Ledger!Settles /\ action' = FALSE
        /\ UNCHANGED <<owner, bindingFrozen, precommit, unknownCommit, lifecycleFrozen,
                       lifecycleVars>>
    BY <1>5 DEF SettleConfirmation, Ledger!SettleStillUnknown, Ledger!SettleConfirmed,
                Ledger!SettleNoEffectConfirmed
  <2>3. /\ confirmationCommand'.active = FALSE
        /\ UNCHANGED <<now, executionCommand, confirming, group, groupCommand, authorized,
                       roundActive, commitAdmitted, lastRoundCommit, unknownSeen, cleanupSeen>>
    BY <2>1 DEF Ledger!Settles, Ledger!NoCommand
  <2>. QED  BY <2>1, <2>2, <2>3
<1>6. CASE ReserveAbortGroup
  <2>1. group' \in Ledger!Group
    BY <1>6, LedgerAssumption DEF ReserveAbortGroup, Ledger!ReserveNativePrecommitGroup,
       Ledger!Group, Ledger!ConfigAssumption, Ledger!Positive
  <2>. QED  BY <1>6, <2>1 DEF ReserveAbortGroup, Ledger!ReserveNativePrecommitGroup, AbortGroup
<1>7. CASE AdmitAbort
  <2>1. /\ group' = [active |-> TRUE, deadline |-> group.deadline,
                    attempts |-> group.attempts + 1]
        /\ abortGroup' = [active |-> TRUE, commands |-> abortGroup.commands + 1,
                         inFlight |-> TRUE]
        /\ groupCommand'.active = TRUE
        /\ UNCHANGED <<now, confirmationCommand, executionCommand, confirming, confirmed,
                       authorized,
                       roundActive, commitAdmitted, lastRoundCommit, unknownSeen, cleanupSeen,
                       tokenVars, phase>>
    BY <1>7 DEF AdmitAbort, Ledger!AdmitNativePrecommitCommand, Ledger!Sent, AbortGroup,
       Ledger!Group
  <2>2. phase = "SEALED_PRECOMMIT" /\ abortGroup.active /\ group.active /\ precommit
    BY <1>7 DEF AdmitAbort
  <2>3. /\ group'.active = TRUE /\ abortGroup'.active = TRUE /\ abortGroup'.inFlight = TRUE
        /\ group'.attempts = abortGroup'.commands
    BY <2>1, <2>2
  <2>4. BindingTypes'
    BY <2>1 DEF AbortGroup, Ledger!Group
  <2>5. LayersAgree'
    BY <2>1, <2>2, <2>3
  <2>6. OneBoundary' /\ Boundary'
    BY <2>1, <2>2, <2>3
  <2>. QED  BY <2>4, <2>5, <2>6
<1>8. CASE SettleAbort
  BY <1>8 DEF SettleAbort, Ledger!FinishNativePrecommitCommand, Ledger!NoCommand, AbortGroup
<1>9. ASSUME NEW o \in {"STILL_UNKNOWN", "NO_EFFECT_CONFIRMED"}, TerminatePrecommit(o)
      PROVE  BindingInv'
  BY <1>9 DEF TerminatePrecommit, Ledger!FinishNativePrecommitGroup, Ledger!NoGroup, AbortGroup,
              Ledger!Group
<1>. QED  BY <1>1, <1>2, <1>3, <1>4, <1>5, <1>6, <1>7, <1>8, <1>9 DEF Terminates

LEMMA BindingKeeps ==
    ASSUME BindingInv, [BindingNext]_bindingVars
    PROVE  BindingInv'
<1>1. ASSUME UNCHANGED bindingVars PROVE BindingInv'
  BY <1>1 DEF bindingVars, ledgerVars, BindingInv, BindingTypes, LayersAgree, OneBoundary,
     Boundary, Ledger!CommitSent
<1>2. ASSUME LoseOwner \/ FreezeBinding \/ FreezeLifecycle \/ FreezeLedger \/ Elapse
      PROVE  BindingInv'
  BY <1>2 DEF LoseOwner, FreezeBinding, FreezeLifecycle, FreezeLedger, Elapse, Ledger!Freeze,
     Ledger!Tick, ledgerVars, BindingInv, BindingTypes, LayersAgree, OneBoundary, Boundary,
     Ledger!CommitSent
<1>. QED  BY <1>1, <1>2, ExecutesKeeps, TerminatesKeeps DEF BindingNext
-----------------------------------------------------------------------------
(* The chain. *)

Opens == {"ADMITTED", "START", "BOUND", "BEGINNING", "UNDOING"}
Works == {"WORKING", "COMMAND"}
Commits == {"COMMITTING", "COMMITTED", "COMMIT_FAILED", "ENDING", "HANDING_OFF"}
Ending == {"STARTING", "RESERVING", "SENDING", "ABORTING", "SETTLING", "CLEANING"}
Aborts == {"FAILING", "SEALED"} \cup Ending
Leaves == {"FAILED", "RECHECK", "CLOSING", "CLOSED", "DONE"}

\* The session is ended and the adapter has forgotten the transaction.
Gone == session # "OPEN" /\ ~mapped

\* What every stage knows of the transaction.
StageInv ==
    /\ stage \in Opens \cup Works \cup Commits \cup Aborts \cup Leaves
    /\ stage \in Opens => ~mapped /\ server = "NONE" /\ ~executionCommand.active
    /\ stage \in Opens \ {"UNDOING"} => session = "NONE" /\ error = "NONE"
    /\ stage = "UNDOING" => error = "OTHER"
    /\ stage \in Works => session = "OPEN" /\ mapped /\ error = "NONE"
    /\ stage \in Opens \cup Works => abortGroup.commands = 0 /\ phase = "OPEN" /\ ~confirming
    /\ stage \in Opens \cup Works \cup Aborts => ~invoked
    /\ stage \in Opens \cup Works \cup Commits => origin = "FAIL"
    /\ stage \in Opens \cup Works \cup Commits \cup Aborts => answer = "NONE"
    /\ stage \in Commits => invoked /\ session = "OPEN" /\ handoff = "NONE"
    /\ stage \in {"COMMITTED", "ENDING"} => server = "COMMITTED"
    /\ stage = "ENDING" => ~mapped
    /\ stage \in Aborts => mapped
    /\ stage \in Ending \cup {"ENDING"} => ~executionCommand.active
    /\ stage \in {"SETTLING", "CLEANING"} => ~abortGroup.inFlight
    /\ stage = "SENDING" => abortGroup.commands = 0
    /\ stage = "SETTLING" => outcome \in {"STILL_UNKNOWN", "NO_EFFECT_CONFIRMED"}
    /\ stage = "RECHECK" => kind = "RECOGNITION" /\ error = "DUPLICATE"
    /\ stage = "FAILED" => answer = "NONE"

\* Who has the session.
SessionInv ==
    /\ mapped => session = "OPEN"
    /\ executionCommand.active \/ abortGroup.inFlight => session = "OPEN"
    /\ abortGroup.inFlight => abortGroup.commands = 1
    /\ abortGroup.commands <= 1
    /\ invoked => abortGroup.commands = 0 /\ error \notin Refusals
    /\ handoff # "NONE" => invoked /\ stage \in Leaves
    /\ handoff = "OPEN" => unknownCommit

\* An answer, or a refusal, is given with the session ended or handed on.
AnswerInv ==
    /\ stage \in {"FAILED", "RECHECK"} /\ error \in {"DUPLICATE"} \cup Refusals =>
          handoff = "OPEN" \/ Gone
    /\ stage \in Leaves /\ answer # "NONE" => handoff = "OPEN" \/ Gone
    /\ stage = "CLOSING" /\ error \in Refusals => Gone \/ (mapped /\ ~invoked)
    /\ stage \in {"CLOSED", "DONE"} /\ error \in Refusals => handoff = "OPEN" \/ Gone
    /\ answer = "COMMITTED" => server = "COMMITTED" /\ writes
    /\ answer = "REPLAYED" => stored = "SAME" /\ kind = "RECOGNITION"
    /\ answer = "CONFLICT" => stored = "OTHER" /\ kind = "RECOGNITION"
    /\ disposition \in {"NONE", "PAUSED", "BUSINESS_RESULT_PERSISTED", "KNOWN_NO_EFFECT",
                        "UNKNOWN_EFFECT"}
    /\ disposition # "NONE" <=> stage = "DONE"
    /\ stage = "DONE" =>
          /\ disposition = "PAUSED" <=> handoff = "OPEN"
          /\ disposition = "BUSINESS_RESULT_PERSISTED" => Persisted
          /\ disposition = "KNOWN_NO_EFFECT" => NoEffect

\* What the server holds of the write, and what the snapshot saw.
DataInv ==
    /\ kind \in {"RECOGNITION", "MANAGEMENT"} /\ writes \in BOOLEAN
    /\ step \in {"READ", "WRITE", "COMMIT"}
    /\ seen \in {"NONE", "SAME", "OTHER"} /\ stored \in {"NONE", "SAME", "OTHER"}
    /\ step = "READ" => ~writes
    /\ step = "WRITE" => seen = "NONE"
    /\ step = "COMMIT" /\ seen = "NONE" => writes
    /\ invoked => step = "COMMIT"
    /\ ~invoked => server \in {"NONE", "OPEN", "ABORTED"}
    /\ seen # "NONE" => ~writes /\ stored = seen /\ kind = "RECOGNITION"
    /\ writes => server # "NONE"
    /\ writes /\ server = "COMMITTED" => stored = "SAME"
    /\ writes /\ server \in {"OPEN", "SENT"} => stored = "NONE"
    /\ kind = "MANAGEMENT" /\ server # "COMMITTED" => stored = "NONE"

ChainInv == StageInv /\ SessionInv /\ AnswerInv /\ DataInv

-----------------------------------------------------------------------------
(* The hand-off. *)

Sending == terminator \in {"SENDING", "ASTRAY"}

WorkerInv ==
    /\ terminator # "NONE" \/ reader # "NONE" \/ cleaner # "NONE" \/ status # "RETAINED" =>
          stage = "DONE" /\ handoff = "OPEN"
    /\ Sending => confirmationCommand.active /\ status = "TAKEN" /\ reader # "READING"
    /\ reader = "READING" => confirmationCommand.active /\ status = "TAKEN" /\ writes
    /\ cleaner # "NONE" => confirmed /\ ~confirmationCommand.active
    /\ handoff = "OPEN" /\ cleaner \in {"NONE", "READY"} => session = "OPEN"
    /\ cleaner = "RELEASING" => ~mapped
    /\ handoff = "OPEN" /\ session # "OPEN" => confirmed
    /\ confirmed => stage = "DONE" /\ handoff = "OPEN" /\ unknownCommit
    /\ confirmed => IF writes THEN Matching ELSE server = "COMMITTED"
    /\ result = "CANONICAL_RESULT" => confirmed
    /\ result = "NO_EFFECT_CONFIRMED" => phase = "TERMINATED"

HandoffInv == BindingInv /\ ChainInv /\ WorkerInv

-----------------------------------------------------------------------------
(* What a call of the binding does to what the chain relies on. *)

authority ==
    <<executionCommand, confirming, phase, abortGroup, unknownCommit, confirmationCommand,
      confirmed, result>>

\* A call that throws, the loss of the owner, a ledger that freezes, the clock.
LEMMA ThrowsNothing ==
    ASSUME NEW ACTION Call, Throws(Call)
    PROVE  UNCHANGED authority /\ [BindingNext]_bindingVars
<1>1. FreezeBinding \/ UNCHANGED bindingVars
  BY DEF Throws
<1>. QED  BY <1>1 DEF FreezeBinding, authority, bindingVars, ledgerVars, BindingNext

LEMMA SurroundingsAct ==
    ASSUME LoseOwner \/ FreezeBinding \/ FreezeLifecycle \/ FreezeLedger \/ Elapse
    PROVE  UNCHANGED authority
  BY DEF LoseOwner, FreezeBinding, FreezeLifecycle, FreezeLedger, Elapse, Ledger!Freeze,
         Ledger!Tick, ledgerVars, authority

LEMMA RoundsAct ==
    ASSUME BindingInv, BeginRound \/ FinishRound
    PROVE  UNCHANGED authority /\ (FinishRound => ~executionCommand.active)
<1>1. ~authorized
  BY DEF BindingInv, Boundary
<1>. QED  BY <1>1 DEF BeginRound, FinishRound, Ledger!BeginRound, Ledger!FinishRound, authority

LEMMA CommandsAct ==
    ASSUME NEW k \in {"CRUD", "INITIAL_COMMIT"}, AdmitCommand(k)
    PROVE  /\ ~confirming
           /\ UNCHANGED <<confirming, phase, abortGroup, unknownCommit, confirmationCommand,
                          confirmed, result>>
  BY DEF AdmitCommand, Ledger!AdmitExecutionCommand

LEMMA SettleCommandActs ==
    ASSUME SettleCommand
    PROVE  /\ ~executionCommand'.active
           /\ UNCHANGED <<confirming, phase, abortGroup, unknownCommit, confirmationCommand,
                          confirmed, result>>
  BY DEF SettleCommand, Ledger!FinishExecutionCommand, Ledger!NoCommand

LEMMA PrecommitActs ==
    ASSUME StartPrecommitTermination
    PROVE  /\ phase = "OPEN" /\ phase' = "SEALED_PRECOMMIT"
           /\ UNCHANGED <<executionCommand, abortGroup, unknownCommit, confirmationCommand,
                          confirmed, result>>
  BY DEF StartPrecommitTermination, Sealable, Ledger!StartConfirmation

LEMMA UnknownActs ==
    ASSUME StartUnknownCommitConfirmation
    PROVE  /\ phase = "OPEN" /\ phase' = "SEALED_COMMIT_UNKNOWN" /\ unknownCommit' = TRUE
           /\ UNCHANGED <<executionCommand, abortGroup, confirmationCommand, confirmed, result>>
  BY DEF StartUnknownCommitConfirmation, Sealable, Ledger!StartConfirmation

LEMMA AbortActs ==
    ASSUME BindingInv
    PROVE  /\ ReserveAbortGroup \/ AdmitAbort \/ SettleAbort =>
                 UNCHANGED <<executionCommand, confirming, phase, unknownCommit,
                             confirmationCommand, confirmed, result>>
           /\ ReserveAbortGroup => abortGroup'.commands = 0 /\ abortGroup'.inFlight = FALSE
           /\ AdmitAbort =>
                 abortGroup'.commands = abortGroup.commands + 1 /\ abortGroup'.inFlight = TRUE
           /\ SettleAbort =>
                 abortGroup'.commands = abortGroup.commands /\ abortGroup'.inFlight = FALSE
<1>1. abortGroup \in AbortGroup
  BY DEF BindingInv, BindingTypes
<1>2. ASSUME ReserveAbortGroup
      PROVE  /\ abortGroup'.commands = 0 /\ abortGroup'.inFlight = FALSE
             /\ UNCHANGED <<executionCommand, confirming, phase, unknownCommit,
                            confirmationCommand, confirmed, result>>
  BY <1>2 DEF ReserveAbortGroup, Ledger!ReserveNativePrecommitGroup
<1>3. ASSUME AdmitAbort
      PROVE  /\ abortGroup'.commands = abortGroup.commands + 1 /\ abortGroup'.inFlight = TRUE
             /\ UNCHANGED <<executionCommand, confirming, phase, unknownCommit,
                            confirmationCommand, confirmed, result>>
  BY <1>1, <1>3 DEF AdmitAbort, Ledger!AdmitNativePrecommitCommand, AbortGroup
<1>4. ASSUME SettleAbort
      PROVE  /\ abortGroup'.commands = abortGroup.commands /\ abortGroup'.inFlight = FALSE
             /\ UNCHANGED <<executionCommand, confirming, phase, unknownCommit,
                            confirmationCommand, confirmed, result>>
  BY <1>1, <1>4 DEF SettleAbort, Ledger!FinishNativePrecommitCommand, AbortGroup
<1>. QED  BY <1>2, <1>3, <1>4

LEMMA TerminateActs ==
    ASSUME BindingInv, NEW o, TerminatePrecommit(o)
    PROVE  /\ phase' = "TERMINATED" /\ result' = o
           /\ abortGroup'.commands = abortGroup.commands
           /\ abortGroup'.inFlight = abortGroup.inFlight
           /\ UNCHANGED <<executionCommand, confirming, unknownCommit, confirmationCommand,
                          confirmed>>
<1>1. abortGroup \in AbortGroup
  BY DEF BindingInv, BindingTypes
<1>. QED  BY <1>1 DEF TerminatePrecommit, Ledger!FinishNativePrecommitGroup, AbortGroup

LEMMA ConfirmationsAct ==
    ASSUME BindingInv
    PROVE  /\ AdmitConfirmation \/ SettleConfirmation =>
                 unknownCommit /\ UNCHANGED <<executionCommand, confirming, phase, abortGroup,
                                              unknownCommit>>
           /\ AdmitConfirmation =>
                 /\ ~confirmationCommand.active /\ ~confirmed /\ confirmationCommand'.active
                 /\ UNCHANGED <<confirmed, result>>
           /\ \A settled \in {"STILL_UNKNOWN", "CANONICAL_RESULT"} : SettleAs(settled) =>
                 /\ confirmationCommand.active /\ ~confirmationCommand'.active
                 /\ result' = settled
                 /\ confirmed' = (IF settled = "CANONICAL_RESULT" THEN TRUE ELSE confirmed)
<1>1. ASSUME AdmitConfirmation
      PROVE  /\ unknownCommit /\ UNCHANGED <<executionCommand, confirming, phase, abortGroup,
                                             unknownCommit>>
             /\ ~confirmationCommand.active /\ ~confirmed /\ confirmationCommand'.active
             /\ UNCHANGED <<confirmed, result>>
  BY <1>1 DEF AdmitConfirmation, Ledger!AdmitNextUnknownConfirmation, Ledger!ConfirmationDue,
              Ledger!Sent
<1>2. ASSUME SettleConfirmation
      PROVE  /\ unknownCommit /\ UNCHANGED <<executionCommand, confirming, phase, abortGroup,
                                             unknownCommit>>
             /\ confirmationCommand.active /\ ~confirmationCommand'.active
             /\ \/ result' = "STILL_UNKNOWN" /\ confirmed' = confirmed
                \/ result' = "CANONICAL_RESULT" /\ confirmed' = TRUE
                \/ result' = "NO_EFFECT_CONFIRMED"
  BY <1>2 DEF SettleConfirmation, Ledger!SettleStillUnknown, Ledger!SettleConfirmed,
              Ledger!SettleNoEffectConfirmed, Ledger!Settles, Ledger!NoCommand
<1>. QED  BY <1>1, <1>2 DEF SettleAs

-----------------------------------------------------------------------------
(* The chain, action by action. *)

USE DEF chainVars, resultVars, serverVars, Opens, Works, Commits, Ending, Aborts, Leaves

\* Before the write is disposed of there is nothing for the taker of a hand-off.
LEMMA WorkerSleeps ==
    ASSUME WorkerInv, stage # "DONE", UNCHANGED handoffVars, confirmed' = confirmed,
           handoff' = "OPEN" => session' = "OPEN",
           result' # "CANONICAL_RESULT", result' = "NO_EFFECT_CONFIRMED" => phase' = "TERMINATED"
    PROVE  WorkerInv'
<1>1. /\ terminator = "NONE" /\ reader = "NONE" /\ cleaner = "NONE" /\ status = "RETAINED"
      /\ confirmed = FALSE \/ ~confirmed
  BY DEF WorkerInv
<1>2. UNCHANGED <<terminator, reader, cleaner, status>> /\ ~confirmed
  BY DEF WorkerInv, handoffVars, workerVars
<1>. QED  BY <1>1, <1>2 DEF WorkerInv, Sending

LEMMA BindAdmissionKeeps ==
    ASSUME HandoffInv, BindingInv', BindAdmission, UNCHANGED handoffVars
    PROVE  ChainInv' /\ WorkerInv'
<1>. BindingInv /\ StageInv /\ SessionInv /\ AnswerInv /\ DataInv /\ WorkerInv
  BY DEF HandoffInv, ChainInv
<1>1. UNCHANGED authority
  BY DEF authority, bindingVars, ledgerVars, BindingIsCurrent, BindAdmission
<1>2. StageInv'
  BY <1>1 DEF BindAdmission, authority, StageInv
<1>3. SessionInv'
  BY <1>1 DEF BindAdmission, authority, SessionInv
<1>4. AnswerInv'
  BY DEF BindAdmission, AnswerInv
<1>5. DataInv'
  BY <1>1 DEF BindAdmission, StageInv, DataInv
<1>6. WorkerInv'
  BY <1>1, WorkerSleeps DEF BindAdmission, authority, WorkerInv
<1>. QED  BY <1>2, <1>3, <1>4, <1>5, <1>6 DEF ChainInv

LEMMA BindAdmissionRefusedKeeps ==
    ASSUME HandoffInv, BindingInv', BindAdmissionRefused, UNCHANGED handoffVars
    PROVE  ChainInv' /\ WorkerInv'
<1>. BindingInv /\ StageInv /\ SessionInv /\ AnswerInv /\ DataInv /\ WorkerInv
  BY DEF HandoffInv, ChainInv
<1>1. UNCHANGED authority
  BY ThrowsNothing DEF authority, BindAdmissionRefused
<1>2. StageInv'
  BY DEF BindAdmissionRefused, StageInv
<1>3. SessionInv'
  BY <1>1 DEF BindAdmissionRefused, authority, SessionInv
<1>4. AnswerInv'
  BY DEF BindAdmissionRefused, StageInv, AnswerInv
<1>5. DataInv'
  BY <1>1 DEF BindAdmissionRefused, StageInv, DataInv
<1>6. WorkerInv'
  BY <1>1, WorkerSleeps DEF BindAdmissionRefused, authority, WorkerInv
<1>. QED  BY <1>2, <1>3, <1>4, <1>5, <1>6 DEF ChainInv

LEMMA UseScopeKeeps ==
    ASSUME HandoffInv, BindingInv', UseScope, UNCHANGED handoffVars
    PROVE  ChainInv' /\ WorkerInv'
<1>. BindingInv /\ StageInv /\ SessionInv /\ AnswerInv /\ DataInv /\ WorkerInv
  BY DEF HandoffInv, ChainInv
<1>1. UNCHANGED authority
  BY DEF authority, bindingVars, ledgerVars, BindingIsCurrent, UseScope
<1>2. StageInv'
  BY <1>1 DEF UseScope, authority, StageInv
<1>3. SessionInv'
  BY <1>1 DEF UseScope, authority, SessionInv
<1>4. AnswerInv'
  BY DEF UseScope, AnswerInv
<1>5. DataInv'
  BY <1>1 DEF UseScope, StageInv, DataInv
<1>6. WorkerInv'
  BY <1>1, WorkerSleeps DEF UseScope, authority, WorkerInv
<1>. QED  BY <1>2, <1>3, <1>4, <1>5, <1>6 DEF ChainInv

LEMMA OpenFacadeKeeps ==
    ASSUME HandoffInv, BindingInv', OpenFacade, UNCHANGED handoffVars
    PROVE  ChainInv' /\ WorkerInv'
<1>. BindingInv /\ StageInv /\ SessionInv /\ AnswerInv /\ DataInv /\ WorkerInv
  BY DEF HandoffInv, ChainInv
<1>1. UNCHANGED authority
  BY RoundsAct DEF authority, OpenFacade
<1>2. StageInv'
  BY <1>1 DEF OpenFacade, authority, StageInv
<1>3. SessionInv'
  BY <1>1 DEF OpenFacade, authority, SessionInv
<1>4. AnswerInv'
  BY DEF OpenFacade, AnswerInv
<1>5. DataInv'
  BY <1>1 DEF OpenFacade, StageInv, DataInv
<1>6. WorkerInv'
  BY <1>1, WorkerSleeps DEF OpenFacade, authority, WorkerInv
<1>. QED  BY <1>2, <1>3, <1>4, <1>5, <1>6 DEF ChainInv

LEMMA OpenRefusedKeeps ==
    ASSUME HandoffInv, BindingInv', OpenRefused, UNCHANGED handoffVars
    PROVE  ChainInv' /\ WorkerInv'
<1>. BindingInv /\ StageInv /\ SessionInv /\ AnswerInv /\ DataInv /\ WorkerInv
  BY DEF HandoffInv, ChainInv
<1>1. UNCHANGED authority
  BY ThrowsNothing DEF authority, OpenRefused
<1>2. StageInv'
  BY DEF OpenRefused, StageInv
<1>3. SessionInv'
  BY <1>1 DEF OpenRefused, authority, SessionInv
<1>4. AnswerInv'
  BY DEF OpenRefused, StageInv, AnswerInv
<1>5. DataInv'
  BY <1>1 DEF OpenRefused, StageInv, DataInv
<1>6. WorkerInv'
  BY <1>1, WorkerSleeps DEF OpenRefused, authority, WorkerInv
<1>. QED  BY <1>2, <1>3, <1>4, <1>5, <1>6 DEF ChainInv

LEMMA StartTransactionKeeps ==
    ASSUME HandoffInv, BindingInv', StartTransaction, UNCHANGED handoffVars
    PROVE  ChainInv' /\ WorkerInv'
<1>. BindingInv /\ StageInv /\ SessionInv /\ AnswerInv /\ DataInv /\ WorkerInv
  BY DEF HandoffInv, ChainInv
<1>1. UNCHANGED authority
  BY DEF authority, bindingVars, ledgerVars, StartTransaction
<1>2. StageInv'
  BY <1>1 DEF StartTransaction, authority, StageInv
<1>3. SessionInv'
  BY <1>1 DEF StartTransaction, authority, SessionInv
<1>4. AnswerInv'
  BY DEF StartTransaction, StageInv, AnswerInv
<1>5. DataInv'
  BY <1>1 DEF StartTransaction, StageInv, DataInv
<1>6. WorkerInv'
  BY <1>1, WorkerSleeps DEF StartTransaction, authority, WorkerInv
<1>. QED  BY <1>2, <1>3, <1>4, <1>5, <1>6 DEF ChainInv

LEMMA StartTransactionFailsKeeps ==
    ASSUME HandoffInv, BindingInv', StartTransactionFails, UNCHANGED handoffVars
    PROVE  ChainInv' /\ WorkerInv'
<1>. BindingInv /\ StageInv /\ SessionInv /\ AnswerInv /\ DataInv /\ WorkerInv
  BY DEF HandoffInv, ChainInv
<1>1. UNCHANGED authority
  BY DEF authority, bindingVars, ledgerVars, StartTransactionFails
<1>2. StageInv'
  BY <1>1 DEF StartTransactionFails, authority, StageInv
<1>3. SessionInv'
  BY <1>1 DEF StartTransactionFails, authority, StageInv, SessionInv
<1>4. AnswerInv'
  BY DEF StartTransactionFails, AnswerInv
<1>5. DataInv'
  BY <1>1 DEF StartTransactionFails, StageInv, DataInv
<1>6. WorkerInv'
  BY <1>1, WorkerSleeps DEF StartTransactionFails, authority, SessionInv, WorkerInv
<1>. QED  BY <1>2, <1>3, <1>4, <1>5, <1>6 DEF ChainInv

LEMMA UndoBeginKeeps ==
    ASSUME HandoffInv, BindingInv', UndoBegin, UNCHANGED handoffVars
    PROVE  ChainInv' /\ WorkerInv'
<1>. BindingInv /\ StageInv /\ SessionInv /\ AnswerInv /\ DataInv /\ WorkerInv
  BY DEF HandoffInv, ChainInv
<1>1. UNCHANGED authority
  BY RoundsAct, ThrowsNothing DEF authority, UndoBegin
<1>2. StageInv'
  BY DEF UndoBegin, StageInv
<1>3. SessionInv'
  BY <1>1 DEF UndoBegin, authority, StageInv, SessionInv
<1>4. AnswerInv'
  BY DEF UndoBegin, StageInv, AnswerInv
<1>5. DataInv'
  BY <1>1 DEF UndoBegin, StageInv, DataInv
<1>6. WorkerInv'
  BY <1>1, WorkerSleeps DEF UndoBegin, authority, SessionInv, WorkerInv
<1>. QED  BY <1>2, <1>3, <1>4, <1>5, <1>6 DEF ChainInv

LEMMA SendCommandKeeps ==
    ASSUME HandoffInv, BindingInv', SendCommand, UNCHANGED handoffVars
    PROVE  ChainInv' /\ WorkerInv'
<1>. BindingInv /\ StageInv /\ SessionInv /\ AnswerInv /\ DataInv /\ WorkerInv
  BY DEF HandoffInv, ChainInv
<1>1. /\ ~confirming
      /\ UNCHANGED <<confirming, phase, abortGroup, unknownCommit, confirmationCommand,
                     confirmed, result>>
  BY CommandsAct DEF authority, SendCommand
<1>2. StageInv'
  BY <1>1 DEF SendCommand, StageInv
<1>3. SessionInv'
  BY <1>1 DEF SendCommand, StageInv, SessionInv
<1>4. AnswerInv'
  BY DEF SendCommand, AnswerInv
<1>5. DataInv'
  BY <1>1 DEF SendCommand, StageInv, DataInv
<1>6. WorkerInv'
  BY <1>1, WorkerSleeps DEF SendCommand, WorkerInv
<1>. QED  BY <1>2, <1>3, <1>4, <1>5, <1>6 DEF ChainInv

LEMMA CommandRefusedKeeps ==
    ASSUME HandoffInv, BindingInv', CommandRefused, UNCHANGED handoffVars
    PROVE  ChainInv' /\ WorkerInv'
<1>. BindingInv /\ StageInv /\ SessionInv /\ AnswerInv /\ DataInv /\ WorkerInv
  BY DEF HandoffInv, ChainInv
<1>1. UNCHANGED authority
  BY ThrowsNothing DEF authority, CommandRefused
<1>2. StageInv'
  BY DEF CommandRefused, StageInv
<1>3. SessionInv'
  BY <1>1 DEF CommandRefused, authority, SessionInv
<1>4. AnswerInv'
  BY DEF CommandRefused, AnswerInv
<1>5. DataInv'
  BY <1>1 DEF CommandRefused, StageInv, DataInv
<1>6. WorkerInv'
  BY <1>1, WorkerSleeps DEF CommandRefused, authority, WorkerInv
<1>. QED  BY <1>2, <1>3, <1>4, <1>5, <1>6 DEF ChainInv

LEMMA CommandResolvesKeeps ==
    ASSUME HandoffInv, BindingInv', CommandResolves, UNCHANGED handoffVars
    PROVE  ChainInv' /\ WorkerInv'
<1>. BindingInv /\ StageInv /\ SessionInv /\ AnswerInv /\ DataInv /\ WorkerInv
  BY DEF HandoffInv, ChainInv
<1>1. /\ ~executionCommand'.active
      /\ UNCHANGED <<confirming, phase, abortGroup, unknownCommit, confirmationCommand,
                     confirmed, result>>
  BY SettleCommandActs DEF authority, CommandResolves
<1>2. StageInv'
  BY <1>1 DEF CommandResolves, StageInv
<1>3. SessionInv'
  BY <1>1 DEF CommandResolves, SessionInv
<1>4. AnswerInv'
  BY DEF CommandResolves, StageInv, AnswerInv
<1>5. DataInv'
  <2>1. CASE Reads
    BY <1>1, <2>1 DEF CommandResolves, Reads, Writes, Following, StageInv, DataInv
  <2>2. CASE Writes
    BY <1>1, <2>2 DEF CommandResolves, Reads, Writes, Following, StageInv, DataInv
  <2>. QED  BY <2>1, <2>2 DEF CommandResolves
<1>6. WorkerInv'
  BY <1>1, WorkerSleeps DEF CommandResolves, WorkerInv
<1>. QED  BY <1>2, <1>3, <1>4, <1>5, <1>6 DEF ChainInv

LEMMA CommandRejectsKeeps ==
    ASSUME HandoffInv, BindingInv', CommandRejects, UNCHANGED handoffVars
    PROVE  ChainInv' /\ WorkerInv'
<1>. BindingInv /\ StageInv /\ SessionInv /\ AnswerInv /\ DataInv /\ WorkerInv
  BY DEF HandoffInv, ChainInv
<1>1. /\ ~executionCommand'.active
      /\ UNCHANGED <<confirming, phase, abortGroup, unknownCommit, confirmationCommand,
                     confirmed, result>>
  BY SettleCommandActs DEF authority, CommandRejects
<1>2. StageInv'
  BY DEF CommandRejects, Rejections, StageInv
<1>3. SessionInv'
  BY <1>1 DEF CommandRejects, Rejections, StageInv, SessionInv
<1>4. AnswerInv'
  BY DEF CommandRejects, Rejections, StageInv, AnswerInv
<1>5. DataInv'
  <2>1. CASE Reads
    BY <1>1, <2>1 DEF CommandRejects, Reads, Writes, StageInv, DataInv
  <2>2. CASE Writes
    BY <1>1, <2>2 DEF CommandRejects, Reads, Writes, StageInv, DataInv
  <2>3. CASE UNCHANGED <<writes, seen>>
    BY <1>1, <2>3 DEF CommandRejects, StageInv, DataInv
  <2>. QED  BY <2>1, <2>2, <2>3 DEF CommandRejects
<1>6. WorkerInv'
  BY <1>1, WorkerSleeps DEF CommandRejects, WorkerInv
<1>. QED  BY <1>2, <1>3, <1>4, <1>5, <1>6 DEF ChainInv

LEMMA CommandUnsettledKeeps ==
    ASSUME HandoffInv, BindingInv', CommandUnsettled, UNCHANGED handoffVars
    PROVE  ChainInv' /\ WorkerInv'
<1>. BindingInv /\ StageInv /\ SessionInv /\ AnswerInv /\ DataInv /\ WorkerInv
  BY DEF HandoffInv, ChainInv
<1>1. UNCHANGED authority
  BY ThrowsNothing DEF authority, CommandUnsettled
<1>2. StageInv'
  BY DEF CommandUnsettled, StageInv
<1>3. SessionInv'
  BY <1>1 DEF CommandUnsettled, authority, SessionInv
<1>4. AnswerInv'
  BY DEF CommandUnsettled, AnswerInv
<1>5. DataInv'
  <2>1. CASE Reads
    BY <1>1, <2>1 DEF CommandUnsettled, Reads, Writes, StageInv, DataInv
  <2>2. CASE Writes
    BY <1>1, <2>2 DEF CommandUnsettled, Reads, Writes, StageInv, DataInv
  <2>3. CASE UNCHANGED <<writes, seen>>
    BY <1>1, <2>3 DEF CommandUnsettled, StageInv, DataInv
  <2>. QED  BY <2>1, <2>2, <2>3 DEF CommandUnsettled
<1>6. WorkerInv'
  BY <1>1, WorkerSleeps DEF CommandUnsettled, authority, WorkerInv
<1>. QED  BY <1>2, <1>3, <1>4, <1>5, <1>6 DEF ChainInv

LEMMA RefuseChangeKeeps ==
    ASSUME HandoffInv, BindingInv', RefuseChange, UNCHANGED handoffVars
    PROVE  ChainInv' /\ WorkerInv'
<1>. BindingInv /\ StageInv /\ SessionInv /\ AnswerInv /\ DataInv /\ WorkerInv
  BY DEF HandoffInv, ChainInv
<1>1. UNCHANGED authority
  BY DEF authority, bindingVars, ledgerVars, RefuseChange
<1>2. StageInv'
  BY DEF RefuseChange, StageInv
<1>3. SessionInv'
  BY <1>1 DEF RefuseChange, authority, StageInv, SessionInv
<1>4. AnswerInv'
  <2>1. CASE stage = "START"
    BY <2>1 DEF RefuseChange, StageInv, AnswerInv, Gone
  <2>2. CASE stage = "WORKING"
    BY <2>2 DEF RefuseChange, StageInv, AnswerInv, Gone
  <2>. QED  BY <2>1, <2>2 DEF RefuseChange
<1>5. DataInv'
  BY <1>1 DEF RefuseChange, StageInv, DataInv
<1>6. WorkerInv'
  BY <1>1, WorkerSleeps DEF RefuseChange, authority, WorkerInv
<1>. QED  BY <1>2, <1>3, <1>4, <1>5, <1>6 DEF ChainInv

LEMMA RefuseFaceKeeps ==
    ASSUME HandoffInv, BindingInv', RefuseFace, UNCHANGED handoffVars
    PROVE  ChainInv' /\ WorkerInv'
<1>. BindingInv /\ StageInv /\ SessionInv /\ AnswerInv /\ DataInv /\ WorkerInv
  BY DEF HandoffInv, ChainInv
<1>1. UNCHANGED authority
  BY DEF authority, bindingVars, ledgerVars, RefuseFace
<1>2. StageInv'
  BY DEF RefuseFace, StageInv
<1>3. SessionInv'
  BY <1>1 DEF RefuseFace, authority, StageInv, SessionInv
<1>4. AnswerInv'
  BY DEF RefuseFace, StageInv, AnswerInv
<1>5. DataInv'
  BY <1>1 DEF RefuseFace, StageInv, DataInv
<1>6. WorkerInv'
  BY <1>1, WorkerSleeps DEF RefuseFace, authority, WorkerInv
<1>. QED  BY <1>2, <1>3, <1>4, <1>5, <1>6 DEF ChainInv

LEMMA SendCommitKeeps ==
    ASSUME HandoffInv, BindingInv', SendCommit, UNCHANGED handoffVars
    PROVE  ChainInv' /\ WorkerInv'
<1>. BindingInv /\ StageInv /\ SessionInv /\ AnswerInv /\ DataInv /\ WorkerInv
  BY DEF HandoffInv, ChainInv
<1>1. /\ ~confirming
      /\ UNCHANGED <<confirming, phase, abortGroup, unknownCommit, confirmationCommand,
                     confirmed, result>>
  BY CommandsAct DEF authority, SendCommit
<1>2. StageInv'
  BY DEF SendCommit, StageInv, SessionInv
<1>3. SessionInv'
  BY <1>1 DEF SendCommit, StageInv, SessionInv
<1>4. AnswerInv'
  BY DEF SendCommit, AnswerInv
<1>5. DataInv'
  BY <1>1 DEF SendCommit, StageInv, DataInv
<1>6. WorkerInv'
  BY <1>1, WorkerSleeps DEF SendCommit, WorkerInv
<1>. QED  BY <1>2, <1>3, <1>4, <1>5, <1>6 DEF ChainInv

LEMMA CommitRefusedKeeps ==
    ASSUME HandoffInv, BindingInv', CommitRefused, UNCHANGED handoffVars
    PROVE  ChainInv' /\ WorkerInv'
<1>. BindingInv /\ StageInv /\ SessionInv /\ AnswerInv /\ DataInv /\ WorkerInv
  BY DEF HandoffInv, ChainInv
<1>1. UNCHANGED authority
  BY ThrowsNothing DEF authority, CommitRefused
<1>2. StageInv'
  BY DEF CommitRefused, StageInv
<1>3. SessionInv'
  BY <1>1 DEF CommitRefused, authority, SessionInv
<1>4. AnswerInv'
  BY DEF CommitRefused, AnswerInv
<1>5. DataInv'
  BY <1>1 DEF CommitRefused, StageInv, DataInv
<1>6. WorkerInv'
  BY <1>1, WorkerSleeps DEF CommitRefused, authority, WorkerInv
<1>. QED  BY <1>2, <1>3, <1>4, <1>5, <1>6 DEF ChainInv

LEMMA CommitResolvesKeeps ==
    ASSUME HandoffInv, BindingInv', CommitResolves, UNCHANGED handoffVars
    PROVE  ChainInv' /\ WorkerInv'
<1>. BindingInv /\ StageInv /\ SessionInv /\ AnswerInv /\ DataInv /\ WorkerInv
  BY DEF HandoffInv, ChainInv
<1>1. /\ ~executionCommand'.active
      /\ UNCHANGED <<confirming, phase, abortGroup, unknownCommit, confirmationCommand,
                     confirmed, result>>
  BY SettleCommandActs DEF authority, CommitResolves
<1>2. StageInv'
  BY DEF CommitResolves, StageInv
<1>3. SessionInv'
  BY <1>1 DEF CommitResolves, SessionInv
<1>4. AnswerInv'
  BY DEF CommitResolves, AnswerInv
<1>5. DataInv'
  BY <1>1 DEF CommitResolves, StageInv, DataInv
<1>6. WorkerInv'
  BY <1>1, WorkerSleeps DEF CommitResolves, WorkerInv
<1>. QED  BY <1>2, <1>3, <1>4, <1>5, <1>6 DEF ChainInv

LEMMA CommitRejectsKeeps ==
    ASSUME HandoffInv, BindingInv', CommitRejects, UNCHANGED handoffVars
    PROVE  ChainInv' /\ WorkerInv'
<1>. BindingInv /\ StageInv /\ SessionInv /\ AnswerInv /\ DataInv /\ WorkerInv
  BY DEF HandoffInv, ChainInv
<1>1. /\ UNCHANGED <<confirming, phase, abortGroup, unknownCommit, confirmationCommand,
                     confirmed, result>>
      /\ executionCommand'.active => executionCommand.active
  BY SettleCommandActs, ThrowsNothing DEF authority, CommitRejects
<1>2. StageInv'
  BY DEF CommitRejects, StageInv
<1>3. SessionInv'
  BY <1>1 DEF CommitRejects, SessionInv
<1>4. AnswerInv'
  BY DEF CommitRejects, AnswerInv
<1>5. DataInv'
  BY <1>1 DEF CommitRejects, StageInv, DataInv
<1>6. WorkerInv'
  BY <1>1, WorkerSleeps DEF CommitRejects, WorkerInv
<1>. QED  BY <1>2, <1>3, <1>4, <1>5, <1>6 DEF ChainInv

LEMMA FinishCommittedRoundKeeps ==
    ASSUME HandoffInv, BindingInv', FinishCommittedRound, UNCHANGED handoffVars
    PROVE  ChainInv' /\ WorkerInv'
<1>. BindingInv /\ StageInv /\ SessionInv /\ AnswerInv /\ DataInv /\ WorkerInv
  BY DEF HandoffInv, ChainInv
<1>1. /\ UNCHANGED authority
      /\ FinishRound => ~executionCommand.active
  BY RoundsAct, ThrowsNothing DEF authority, FinishCommittedRound
<1>2. StageInv'
  BY <1>1 DEF FinishCommittedRound, authority, StageInv
<1>3. SessionInv'
  BY <1>1 DEF FinishCommittedRound, authority, SessionInv
<1>4. AnswerInv'
  BY DEF FinishCommittedRound, AnswerInv
<1>5. DataInv'
  BY <1>1 DEF FinishCommittedRound, StageInv, DataInv
<1>6. WorkerInv'
  BY <1>1, WorkerSleeps DEF FinishCommittedRound, authority, WorkerInv
<1>. QED  BY <1>2, <1>3, <1>4, <1>5, <1>6 DEF ChainInv

LEMMA FinishFailedRoundKeeps ==
    ASSUME HandoffInv, BindingInv', FinishFailedRound, UNCHANGED handoffVars
    PROVE  ChainInv' /\ WorkerInv'
<1>. BindingInv /\ StageInv /\ SessionInv /\ AnswerInv /\ DataInv /\ WorkerInv
  BY DEF HandoffInv, ChainInv
<1>1. UNCHANGED authority
  BY RoundsAct, ThrowsNothing DEF authority, FinishFailedRound
<1>2. StageInv'
  BY DEF FinishFailedRound, StageInv
<1>3. SessionInv'
  BY <1>1 DEF FinishFailedRound, authority, SessionInv
<1>4. AnswerInv'
  BY DEF FinishFailedRound, AnswerInv
<1>5. DataInv'
  BY <1>1 DEF FinishFailedRound, StageInv, DataInv
<1>6. WorkerInv'
  BY <1>1, WorkerSleeps DEF FinishFailedRound, authority, WorkerInv
<1>. QED  BY <1>2, <1>3, <1>4, <1>5, <1>6 DEF ChainInv

LEMMA SessionEndsKeeps ==
    ASSUME HandoffInv, BindingInv', SessionEnds, UNCHANGED handoffVars
    PROVE  ChainInv' /\ WorkerInv'
<1>. BindingInv /\ StageInv /\ SessionInv /\ AnswerInv /\ DataInv /\ WorkerInv
  BY DEF HandoffInv, ChainInv
<1>1. UNCHANGED authority
  BY DEF authority, bindingVars, ledgerVars, SessionEnds
<1>2. StageInv'
  BY DEF SessionEnds, StageInv
<1>3. SessionInv'
  BY <1>1 DEF SessionEnds, authority, StageInv, SessionInv
<1>4. AnswerInv'
  BY DEF SessionEnds, StagedAnswer, StageInv, AnswerInv, DataInv, Gone
<1>5. DataInv'
  BY <1>1 DEF SessionEnds, StagedAnswer, StageInv, DataInv
<1>6. WorkerInv'
  BY <1>1, WorkerSleeps DEF SessionEnds, authority, SessionInv, WorkerInv
<1>. QED  BY <1>2, <1>3, <1>4, <1>5, <1>6 DEF ChainInv

LEMMA SessionEndFailsKeeps ==
    ASSUME HandoffInv, BindingInv', SessionEndFails, UNCHANGED handoffVars
    PROVE  ChainInv' /\ WorkerInv'
<1>. BindingInv /\ StageInv /\ SessionInv /\ AnswerInv /\ DataInv /\ WorkerInv
  BY DEF HandoffInv, ChainInv
<1>1. UNCHANGED authority
  BY DEF authority, bindingVars, ledgerVars, SessionEndFails
<1>2. StageInv'
  BY DEF SessionEndFails, StageInv
<1>3. SessionInv'
  BY <1>1 DEF SessionEndFails, authority, SessionInv
<1>4. AnswerInv'
  BY DEF SessionEndFails, AnswerInv
<1>5. DataInv'
  BY <1>1 DEF SessionEndFails, StageInv, DataInv
<1>6. WorkerInv'
  BY <1>1, WorkerSleeps DEF SessionEndFails, authority, WorkerInv
<1>. QED  BY <1>2, <1>3, <1>4, <1>5, <1>6 DEF ChainInv

LEMMA HandOffKeeps ==
    ASSUME HandoffInv, BindingInv', HandOff, UNCHANGED handoffVars
    PROVE  ChainInv' /\ WorkerInv'
<1>. BindingInv /\ StageInv /\ SessionInv /\ AnswerInv /\ DataInv /\ WorkerInv
  BY DEF HandoffInv, ChainInv
<1>1. /\ phase = "OPEN" /\ phase' = "SEALED_COMMIT_UNKNOWN" /\ unknownCommit' = TRUE
      /\ UNCHANGED <<executionCommand, abortGroup, confirmationCommand, confirmed, result>>
  BY UnknownActs DEF authority, HandOff
<1>2. StageInv'
  BY DEF HandOff, StageInv
<1>3. SessionInv'
  BY <1>1 DEF HandOff, StageInv, SessionInv
<1>4. AnswerInv'
  BY DEF HandOff, AnswerInv
<1>5. DataInv'
  BY <1>1 DEF HandOff, StageInv, DataInv
<1>6. WorkerInv'
  BY <1>1, WorkerSleeps DEF HandOff, StageInv, WorkerInv
<1>. QED  BY <1>2, <1>3, <1>4, <1>5, <1>6 DEF ChainInv

LEMMA HandOffFailsKeeps ==
    ASSUME HandoffInv, BindingInv', HandOffFails, UNCHANGED handoffVars
    PROVE  ChainInv' /\ WorkerInv'
<1>. BindingInv /\ StageInv /\ SessionInv /\ AnswerInv /\ DataInv /\ WorkerInv
  BY DEF HandoffInv, ChainInv
<1>1. UNCHANGED authority
  BY ThrowsNothing DEF authority, HandOffFails
<1>2. StageInv'
  BY DEF HandOffFails, StageInv
<1>3. SessionInv'
  BY <1>1 DEF HandOffFails, authority, StageInv, SessionInv
<1>4. AnswerInv'
  BY DEF HandOffFails, StageInv, AnswerInv
<1>5. DataInv'
  BY <1>1 DEF HandOffFails, StageInv, DataInv
<1>6. WorkerInv'
  BY <1>1, WorkerSleeps DEF HandOffFails, authority, WorkerInv
<1>. QED  BY <1>2, <1>3, <1>4, <1>5, <1>6 DEF ChainInv

LEMMA SealKeeps ==
    ASSUME HandoffInv, BindingInv', Seal, UNCHANGED handoffVars
    PROVE  ChainInv' /\ WorkerInv'
<1>. BindingInv /\ StageInv /\ SessionInv /\ AnswerInv /\ DataInv /\ WorkerInv
  BY DEF HandoffInv, ChainInv
<1>1. UNCHANGED authority
  BY DEF authority, bindingVars, ledgerVars, Seal
<1>2. StageInv'
  BY DEF Seal, StageInv
<1>3. SessionInv'
  BY <1>1 DEF Seal, authority, SessionInv
<1>4. AnswerInv'
  BY DEF Seal, AnswerInv
<1>5. DataInv'
  BY <1>1 DEF Seal, StageInv, DataInv
<1>6. WorkerInv'
  BY <1>1, WorkerSleeps DEF Seal, authority, WorkerInv
<1>. QED  BY <1>2, <1>3, <1>4, <1>5, <1>6 DEF ChainInv

LEMMA SealRefusedKeeps ==
    ASSUME HandoffInv, BindingInv', SealRefused, UNCHANGED handoffVars
    PROVE  ChainInv' /\ WorkerInv'
<1>. BindingInv /\ StageInv /\ SessionInv /\ AnswerInv /\ DataInv /\ WorkerInv
  BY DEF HandoffInv, ChainInv
<1>1. UNCHANGED authority
  BY DEF authority, bindingVars, ledgerVars, SealRefused
<1>2. StageInv'
  BY DEF SealRefused, TerminationFails, StageInv
<1>3. SessionInv'
  BY <1>1 DEF SealRefused, authority, StageInv, SessionInv
<1>4. AnswerInv'
  BY DEF SealRefused, TerminationFails, StageInv, AnswerInv
<1>5. DataInv'
  BY <1>1 DEF SealRefused, TerminationFails, StageInv, DataInv
<1>6. WorkerInv'
  BY <1>1, WorkerSleeps DEF SealRefused, authority, WorkerInv
<1>. QED  BY <1>2, <1>3, <1>4, <1>5, <1>6 DEF ChainInv

LEMMA FinishSealedRoundKeeps ==
    ASSUME HandoffInv, BindingInv', FinishSealedRound, UNCHANGED handoffVars
    PROVE  ChainInv' /\ WorkerInv'
<1>. BindingInv /\ StageInv /\ SessionInv /\ AnswerInv /\ DataInv /\ WorkerInv
  BY DEF HandoffInv, ChainInv
<1>1. /\ UNCHANGED authority
      /\ FinishRound => ~executionCommand.active
  BY RoundsAct, ThrowsNothing DEF authority, FinishSealedRound
<1>2. StageInv'
  BY <1>1 DEF FinishSealedRound, TerminationFails, authority, StageInv
<1>3. SessionInv'
  BY <1>1 DEF FinishSealedRound, authority, StageInv, SessionInv
<1>4. AnswerInv'
  BY DEF FinishSealedRound, TerminationFails, StageInv, AnswerInv
<1>5. DataInv'
  BY <1>1 DEF FinishSealedRound, TerminationFails, StageInv, DataInv
<1>6. WorkerInv'
  BY <1>1, WorkerSleeps DEF FinishSealedRound, authority, WorkerInv
<1>. QED  BY <1>2, <1>3, <1>4, <1>5, <1>6 DEF ChainInv

LEMMA OpenAbortWindowKeeps ==
    ASSUME HandoffInv, BindingInv', OpenAbortWindow, UNCHANGED handoffVars
    PROVE  ChainInv' /\ WorkerInv'
<1>. BindingInv /\ StageInv /\ SessionInv /\ AnswerInv /\ DataInv /\ WorkerInv
  BY DEF HandoffInv, ChainInv
<1>1. /\ UNCHANGED <<executionCommand, abortGroup, unknownCommit, confirmationCommand,
                     confirmed, result>>
      /\ phase' = phase \/ phase = "OPEN"
  BY PrecommitActs, ThrowsNothing DEF authority, OpenAbortWindow
<1>2. StageInv'
  BY <1>1 DEF OpenAbortWindow, TerminationFails, StageInv
<1>3. SessionInv'
  BY <1>1 DEF OpenAbortWindow, StageInv, SessionInv
<1>4. AnswerInv'
  BY DEF OpenAbortWindow, TerminationFails, StageInv, AnswerInv
<1>5. DataInv'
  BY <1>1 DEF OpenAbortWindow, TerminationFails, StageInv, DataInv
<1>6. WorkerInv'
  BY <1>1, WorkerSleeps DEF OpenAbortWindow, WorkerInv
<1>. QED  BY <1>2, <1>3, <1>4, <1>5, <1>6 DEF ChainInv

LEMMA ReserveAbortKeeps ==
    ASSUME HandoffInv, BindingInv', ReserveAbort, UNCHANGED handoffVars
    PROVE  ChainInv' /\ WorkerInv'
<1>. BindingInv /\ StageInv /\ SessionInv /\ AnswerInv /\ DataInv /\ WorkerInv
  BY DEF HandoffInv, ChainInv
<1>1. /\ UNCHANGED <<executionCommand, confirming, phase, unknownCommit, confirmationCommand,
                     confirmed, result>>
      /\ abortGroup' = abortGroup \/ (abortGroup'.commands = 0 /\ abortGroup'.inFlight = FALSE)
      /\ ReserveAbortGroup => abortGroup'.commands = 0 /\ abortGroup'.inFlight = FALSE
  BY AbortActs, ThrowsNothing DEF authority, ReserveAbort
<1>2. StageInv'
  BY <1>1 DEF ReserveAbort, TerminationFails, StageInv
<1>3. SessionInv'
  BY <1>1 DEF ReserveAbort, StageInv, SessionInv
<1>4. AnswerInv'
  BY DEF ReserveAbort, TerminationFails, StageInv, AnswerInv
<1>5. DataInv'
  BY <1>1 DEF ReserveAbort, TerminationFails, StageInv, DataInv
<1>6. WorkerInv'
  BY <1>1, WorkerSleeps DEF ReserveAbort, WorkerInv
<1>. QED  BY <1>2, <1>3, <1>4, <1>5, <1>6 DEF ChainInv

LEMMA SendAbortKeeps ==
    ASSUME HandoffInv, BindingInv', SendAbort, UNCHANGED handoffVars
    PROVE  ChainInv' /\ WorkerInv'
<1>. BindingInv /\ StageInv /\ SessionInv /\ AnswerInv /\ DataInv /\ WorkerInv
  BY DEF HandoffInv, ChainInv
<1>1. /\ UNCHANGED <<executionCommand, confirming, phase, unknownCommit, confirmationCommand,
                     confirmed, result>>
      /\ \/ abortGroup' = abortGroup
         \/ /\ abortGroup'.commands = abortGroup.commands + 1
            /\ abortGroup'.inFlight = TRUE
  BY AbortActs, ThrowsNothing DEF authority, SendAbort
<1>2. StageInv'
  BY <1>1 DEF SendAbort, TerminationFails, StageInv
<1>3. SessionInv'
  BY <1>1 DEF SendAbort, StageInv, SessionInv
<1>4. AnswerInv'
  BY DEF SendAbort, TerminationFails, StageInv, AnswerInv
<1>5. DataInv'
  BY <1>1 DEF SendAbort, TerminationFails, StageInv, DataInv
<1>6. WorkerInv'
  BY <1>1, WorkerSleeps DEF SendAbort, WorkerInv
<1>. QED  BY <1>2, <1>3, <1>4, <1>5, <1>6 DEF ChainInv

LEMMA AbortAnsweredKeeps ==
    ASSUME HandoffInv, BindingInv', AbortAnswered, UNCHANGED handoffVars
    PROVE  ChainInv' /\ WorkerInv'
<1>. BindingInv /\ StageInv /\ SessionInv /\ AnswerInv /\ DataInv /\ WorkerInv
  BY DEF HandoffInv, ChainInv
<1>1. /\ UNCHANGED <<executionCommand, confirming, phase, unknownCommit, confirmationCommand,
                     confirmed, result>>
      /\ abortGroup'.commands = abortGroup.commands /\ abortGroup'.inFlight = FALSE
  BY AbortActs DEF authority, AbortAnswered
<1>2. StageInv'
  BY <1>1 DEF AbortAnswered, StageInv
<1>3. SessionInv'
  BY <1>1 DEF AbortAnswered, SessionInv
<1>4. AnswerInv'
  BY DEF AbortAnswered, StageInv, AnswerInv
<1>5. DataInv'
  BY <1>1 DEF AbortAnswered, StageInv, DataInv
<1>6. WorkerInv'
  BY <1>1, WorkerSleeps DEF AbortAnswered, WorkerInv
<1>. QED  BY <1>2, <1>3, <1>4, <1>5, <1>6 DEF ChainInv

LEMMA AbortUnsettledKeeps ==
    ASSUME HandoffInv, BindingInv', AbortUnsettled, UNCHANGED handoffVars
    PROVE  ChainInv' /\ WorkerInv'
<1>. BindingInv /\ StageInv /\ SessionInv /\ AnswerInv /\ DataInv /\ WorkerInv
  BY DEF HandoffInv, ChainInv
<1>1. UNCHANGED authority
  BY SurroundingsAct DEF authority, bindingVars, ledgerVars, AbortUnsettled
<1>2. StageInv'
  BY DEF AbortUnsettled, TerminationFails, StageInv
<1>3. SessionInv'
  BY <1>1 DEF AbortUnsettled, authority, StageInv, SessionInv
<1>4. AnswerInv'
  BY DEF AbortUnsettled, TerminationFails, StageInv, AnswerInv
<1>5. DataInv'
  BY <1>1 DEF AbortUnsettled, TerminationFails, StageInv, DataInv
<1>6. WorkerInv'
  BY <1>1, WorkerSleeps DEF AbortUnsettled, authority, WorkerInv
<1>. QED  BY <1>2, <1>3, <1>4, <1>5, <1>6 DEF ChainInv

LEMMA SettleTerminationKeeps ==
    ASSUME HandoffInv, BindingInv', SettleTermination, UNCHANGED handoffVars
    PROVE  ChainInv' /\ WorkerInv'
<1>. BindingInv /\ StageInv /\ SessionInv /\ AnswerInv /\ DataInv /\ WorkerInv
  BY DEF HandoffInv, ChainInv
<1>1. /\ UNCHANGED <<executionCommand, confirming, unknownCommit, confirmationCommand, confirmed>>
      /\ abortGroup'.commands = abortGroup.commands /\ abortGroup'.inFlight = abortGroup.inFlight
      /\ UNCHANGED <<phase, result>> \/ (phase' = "TERMINATED" /\ result' = outcome)
  BY TerminateActs, ThrowsNothing DEF authority, SettleTermination
<1>2. StageInv'
  BY <1>1 DEF SettleTermination, TerminationFails, StageInv
<1>3. SessionInv'
  BY <1>1 DEF SettleTermination, StageInv, SessionInv
<1>4. AnswerInv'
  BY DEF SettleTermination, TerminationFails, StageInv, AnswerInv
<1>5. DataInv'
  BY <1>1 DEF SettleTermination, TerminationFails, StageInv, DataInv
<1>6. WorkerInv'
  BY <1>1, WorkerSleeps DEF SettleTermination, StageInv, WorkerInv
<1>. QED  BY <1>2, <1>3, <1>4, <1>5, <1>6 DEF ChainInv

LEMMA CleanUpKeeps ==
    ASSUME HandoffInv, BindingInv', CleanUp, UNCHANGED handoffVars
    PROVE  ChainInv' /\ WorkerInv'
<1>. BindingInv /\ StageInv /\ SessionInv /\ AnswerInv /\ DataInv /\ WorkerInv
  BY DEF HandoffInv, ChainInv
<1>1. UNCHANGED authority
  BY DEF authority, bindingVars, ledgerVars, CleanUp
<1>2. StageInv'
  BY DEF CleanUp, StageInv
<1>3. SessionInv'
  BY <1>1 DEF CleanUp, authority, StageInv, SessionInv
<1>4. AnswerInv'
  BY DEF CleanUp, AnswerInv, Gone
<1>5. DataInv'
  BY <1>1 DEF CleanUp, StageInv, DataInv
<1>6. WorkerInv'
  BY <1>1, WorkerSleeps DEF CleanUp, authority, SessionInv, WorkerInv
<1>. QED  BY <1>2, <1>3, <1>4, <1>5, <1>6 DEF ChainInv

LEMMA CleanUpFailsKeeps ==
    ASSUME HandoffInv, BindingInv', CleanUpFails, UNCHANGED handoffVars
    PROVE  ChainInv' /\ WorkerInv'
<1>. BindingInv /\ StageInv /\ SessionInv /\ AnswerInv /\ DataInv /\ WorkerInv
  BY DEF HandoffInv, ChainInv
<1>1. UNCHANGED authority
  BY DEF authority, bindingVars, ledgerVars, CleanUpFails
<1>2. StageInv'
  BY DEF CleanUpFails, TerminationFails, StageInv
<1>3. SessionInv'
  BY <1>1 DEF CleanUpFails, authority, StageInv, SessionInv
<1>4. AnswerInv'
  BY DEF CleanUpFails, TerminationFails, StageInv, AnswerInv
<1>5. DataInv'
  BY <1>1 DEF CleanUpFails, TerminationFails, StageInv, DataInv
<1>6. WorkerInv'
  BY <1>1, WorkerSleeps DEF CleanUpFails, authority, WorkerInv
<1>. QED  BY <1>2, <1>3, <1>4, <1>5, <1>6 DEF ChainInv

LEMMA LeaveAdapterKeeps ==
    ASSUME HandoffInv, BindingInv', LeaveAdapter, UNCHANGED handoffVars
    PROVE  ChainInv' /\ WorkerInv'
<1>. BindingInv /\ StageInv /\ SessionInv /\ AnswerInv /\ DataInv /\ WorkerInv
  BY DEF HandoffInv, ChainInv
<1>1. UNCHANGED authority
  BY DEF authority, bindingVars, ledgerVars, LeaveAdapter
<1>2. StageInv'
  BY DEF LeaveAdapter, StageInv
<1>3. SessionInv'
  BY <1>1 DEF LeaveAdapter, authority, SessionInv
<1>4. AnswerInv'
  BY DEF LeaveAdapter, SessionInv, AnswerInv, Gone
<1>5. DataInv'
  BY <1>1 DEF LeaveAdapter, StageInv, DataInv
<1>6. WorkerInv'
  BY <1>1, WorkerSleeps DEF LeaveAdapter, authority, WorkerInv
<1>. QED  BY <1>2, <1>3, <1>4, <1>5, <1>6 DEF ChainInv

LEMMA RecheckKeeps ==
    ASSUME HandoffInv, BindingInv', Recheck, UNCHANGED handoffVars
    PROVE  ChainInv' /\ WorkerInv'
<1>. BindingInv /\ StageInv /\ SessionInv /\ AnswerInv /\ DataInv /\ WorkerInv
  BY DEF HandoffInv, ChainInv
<1>1. UNCHANGED authority
  BY DEF authority, bindingVars, ledgerVars, Recheck
<1>2. StageInv'
  BY DEF Recheck, StageInv
<1>3. SessionInv'
  BY <1>1 DEF Recheck, authority, SessionInv
<1>4. AnswerInv'
  BY DEF Recheck, StageInv, AnswerInv, DataInv, Gone
<1>5. DataInv'
  BY <1>1 DEF Recheck, StageInv, DataInv
<1>6. WorkerInv'
  BY <1>1, WorkerSleeps DEF Recheck, authority, WorkerInv
<1>. QED  BY <1>2, <1>3, <1>4, <1>5, <1>6 DEF ChainInv

LEMMA CloseScopeKeeps ==
    ASSUME HandoffInv, BindingInv', CloseScope, UNCHANGED handoffVars
    PROVE  ChainInv' /\ WorkerInv'
<1>. BindingInv /\ StageInv /\ SessionInv /\ AnswerInv /\ DataInv /\ WorkerInv
  BY DEF HandoffInv, ChainInv
<1>1. UNCHANGED authority
  BY DEF authority, bindingVars, ledgerVars, CloseScope
<1>2. StageInv'
  BY <1>1 DEF CloseScope, authority, StageInv, SessionInv, AnswerInv, Gone
<1>3. SessionInv'
  BY <1>1 DEF CloseScope, authority, SessionInv
<1>4. AnswerInv'
  BY DEF CloseScope, AnswerInv, Gone
<1>5. DataInv'
  BY <1>1 DEF CloseScope, StageInv, DataInv
<1>6. WorkerInv'
  BY <1>1, WorkerSleeps DEF CloseScope, authority, WorkerInv
<1>. QED  BY <1>2, <1>3, <1>4, <1>5, <1>6 DEF ChainInv

LEMMA DisposeKeeps ==
    ASSUME HandoffInv, BindingInv', Dispose, UNCHANGED handoffVars
    PROVE  ChainInv' /\ WorkerInv'
<1>. BindingInv /\ StageInv /\ SessionInv /\ AnswerInv /\ DataInv /\ WorkerInv
  BY DEF HandoffInv, ChainInv
<1>1. UNCHANGED authority
  BY DEF authority, bindingVars, ledgerVars, Dispose
<1>2. StageInv'
  BY DEF Dispose, StageInv
<1>3. SessionInv'
  BY <1>1 DEF Dispose, authority, SessionInv
<1>4. AnswerInv'
  BY DEF Dispose, Persisted, NoEffect, AnswerInv, Gone
<1>5. DataInv'
  BY <1>1 DEF Dispose, Persisted, NoEffect, StageInv, DataInv
<1>6. WorkerInv'
  BY <1>1, WorkerSleeps DEF Dispose, authority, WorkerInv
<1>. QED  BY <1>2, <1>3, <1>4, <1>5, <1>6 DEF ChainInv


\* The server, the clock and the loss of the owner.
LEMMA SurroundingsKeep ==
    ASSUME HandoffInv, BindingInv', Surroundings, UNCHANGED handoffVars
    PROVE  ChainInv' /\ WorkerInv'
<1>. BindingInv /\ ChainInv /\ StageInv /\ SessionInv /\ AnswerInv /\ DataInv /\ WorkerInv
  BY DEF HandoffInv, ChainInv
<1>1. UNCHANGED authority /\ UNCHANGED <<kind, stage, chainVars, resultVars, writes, seen>>
  BY SurroundingsAct DEF Surroundings, ServerCommits, ServerAborts, StrayWrite, authority,
     bindingVars, ledgerVars
<1>2. \/ UNCHANGED <<server, stored>>
      \/ server = "SENT" /\ server' = "COMMITTED" /\ stored' = IF writes THEN "SAME" ELSE stored
      \/ server \in {"OPEN", "SENT"} /\ server' = "ABORTED" /\ stored' = stored
      \/ /\ kind = "RECOGNITION" /\ stored = "NONE" /\ ~(writes /\ server \in {"OPEN", "SENT"})
         /\ stored' \in {"SAME", "OTHER"} /\ server' = server
  BY DEF Surroundings, ServerCommits, ServerAborts, StrayWrite
<1>3. StageInv'
  BY <1>1, <1>2 DEF authority, StageInv, SessionInv
<1>4. SessionInv'
  BY <1>1, <1>2 DEF authority, SessionInv
<1>5. AnswerInv'
  BY <1>1, <1>2 DEF authority, AnswerInv, DataInv, Gone, Persisted, NoEffect
<1>6. DataInv'
  BY <1>1, <1>2 DEF authority, DataInv, StageInv
<1>7. WorkerInv'
  BY <1>1, <1>2 DEF authority, handoffVars, workerVars, WorkerInv, Sending, Matching
<1>. QED  BY <1>3, <1>4, <1>5, <1>6, <1>7 DEF ChainInv

-----------------------------------------------------------------------------
(* The hand-off, action by action. *)

\* A write that is disposed of stays as it is, its server apart, which the taker may
\* send the original commit again.
LEMMA ChainRests ==
    ASSUME ChainInv, stage = "DONE", handoff = "OPEN", WriteStays, SessionStays,
           UNCHANGED <<executionCommand, confirming, phase, abortGroup, unknownCommit>>,
           server' = server \/ (server = "OPEN" /\ server' = "SENT")
    PROVE  ChainInv'
<1>. StageInv /\ SessionInv /\ AnswerInv /\ DataInv
  BY DEF ChainInv
<1>1. StageInv'
  BY DEF WriteStays, SessionStays, StageInv
<1>2. SessionInv'
  BY DEF WriteStays, SessionStays, SessionInv
<1>3. AnswerInv'
  BY DEF WriteStays, SessionStays, AnswerInv, Gone, Persisted, NoEffect
<1>4. DataInv'
  BY DEF WriteStays, SessionStays, SessionInv, DataInv
<1>. QED  BY <1>1, <1>2, <1>3, <1>4 DEF ChainInv

LEMMA TakeKeeps ==
    ASSUME HandoffInv, BindingInv', Take
    PROVE  ChainInv' /\ WorkerInv'
<1>. BindingInv /\ ChainInv /\ StageInv /\ SessionInv /\ AnswerInv /\ DataInv /\ WorkerInv
  BY DEF HandoffInv, ChainInv
<1>1. UNCHANGED authority
  BY DEF Take, ConfirmationIsCurrent, authority, bindingVars, ledgerVars
<1>2. stage = "DONE" /\ handoff = "OPEN"
  BY DEF Take, Taken, Retained, Sending, WorkerInv
<1>3. ChainInv'
  BY <1>1, <1>2, ChainRests DEF Take, Taken, Retained, authority
<1>4. WorkerInv'
  BY <1>1, <1>2 DEF Take, WriteStays, SessionStays, authority, workerVars, WorkerInv, Sending,
     Matching
<1>. QED  BY <1>3, <1>4

LEMMA OwnerIsStaleKeeps ==
    ASSUME HandoffInv, BindingInv', OwnerIsStale
    PROVE  ChainInv' /\ WorkerInv'
<1>. BindingInv /\ ChainInv /\ StageInv /\ SessionInv /\ AnswerInv /\ DataInv /\ WorkerInv
  BY DEF HandoffInv, ChainInv
<1>1. UNCHANGED authority
  BY SurroundingsAct DEF OwnerIsStale, authority
<1>2. stage = "DONE" /\ handoff = "OPEN"
  BY DEF OwnerIsStale, Taken, Retained, Sending, WorkerInv
<1>3. ChainInv'
  BY <1>1, <1>2, ChainRests DEF OwnerIsStale, Taken, Retained, authority
<1>4. WorkerInv'
  BY <1>1 DEF OwnerIsStale, WriteStays, SessionStays, authority, handoffVars, workerVars,
     WorkerInv, Sending, Matching
<1>. QED  BY <1>3, <1>4

LEMMA CreateTerminatorKeeps ==
    ASSUME HandoffInv, BindingInv', CreateTerminator
    PROVE  ChainInv' /\ WorkerInv'
<1>. BindingInv /\ ChainInv /\ StageInv /\ SessionInv /\ AnswerInv /\ DataInv /\ WorkerInv
  BY DEF HandoffInv, ChainInv
<1>1. UNCHANGED authority
  BY DEF CreateTerminator, BindingIsCurrent, authority, bindingVars, ledgerVars
<1>2. stage = "DONE" /\ handoff = "OPEN"
  BY DEF CreateTerminator, Taken, Retained, Sending, WorkerInv
<1>3. ChainInv'
  BY <1>1, <1>2, ChainRests DEF CreateTerminator, Taken, Retained, authority
<1>4. WorkerInv'
  BY <1>1, <1>2 DEF CreateTerminator, WriteStays, SessionStays, authority, WorkerInv, Sending,
     Matching
<1>. QED  BY <1>3, <1>4

LEMMA AttemptOriginalCommitKeeps ==
    ASSUME HandoffInv, BindingInv', AttemptOriginalCommit
    PROVE  ChainInv' /\ WorkerInv'
<1>. BindingInv /\ ChainInv /\ StageInv /\ SessionInv /\ AnswerInv /\ DataInv /\ WorkerInv
  BY DEF HandoffInv, ChainInv
<1>1. /\ UNCHANGED <<executionCommand, confirming, phase, abortGroup, unknownCommit>>
      /\ ~confirmationCommand.active /\ ~confirmed /\ confirmationCommand'.active
      /\ UNCHANGED <<confirmed, result>>
  BY ConfirmationsAct DEF AttemptOriginalCommit, authority, SettleAs
<1>2. stage = "DONE" /\ handoff = "OPEN"
  BY DEF AttemptOriginalCommit, Taken, Retained, Sending, WorkerInv
<1>3. ChainInv'
  BY <1>1, <1>2, ChainRests DEF AttemptOriginalCommit, Taken, Retained, authority
<1>4. WorkerInv'
  BY <1>1 DEF AttemptOriginalCommit, Taken, WriteStays, SessionStays, WorkerInv
<1>. QED  BY <1>3, <1>4

LEMMA AttemptRefusedKeeps ==
    ASSUME HandoffInv, BindingInv', AttemptRefused
    PROVE  ChainInv' /\ WorkerInv'
<1>. BindingInv /\ ChainInv /\ StageInv /\ SessionInv /\ AnswerInv /\ DataInv /\ WorkerInv
  BY DEF HandoffInv, ChainInv
<1>1. UNCHANGED authority
  BY ThrowsNothing DEF AttemptRefused, authority, bindingVars, ledgerVars
<1>2. stage = "DONE" /\ handoff = "OPEN"
  BY DEF AttemptRefused, Taken, Retained, Sending, WorkerInv
<1>3. ChainInv'
  BY <1>1, <1>2, ChainRests DEF AttemptRefused, Taken, Retained, authority
<1>4. WorkerInv'
  BY <1>1 DEF AttemptRefused, WriteStays, SessionStays, authority, WorkerInv, Sending, Matching
<1>. QED  BY <1>3, <1>4

LEMMA GiveBackKeeps ==
    ASSUME HandoffInv, BindingInv', GiveBack
    PROVE  ChainInv' /\ WorkerInv'
<1>. BindingInv /\ ChainInv /\ StageInv /\ SessionInv /\ AnswerInv /\ DataInv /\ WorkerInv
  BY DEF HandoffInv, ChainInv
<1>1. /\ UNCHANGED <<executionCommand, confirming, phase, abortGroup, unknownCommit>>
      /\ UNCHANGED authority \/ ~confirmationCommand'.active
      /\ UNCHANGED <<confirmed, result>> \/ (result' = "STILL_UNKNOWN" /\ confirmed' = confirmed)
  BY ConfirmationsAct, ThrowsNothing DEF GiveBack, authority, SettleAs
<1>2. stage = "DONE" /\ handoff = "OPEN"
  BY DEF GiveBack, Taken, Retained, Sending, WorkerInv
<1>3. ChainInv'
  BY <1>1, <1>2, ChainRests DEF GiveBack, Taken, Retained, authority
<1>4. WorkerInv'
  BY <1>1 DEF GiveBack, WriteStays, SessionStays, WorkerInv, Sending, Matching
<1>. QED  BY <1>3, <1>4

LEMMA OriginalCommitAnsweredKeeps ==
    ASSUME HandoffInv, BindingInv', OriginalCommitAnswered
    PROVE  ChainInv' /\ WorkerInv'
<1>. BindingInv /\ ChainInv /\ StageInv /\ SessionInv /\ AnswerInv /\ DataInv /\ WorkerInv
  BY DEF HandoffInv, ChainInv
<1>1. /\ UNCHANGED <<executionCommand, confirming, phase, abortGroup, unknownCommit>>
      /\ unknownCommit /\ ~confirmationCommand'.active
      /\ \/ result' = "STILL_UNKNOWN" /\ confirmed' = confirmed
         \/ result' = "CANONICAL_RESULT" /\ confirmed' = TRUE /\ server = "COMMITTED"
  BY ConfirmationsAct DEF OriginalCommitAnswered, authority, SettleAs
<1>2. stage = "DONE" /\ handoff = "OPEN"
  BY DEF OriginalCommitAnswered, Taken, Retained, Sending, WorkerInv
<1>3. ChainInv'
  BY <1>1, <1>2, ChainRests DEF OriginalCommitAnswered, Taken, Retained, authority
<1>4. WorkerInv'
  BY <1>1 DEF OriginalCommitAnswered, WriteStays, SessionStays, WorkerInv, Sending, Matching,
     DataInv
<1>. QED  BY <1>3, <1>4

LEMMA OriginalCommitUnsettledKeeps ==
    ASSUME HandoffInv, BindingInv', OriginalCommitUnsettled
    PROVE  ChainInv' /\ WorkerInv'
<1>. BindingInv /\ ChainInv /\ StageInv /\ SessionInv /\ AnswerInv /\ DataInv /\ WorkerInv
  BY DEF HandoffInv, ChainInv
<1>1. UNCHANGED authority
  BY ThrowsNothing DEF OriginalCommitUnsettled, authority
<1>2. stage = "DONE" /\ handoff = "OPEN"
  BY DEF OriginalCommitUnsettled, Taken, Retained, Sending, WorkerInv
<1>3. ChainInv'
  BY <1>1, <1>2, ChainRests DEF OriginalCommitUnsettled, Taken, Retained, authority
<1>4. WorkerInv'
  BY <1>1 DEF OriginalCommitUnsettled, WriteStays, SessionStays, authority, WorkerInv,
     Sending, Matching
<1>. QED  BY <1>3, <1>4

LEMMA CreateReaderKeeps ==
    ASSUME HandoffInv, BindingInv', CreateReader
    PROVE  ChainInv' /\ WorkerInv'
<1>. BindingInv /\ ChainInv /\ StageInv /\ SessionInv /\ AnswerInv /\ DataInv /\ WorkerInv
  BY DEF HandoffInv, ChainInv
<1>1. UNCHANGED authority
  BY DEF CreateReader, BindingIsCurrent, authority, bindingVars, ledgerVars
<1>2. stage = "DONE" /\ handoff = "OPEN"
  BY DEF CreateReader, Taken, Retained, Sending, WorkerInv
<1>3. ChainInv'
  BY <1>1, <1>2, ChainRests DEF CreateReader, Taken, Retained, authority
<1>4. WorkerInv'
  BY <1>1, <1>2 DEF CreateReader, WriteStays, SessionStays, authority, WorkerInv, Sending,
     Matching
<1>. QED  BY <1>3, <1>4

LEMMA ConfirmCanonicalReadKeeps ==
    ASSUME HandoffInv, BindingInv', ConfirmCanonicalRead
    PROVE  ChainInv' /\ WorkerInv'
<1>. BindingInv /\ ChainInv /\ StageInv /\ SessionInv /\ AnswerInv /\ DataInv /\ WorkerInv
  BY DEF HandoffInv, ChainInv
<1>1. /\ UNCHANGED <<executionCommand, confirming, phase, abortGroup, unknownCommit>>
      /\ ~confirmationCommand.active /\ ~confirmed /\ confirmationCommand'.active
      /\ UNCHANGED <<confirmed, result>>
  BY ConfirmationsAct DEF ConfirmCanonicalRead, authority, SettleAs
<1>2. stage = "DONE" /\ handoff = "OPEN"
  BY DEF ConfirmCanonicalRead, Taken, Retained, Sending, WorkerInv
<1>3. ChainInv'
  BY <1>1, <1>2, ChainRests DEF ConfirmCanonicalRead, Taken, Retained, authority
<1>4. WorkerInv'
  BY <1>1 DEF ConfirmCanonicalRead, Taken, WriteStays, SessionStays, WorkerInv, Sending,
     Material
<1>. QED  BY <1>3, <1>4

LEMMA CanonicalReadAnsweredKeeps ==
    ASSUME HandoffInv, BindingInv', CanonicalReadAnswered
    PROVE  ChainInv' /\ WorkerInv'
<1>. BindingInv /\ ChainInv /\ StageInv /\ SessionInv /\ AnswerInv /\ DataInv /\ WorkerInv
  BY DEF HandoffInv, ChainInv
<1>1. /\ UNCHANGED <<executionCommand, confirming, phase, abortGroup, unknownCommit>>
      /\ unknownCommit /\ ~confirmationCommand'.active
      /\ \/ result' = "STILL_UNKNOWN" /\ confirmed' = confirmed
         \/ result' = "CANONICAL_RESULT" /\ confirmed' = TRUE /\ Matching
  BY ConfirmationsAct DEF CanonicalReadAnswered, authority, SettleAs
<1>2. stage = "DONE" /\ handoff = "OPEN"
  BY DEF CanonicalReadAnswered, Taken, Retained, Sending, WorkerInv
<1>3. ChainInv'
  BY <1>1, <1>2, ChainRests DEF CanonicalReadAnswered, Taken, Retained, authority
<1>4. WorkerInv'
  BY <1>1 DEF CanonicalReadAnswered, WriteStays, SessionStays, WorkerInv, Sending, Matching
<1>. QED  BY <1>3, <1>4

LEMMA CanonicalReadUnsettledKeeps ==
    ASSUME HandoffInv, BindingInv', CanonicalReadUnsettled
    PROVE  ChainInv' /\ WorkerInv'
<1>. BindingInv /\ ChainInv /\ StageInv /\ SessionInv /\ AnswerInv /\ DataInv /\ WorkerInv
  BY DEF HandoffInv, ChainInv
<1>1. UNCHANGED authority
  BY ThrowsNothing DEF CanonicalReadUnsettled, authority
<1>2. stage = "DONE" /\ handoff = "OPEN"
  BY DEF CanonicalReadUnsettled, Taken, Retained, Sending, WorkerInv
<1>3. ChainInv'
  BY <1>1, <1>2, ChainRests DEF CanonicalReadUnsettled, Taken, Retained, authority
<1>4. WorkerInv'
  BY <1>1 DEF CanonicalReadUnsettled, WriteStays, SessionStays, authority, WorkerInv, Matching
<1>. QED  BY <1>3, <1>4

LEMMA CreateCleanerKeeps ==
    ASSUME HandoffInv, BindingInv', CreateCleaner
    PROVE  ChainInv' /\ WorkerInv'
<1>. BindingInv /\ ChainInv /\ StageInv /\ SessionInv /\ AnswerInv /\ DataInv /\ WorkerInv
  BY DEF HandoffInv, ChainInv
<1>1. UNCHANGED authority
  BY DEF CreateCleaner, BindingIsCurrent, authority, bindingVars, ledgerVars
<1>2. stage = "DONE" /\ handoff = "OPEN"
  BY DEF CreateCleaner, Taken, Retained, Sending, WorkerInv
<1>3. ChainInv'
  BY <1>1, <1>2, ChainRests DEF CreateCleaner, Taken, Retained, authority
<1>4. WorkerInv'
  BY <1>1 DEF CreateCleaner, Terminal, WriteStays, SessionStays, authority, WorkerInv,
     Sending, Matching, BindingInv, LayersAgree
<1>. QED  BY <1>3, <1>4

LEMMA CreateCleanerEarlyKeeps ==
    ASSUME HandoffInv, BindingInv', CreateCleanerEarly
    PROVE  ChainInv' /\ WorkerInv'
<1>. BindingInv /\ ChainInv /\ StageInv /\ SessionInv /\ AnswerInv /\ DataInv /\ WorkerInv
  BY DEF HandoffInv, ChainInv
<1>1. UNCHANGED authority
  BY SurroundingsAct DEF CreateCleanerEarly, authority
<1>2. stage = "DONE" /\ handoff = "OPEN"
  BY DEF CreateCleanerEarly, Taken, Retained, Sending, WorkerInv
<1>3. ChainInv'
  BY <1>1, <1>2, ChainRests DEF CreateCleanerEarly, Taken, Retained, authority
<1>4. WorkerInv'
  BY <1>1 DEF CreateCleanerEarly, WriteStays, SessionStays, authority, handoffVars,
     workerVars, WorkerInv, Sending, Matching
<1>. QED  BY <1>3, <1>4

LEMMA ReleaseSessionKeeps ==
    ASSUME HandoffInv, BindingInv', ReleaseSession
    PROVE  ChainInv' /\ WorkerInv'
<1>. BindingInv /\ ChainInv /\ StageInv /\ SessionInv /\ AnswerInv /\ DataInv /\ WorkerInv
  BY DEF HandoffInv, ChainInv
<1>1. UNCHANGED authority
  BY DEF ReleaseSession, BindingIsCurrent, authority, bindingVars, ledgerVars
<1>2. stage = "DONE" /\ handoff = "OPEN"
  BY DEF ReleaseSession, Taken, Retained, Sending, WorkerInv
<1>3. ChainInv'
  BY <1>1, <1>2 DEF ReleaseSession, WriteStays, authority, ChainInv, StageInv, SessionInv,
     AnswerInv, DataInv
<1>4. WorkerInv'
  BY <1>1 DEF ReleaseSession, WriteStays, authority, WorkerInv, Sending, Matching
<1>. QED  BY <1>3, <1>4

LEMMA ReleaseRefusedKeeps ==
    ASSUME HandoffInv, BindingInv', ReleaseRefused
    PROVE  ChainInv' /\ WorkerInv'
<1>. BindingInv /\ ChainInv /\ StageInv /\ SessionInv /\ AnswerInv /\ DataInv /\ WorkerInv
  BY DEF HandoffInv, ChainInv
<1>1. UNCHANGED authority
  BY ThrowsNothing DEF ReleaseRefused, BindingIsCurrent, authority, bindingVars, ledgerVars
<1>2. stage = "DONE" /\ handoff = "OPEN"
  BY DEF ReleaseRefused, Taken, Retained, Sending, WorkerInv
<1>3. ChainInv'
  BY <1>1, <1>2, ChainRests DEF ReleaseRefused, Taken, Retained, authority
<1>4. WorkerInv'
  BY <1>1 DEF ReleaseRefused, WriteStays, authority, WorkerInv, Sending, Matching
<1>. QED  BY <1>3, <1>4

LEMMA SessionReleasedKeeps ==
    ASSUME HandoffInv, BindingInv', SessionReleased
    PROVE  ChainInv' /\ WorkerInv'
<1>. BindingInv /\ ChainInv /\ StageInv /\ SessionInv /\ AnswerInv /\ DataInv /\ WorkerInv
  BY DEF HandoffInv, ChainInv
<1>1. UNCHANGED authority
  BY DEF SessionReleased, authority, bindingVars, ledgerVars
<1>2. stage = "DONE" /\ handoff = "OPEN"
  BY DEF SessionReleased, Taken, Retained, Sending, WorkerInv
<1>3. ChainInv'
  BY <1>1 DEF SessionReleased, WriteStays, authority, ChainInv, StageInv, SessionInv,
     AnswerInv, DataInv, WorkerInv, BindingInv, Boundary, LayersAgree
<1>4. WorkerInv'
  BY <1>1 DEF SessionReleased, WriteStays, authority, WorkerInv, Sending, Matching
<1>. QED  BY <1>3, <1>4


-----------------------------------------------------------------------------
(* The steps of the whole, and the theorems. *)

\* What the hand-off asks of the binding is what any caller may.
LEMMA HandoffUsesBinding ==
    ASSUME ChainInv, HandoffNext
    PROVE  [BindingNext]_bindingVars
<1>1. CASE Surroundings
  BY <1>1 DEF Surroundings, ServerCommits, ServerAborts, StrayWrite, BindingNext
<1>2. CASE Opening
  BY <1>2, ThrowsNothing DEF Opening, BindAdmission, BindAdmissionRefused, UseScope, OpenFacade,
     OpenRefused, StartTransaction, StartTransactionFails, UndoBegin, BindingIsCurrent,
     BindingNext, Executes
<1>3. CASE Working
  BY <1>3, ThrowsNothing DEF Working, SendCommand, CommandRefused, CommandResolves,
     CommandRejects, CommandUnsettled, RefuseChange, RefuseFace, BindingNext, Executes
<1>4. CASE Committing
  BY <1>4, ThrowsNothing DEF Committing, SendCommit, CommitRefused, CommitResolves,
     CommitRejects, FinishCommittedRound, FinishFailedRound, SessionEnds, SessionEndFails,
     HandOff, HandOffFails, BindingNext, Executes, Terminates
<1>5. CASE Aborting
  <2>1. stage = "SETTLING" => outcome \in {"STILL_UNKNOWN", "NO_EFFECT_CONFIRMED"}
    BY DEF ChainInv, StageInv
  <2>. QED
    BY <1>5, <2>1, ThrowsNothing DEF Aborting, Seal, SealRefused, FinishSealedRound,
       OpenAbortWindow, ReserveAbort, SendAbort, AbortAnswered, AbortUnsettled,
       SettleTermination, CleanUp, CleanUpFails, BindingNext, Executes, Terminates
<1>6. CASE Closing
  BY <1>6 DEF Closing, LeaveAdapter, Recheck, CloseScope, Dispose
<1>7. CASE Take \/ OwnerIsStale \/ CreateTerminator \/ AttemptOriginalCommit \/ AttemptRefused
           \/ GiveBack \/ OriginalCommitAnswered \/ OriginalCommitUnsettled
  BY <1>7, ThrowsNothing DEF Take, OwnerIsStale, CreateTerminator, AttemptOriginalCommit,
     AttemptRefused, GiveBack, OriginalCommitAnswered, OriginalCommitUnsettled, SettleAs,
     BindingIsCurrent, BindingNext, Terminates
<1>8. CASE CreateReader \/ ConfirmCanonicalRead \/ CanonicalReadAnswered
           \/ CanonicalReadUnsettled \/ CreateCleaner \/ CreateCleanerEarly \/ ReleaseSession
           \/ ReleaseRefused \/ SessionReleased
  BY <1>8, ThrowsNothing DEF CreateReader, ConfirmCanonicalRead, CanonicalReadAnswered,
     CanonicalReadUnsettled, CreateCleaner, CreateCleanerEarly, ReleaseSession,
     ReleaseRefused, SessionReleased, SettleAs, BindingIsCurrent, BindingNext, Terminates
<1>. QED
  BY <1>1, <1>2, <1>3, <1>4, <1>5, <1>6, <1>7, <1>8 DEF HandoffNext, Next

LEMMA HandoffStarts == Init /\ HandoffInit => HandoffInv
<1>. SUFFICES ASSUME Init, HandoffInit PROVE HandoffInv
  OBVIOUS
<1>1. BindingInv
  BY BindingStarts DEF Init
<1>2. /\ executionCommand.active = FALSE /\ confirming = FALSE /\ phase = "OPEN"
      /\ abortGroup.commands = 0 /\ abortGroup.inFlight = FALSE
      /\ unknownCommit = FALSE /\ confirmed = FALSE /\ result = "NONE"
  BY DEF Init, BindingInit, Ledger!Init, Ledger!NoCommand
<1>3. StageInv
  BY <1>2 DEF Init, StageInv
<1>4. SessionInv
  BY <1>2 DEF Init, SessionInv
<1>5. AnswerInv
  BY <1>2 DEF Init, AnswerInv
<1>6. DataInv
  BY KindsAssumption DEF Init, DataInv
<1>7. WorkerInv
  BY <1>2 DEF Init, HandoffInit, WorkerInv, Sending
<1>. QED  BY <1>1, <1>3, <1>4, <1>5, <1>6, <1>7 DEF HandoffInv, ChainInv

LEMMA ChainKeeps ==
    ASSUME HandoffInv, BindingInv', Next, UNCHANGED handoffVars
    PROVE  ChainInv' /\ WorkerInv'
<1>1. CASE Opening
  BY <1>1, BindAdmissionKeeps, BindAdmissionRefusedKeeps, UseScopeKeeps, OpenFacadeKeeps,
     OpenRefusedKeeps, StartTransactionKeeps, StartTransactionFailsKeeps, UndoBeginKeeps DEF
     Opening
<1>2. CASE Working
  BY <1>2, SendCommandKeeps, CommandRefusedKeeps, CommandResolvesKeeps, CommandRejectsKeeps,
     CommandUnsettledKeeps, RefuseChangeKeeps, RefuseFaceKeeps DEF Working
<1>3. CASE Committing
  BY <1>3, SendCommitKeeps, CommitRefusedKeeps, CommitResolvesKeeps, CommitRejectsKeeps,
     FinishCommittedRoundKeeps, FinishFailedRoundKeeps, SessionEndsKeeps,
     SessionEndFailsKeeps, HandOffKeeps, HandOffFailsKeeps DEF Committing
<1>4. CASE Aborting
  BY <1>4, SealKeeps, SealRefusedKeeps, FinishSealedRoundKeeps, OpenAbortWindowKeeps,
     ReserveAbortKeeps, SendAbortKeeps, AbortAnsweredKeeps, AbortUnsettledKeeps,
     SettleTerminationKeeps, CleanUpKeeps, CleanUpFailsKeeps DEF Aborting
<1>5. CASE Closing
  BY <1>5, LeaveAdapterKeeps, RecheckKeeps, CloseScopeKeeps, DisposeKeeps DEF Closing
<1>6. CASE Surroundings
  BY <1>6, SurroundingsKeep
<1>. QED  BY <1>1, <1>2, <1>3, <1>4, <1>5, <1>6 DEF Next

LEMMA HandoffKeeps ==
    ASSUME HandoffInv, [HandoffNext]_<<vars, handoffVars>>
    PROVE  HandoffInv'
<1>1. CASE HandoffNext
  <2>1. BindingInv'
    BY <1>1, HandoffUsesBinding, BindingKeeps DEF HandoffInv
  <2>2. CASE Next /\ UNCHANGED handoffVars
    BY <2>1, <2>2, ChainKeeps DEF HandoffInv
  <2>3. CASE Take \/ OwnerIsStale \/ CreateTerminator \/ AttemptOriginalCommit
             \/ AttemptRefused \/ GiveBack \/ OriginalCommitAnswered \/ OriginalCommitUnsettled
    BY <2>1, <2>3, TakeKeeps, OwnerIsStaleKeeps, CreateTerminatorKeeps,
       AttemptOriginalCommitKeeps, AttemptRefusedKeeps, GiveBackKeeps,
       OriginalCommitAnsweredKeeps, OriginalCommitUnsettledKeeps DEF HandoffInv
  <2>4. CASE CreateReader \/ ConfirmCanonicalRead \/ CanonicalReadAnswered
             \/ CanonicalReadUnsettled \/ CreateCleaner \/ CreateCleanerEarly
             \/ ReleaseSession \/ ReleaseRefused \/ SessionReleased
    BY <2>1, <2>4, CreateReaderKeeps, ConfirmCanonicalReadKeeps, CanonicalReadAnsweredKeeps,
       CanonicalReadUnsettledKeeps, CreateCleanerKeeps, CreateCleanerEarlyKeeps,
       ReleaseSessionKeeps, ReleaseRefusedKeeps, SessionReleasedKeeps DEF HandoffInv
  <2>. QED  BY <1>1, <2>2, <2>3, <2>4 DEF HandoffNext
<1>2. CASE UNCHANGED <<vars, handoffVars>>
  <2>1. BindingInv'
    BY <1>2, BindingKeeps DEF HandoffInv, vars
  <2>2. ChainInv'
    BY <1>2 DEF HandoffInv, vars, bindingVars, ledgerVars, ChainInv, StageInv, SessionInv,
       AnswerInv, DataInv, Gone, Persisted, NoEffect
  <2>3. WorkerInv'
    BY <1>2 DEF HandoffInv, vars, bindingVars, ledgerVars, handoffVars, workerVars, WorkerInv,
       Sending, Matching
  <2>. QED  BY <2>1, <2>2, <2>3 DEF HandoffInv
<1>. QED  BY <1>1, <1>2

LEMMA HandoffHolds == HandoffSpec => []HandoffInv
<1>. QED  BY HandoffStarts, HandoffKeeps, PTL DEF HandoffSpec

\* The binding, the termination lifecycle and the ledger tell the same story of a
\* write's boundary, for any order of calls to the binding and whichever of the
\* three is frozen.
THEOREM LayersStayTogether == BindingSpec => []LayersAgree
<1>1. BindingInv => LayersAgree
  BY DEF BindingInv
<1>. QED  BY <1>1, BindingStarts, BindingKeeps, PTL DEF BindingSpec

\* So they do for a write of the adapter and the taker of its hand-off.
THEOREM LayersStayTogetherInUse == HandoffSpec => []LayersAgree
<1>1. HandoffInv => LayersAgree
  BY DEF HandoffInv, BindingInv
<1>. QED  BY <1>1, HandoffHolds, PTL

\* What the coordinator is told of a write is true for ever: one reported
\* persisted is there, one reported without effect has changed nothing and has no
\* commit on its way, although its transaction may have written before it was refused.
THEOREM DispositionsAreTrue == HandoffSpec => []DispositionIsTrue
<1>. SUFFICES ASSUME HandoffInv PROVE DispositionIsTrue
  BY HandoffHolds, PTL
<1>1. StageInv /\ SessionInv /\ AnswerInv /\ DataInv
  BY DEF HandoffInv, ChainInv
<1>2. disposition = "BUSINESS_RESULT_PERSISTED" =>
         IF kind = "RECOGNITION" THEN stored = "SAME" ELSE server = "COMMITTED"
  BY <1>1 DEF AnswerInv, DataInv, Persisted
<1>3. ASSUME disposition = "KNOWN_NO_EFFECT"
      PROVE  ~(writes /\ server \in {"SENT", "COMMITTED"})
  <2>1. NoEffect
    BY <1>1, <1>3 DEF AnswerInv
  <2>2. CASE kind = "MANAGEMENT"
    \* a refusal, before or after writes, is of a change whose commit was never sent
    <3>1. ~invoked
      BY <1>1, <2>1, <2>2 DEF NoEffect, SessionInv
    <3>. QED  BY <1>1, <3>1 DEF DataInv
  <2>3. CASE kind = "RECOGNITION"
    \* the key is somebody else's, and so the attempt's own event is not there
    BY <1>1, <2>1, <2>3 DEF NoEffect, AnswerInv, DataInv
  <2>. QED  BY <1>1, <2>2, <2>3 DEF DataInv
<1>. QED  BY <1>2, <1>3 DEF DispositionIsTrue

\* The client session of a write is ended by one party, with no command of it in
\* flight, and at most one abort is sent, none beside a commit.
THEOREM SessionsEndOnce == HandoffSpec => []SessionEndsOnce
<1>. SUFFICES ASSUME HandoffInv PROVE SessionEndsOnce
  BY HandoffHolds, PTL
<1>1. BindingInv /\ StageInv /\ SessionInv /\ AnswerInv /\ WorkerInv
  BY DEF HandoffInv, ChainInv
<1>2. SessionIsSettled
  BY <1>1 DEF BindingInv, LayersAgree, StageInv, SessionInv, AnswerInv, WorkerInv, DataInv,
     Gone, Persisted, NoEffect, SessionIsSettled
<1>3. AbortsOnce
  BY <1>1 DEF BindingInv, SessionInv, AbortsOnce
<1>. QED  BY <1>2, <1>3 DEF SessionEndsOnce

\* The retained session of a write without an answer is spent once and by one,
\* and what the confirmation says of the write is true.
THEOREM HandoffsAreSpentOnce == HandoffSpec => []HandoffIsSpentOnce
<1>. SUFFICES ASSUME HandoffInv PROVE HandoffIsSpentOnce
  BY HandoffHolds, PTL
<1>. QED
  BY DEF HandoffInv, ChainInv, SessionInv, WorkerInv, Sending, HandoffIsSpentOnce
-----------------------------------------------------------------------------
(* The scopes that plan writes. *)

Facts == {"UNREAD", "ACTIVE", "INACTIVE"}
Resolutions ==
    {"RESOLVED", "INVALID_QR_CREDENTIAL", "FACE_UNKNOWN", "FACE_SUBJECT_NOT_MAPPED",
     "SOURCE_INACTIVE"}
Handles ==
    [op : {"HANDLE"}, scope : RecognitionScopes, media : Media, resolution : Resolutions,
     of : Snapshots]
Waitings == {"SOURCE", "STAGE"} \cup Media
Rereads == [op : {"FRESH", "FRESH_MAPPING"}, by : Handles, effects : BOOLEAN]

ScopeTypes ==
    /\ current \in Snapshots /\ current.qualification # 0
    /\ open \subseteq AccessScopes
    /\ sourceFacts \in [RecognitionScopes -> Facts]
    /\ handles \in [RecognitionScopes -> Handles \cup {Nothing}]
    /\ call \in [AccessScopes -> {Nothing} \cup [op : Waitings] \cup Rereads]
    /\ lived \in [AccessScopes -> SUBSET Snapshots]

\* A handle is of the scope that holds it, which has read its source, and of
\* somebody who was current at that time: a version is current once.
Honest(s, h) ==
    /\ h.scope = s /\ sourceFacts[s] # "UNREAD"
    /\ \/ h.of = Nobody
       \/ /\ h.of.qualification # 0 /\ h.of.qualification <= current.qualification
          /\ h.of.qualification = current.qualification => h.of = current

HandlesAreHonest ==
    \A s \in RecognitionScopes : handles[s] # Nothing => Honest(s, handles[s])

\* While the qualification and the mapping are read again, what is current has
\* been so since the stage was called; after the first of the two the version of
\* the handle is the one that was.
RereadsAreHonest ==
    \A s \in AccessScopes : call[s] \in Rereads =>
        /\ s \in RecognitionScopes
        /\ Honest(s, call[s].by) /\ call[s].by.of # Nobody
        /\ current \in lived[s]
        /\ call[s].op = "FRESH_MAPPING" => call[s].by.of \in lived[s]

\* A scope asks who somebody is once it knows its source.
SourcesAreRead ==
    /\ \A s \in AccessScopes : call[s] \in [op : Media] =>
          s \in RecognitionScopes /\ sourceFacts[s] # "UNREAD"
    /\ staged # Nothing /\ staged.op = "PLAN" => staged.scope \in RecognitionScopes

ScopesInv ==
    ScopeTypes /\ HandlesAreHonest /\ RereadsAreHonest /\ SourcesAreRead /\ PlansAreFresh

\* The three shapes of what a scope waits for.
LEMMA Shapes ==
    /\ Nothing \notin Rereads /\ Nothing \notin Handles
    /\ \A w \in Waitings : Calls(w) \notin Rereads /\ Calls(w) \in [op : Waitings]
    /\ \A c \in Rereads : c # Nothing /\ c \notin [op : Media]
    /\ Nothing \notin [op : Media]
    /\ \A m \in {"SOURCE", "STAGE"} : Calls(m) \notin [op : Media]
    /\ \A c \in {Nothing} \cup [op : Waitings] \cup Rereads :
          c.op \in {"FRESH", "FRESH_MAPPING"} => c \in Rereads
  BY DEF Nothing, Rereads, Handles, Waitings, Calls, Media

LEMMA ScopesStart == ScopesInit => ScopesInv
<1>. SUFFICES ASSUME ScopesInit PROVE ScopesInv
  OBVIOUS
<1>1. current \in Snapshots /\ current.qualification # 0
  BY AccessScopesAssumption DEF ScopesInit, Snapshots
<1>2. ScopeTypes
  BY <1>1 DEF ScopesInit, ScopeTypes, Facts
<1>3. Nothing \notin Rereads
  BY DEF Nothing, Rereads
<1>. QED
  BY <1>2, <1>3, Shapes DEF ScopesInit, ScopesInv, HandlesAreHonest, RereadsAreHonest,
     SourcesAreRead, PlansAreFresh

\* What a handle is made of.
LEMMA HandlesMade ==
    ASSUME ScopeTypes, NEW s \in RecognitionScopes, sourceFacts[s] # "UNREAD",
           NEW media \in Media, NEW resolved \in {current, Nobody}
    PROVE  /\ MakeHandle(s, media, resolved) \in Handles
           /\ Honest(s, MakeHandle(s, media, resolved))
           /\ Claims(s, media, Nobody, "SOURCE_INACTIVE") \in Handles
           /\ Honest(s, Claims(s, media, Nobody, "SOURCE_INACTIVE"))
<1>1. Nobody \in Snapshots
  BY AccessScopesAssumption DEF Nobody, Snapshots
<1>2. current \in Snapshots /\ current.qualification # 0
      /\ current.qualification \in Nat
  BY AccessScopesAssumption DEF ScopeTypes, Snapshots
<1>3. Normalized(media, resolved) \in {current, Nobody}
  BY DEF Normalized
<1>4. \A n : Resolution(media, n) \in Resolutions
  BY DEF Resolution, Resolutions
<1>. DEFINE n == Normalized(media, resolved)
<1>5. MakeHandle(s, media, resolved) = Claims(s, media, n, Resolution(media, n))
  BY DEF MakeHandle
<1>6. \A x \in {current, Nobody}, r \in Resolutions :
         Claims(s, media, x, r) \in Handles /\ Honest(s, Claims(s, media, x, r))
  BY <1>1, <1>2 DEF Claims, Handles, Honest
<1>. QED  BY <1>3, <1>4, <1>5, <1>6 DEF Resolutions

\* A call that waits for nothing that is read again leaves everybody honest.
LEMMA OthersStayHonest ==
    ASSUME ScopesInv, NEW s \in AccessScopes, NEW c,
           call' = [call EXCEPT ![s] = c], c \notin Rereads,
           c \in [op : Media] => s \in RecognitionScopes /\ sourceFacts[s] # "UNREAD",
           UNCHANGED <<current, sourceFacts>>,
           \A t \in AccessScopes \ {s} : lived'[t] = lived[t]
    PROVE  /\ RereadsAreHonest'
           /\ \A t \in AccessScopes : call'[t] \in [op : Media] =>
                 t \in RecognitionScopes /\ sourceFacts'[t] # "UNREAD"
<1>1. \A t \in AccessScopes : call'[t] = IF t = s THEN c ELSE call[t]
  BY DEF ScopesInv, ScopeTypes
<1>2. RereadsAreHonest'
  BY <1>1 DEF ScopesInv, RereadsAreHonest, Honest
<1>. QED  BY <1>1, <1>2 DEF ScopesInv, SourcesAreRead

LEMMA ScopesKeep ==
    ASSUME ScopesInv, [ScopesNext]_scopeVars
    PROVE  ScopesInv'
<1>. ScopeTypes /\ HandlesAreHonest /\ RereadsAreHonest /\ SourcesAreRead
     /\ PlansAreFresh
  BY DEF ScopesInv
<1>. USE DEF AccessScopes
<1>1. ASSUME NEW s \in RecognitionScopes, ReadSourceFacts(s)
      PROVE  ScopesInv'
  <2>1. "SOURCE" \in Waitings
    BY DEF Waitings
  <2>2. ScopeTypes'
    BY <1>1, <2>1, Shapes DEF ReadSourceFacts, Waits, ScopeTypes
  <2>3. RereadsAreHonest' /\ SourcesAreRead'
    BY <1>1, <2>1, Shapes, OthersStayHonest DEF ReadSourceFacts, Waits, SourcesAreRead
  <2>. QED
    BY <1>1, <2>2, <2>3 DEF ReadSourceFacts, ScopesInv, HandlesAreHonest, Honest, PlansAreFresh
<1>2. ASSUME NEW s \in RecognitionScopes, SourceFactsRead(s)
      PROVE  ScopesInv'
  <2>1. /\ call' = [call EXCEPT ![s] = Nothing]
        /\ UNCHANGED <<current, open, handles, lived, staged>>
    BY <1>2 DEF SourceFactsRead, Returns
  <2>2. /\ sourceFacts' \in [RecognitionScopes -> Facts]
        /\ \A r \in RecognitionScopes : sourceFacts[r] # "UNREAD" => sourceFacts'[r] # "UNREAD"
    BY <1>2 DEF SourceFactsRead, ScopeTypes, Facts
  <2>3. ScopeTypes'
    BY <2>1, <2>2 DEF ScopeTypes
  <2>4. HandlesAreHonest'
    BY <2>1, <2>2 DEF HandlesAreHonest, Honest
  <2>5. \A t \in AccessScopes : call'[t] = IF t = s THEN Nothing ELSE call[t]
    BY <2>1 DEF ScopeTypes
  <2>6. RereadsAreHonest' /\ SourcesAreRead'
    BY <2>1, <2>2, <2>5, Shapes DEF RereadsAreHonest, SourcesAreRead, Honest
  <2>7. PlansAreFresh'
    BY <2>1, <2>2 DEF SourcesAreRead, PlansAreFresh
  <2>. QED  BY <2>3, <2>4, <2>6, <2>7 DEF ScopesInv
<1>3. ASSUME NEW s \in RecognitionScopes, NEW media \in Media, Resolve(s, media)
      PROVE  ScopesInv'
  <2>1. media \in Waitings
    BY DEF Waitings
  <2>2. \/ /\ handles' = [handles EXCEPT ![s] = Claims(s, media, Nobody, "SOURCE_INACTIVE")]
           /\ UNCHANGED call
        \/ handles' = [handles EXCEPT ![s] = MakeHandle(s, media, Nobody)] /\ UNCHANGED call
        \/ call' = [call EXCEPT ![s] = Calls(media)] /\ UNCHANGED handles
    BY <1>3 DEF Resolve, Waits
  <2>3. sourceFacts[s] # "UNREAD" /\ UNCHANGED <<current, open, sourceFacts, lived, staged>>
    BY <1>3 DEF Resolve
  <2>4. /\ handles' \in [RecognitionScopes -> Handles \cup {Nothing}]
        /\ HandlesAreHonest'
    BY <2>2, <2>3, HandlesMade DEF ScopeTypes, HandlesAreHonest, Honest
  <2>5. ScopeTypes'
    BY <2>1, <2>2, <2>3, <2>4, Shapes DEF ScopeTypes
  <2>6. RereadsAreHonest' /\ SourcesAreRead'
    <3>1. Calls(media) \notin Rereads
      BY <2>1, Shapes
    <3>2. CASE call' = [call EXCEPT ![s] = Calls(media)]
      BY <2>3, <3>1, <3>2, OthersStayHonest DEF SourcesAreRead
    <3>3. CASE UNCHANGED call
      BY <2>3, <3>3 DEF RereadsAreHonest, SourcesAreRead, Honest
    <3>. QED  BY <2>2, <3>2, <3>3
  <2>. QED  BY <2>3, <2>4, <2>5, <2>6 DEF ScopesInv, PlansAreFresh
<1>4. ASSUME NEW s \in RecognitionScopes, NEW media \in Media, Resolved(s, media)
      PROVE  ScopesInv'
  <2>1. /\ call' = [call EXCEPT ![s] = Nothing]
        /\ UNCHANGED <<current, open, sourceFacts, lived, staged>>
    BY <1>4 DEF Resolved, Returns
  <2>2. sourceFacts[s] # "UNREAD"
    BY <1>4, Shapes DEF Resolved, Waiting, ScopeTypes, SourcesAreRead, Nothing, Rereads,
       Waitings, Media
  <2>3. \/ \E r \in {current, Nobody} :
              handles' = [handles EXCEPT ![s] = MakeHandle(s, media, r)]
        \/ UNCHANGED handles
    BY <1>4 DEF Resolved
  <2>4. /\ handles' \in [RecognitionScopes -> Handles \cup {Nothing}]
        /\ HandlesAreHonest'
    BY <2>1, <2>2, <2>3, HandlesMade DEF ScopeTypes, HandlesAreHonest, Honest
  <2>5. ScopeTypes'
    BY <2>1, <2>4 DEF ScopeTypes
  <2>6. RereadsAreHonest' /\ SourcesAreRead'
    BY <2>1, Shapes, OthersStayHonest DEF SourcesAreRead
  <2>. QED  BY <2>1, <2>4, <2>5, <2>6 DEF ScopesInv, PlansAreFresh
<1>5. ASSUME NEW s \in RecognitionScopes, NEW claims \in Issued, NEW plan \in Issued,
             NEW effects \in BOOLEAN, StageRecognitionResult(s, claims, plan, effects)
      PROVE  ScopesInv'
  <2>. DEFINE fresh == [op |-> "FRESH", by |-> claims, effects |-> effects]
  <2>1. claims \in Handles /\ Honest(s, claims)
    BY <1>5 DEF StageRecognitionResult, Issued, HandlesAreHonest, Honest, ScopeTypes
  <2>2. /\ lived' = [lived EXCEPT ![s] = {current}]
        /\ UNCHANGED <<current, open, sourceFacts, handles>>
        /\ s \in open
        /\ \A t \in AccessScopes : call[t] = Nothing
    BY <1>5 DEF StageRecognitionResult, Idle
  <2>3. lived' \in [AccessScopes -> SUBSET Snapshots] /\ lived'[s] = {current}
    BY <2>2 DEF ScopeTypes
  <2>4. HandlesAreHonest'
    BY <2>2 DEF HandlesAreHonest, Honest
  <2>5. CASE claims.of.qualification = 0
    <3>1. /\ Given(s, claims, effects) /\ call' = [call EXCEPT ![s] = Calls("STAGE")]
          /\ ~effects
      BY <1>5, <2>5 DEF StageRecognitionResult, Waits
    <3>2. ScopeTypes'
      BY <2>2, <2>3, <3>1, Shapes DEF ScopeTypes, Waitings
    <3>3. claims.of = Nobody
      BY <2>1, <2>5 DEF Honest
    <3>4. /\ staged'.op = "PLAN" /\ staged'.scope = s /\ staged'.by = claims
          /\ staged'.open /\ staged'.effects = effects
      BY <2>2, <3>1 DEF Given
    <3>5. RereadsAreHonest' /\ SourcesAreRead'
      BY <2>2, <3>1, <3>4, Shapes, OthersStayHonest DEF SourcesAreRead, Waitings, ScopeTypes
    <3>6. PlansAreFresh'
      BY <2>1, <2>2, <3>1, <3>3, <3>4 DEF PlansAreFresh, Honest
    <3>. QED  BY <2>4, <3>2, <3>5, <3>6 DEF ScopesInv
  <2>6. CASE claims.of.qualification # 0
    <3>1. call' = [call EXCEPT ![s] = fresh] /\ UNCHANGED staged
      BY <1>5, <2>6 DEF StageRecognitionResult
    <3>2. fresh \in Rereads /\ fresh.op = "FRESH" /\ fresh.by = claims
      BY <2>1 DEF Rereads
    <3>3. ScopeTypes'
      BY <2>2, <2>3, <3>1, <3>2 DEF ScopeTypes
    <3>4. \A t \in AccessScopes : call'[t] = IF t = s THEN fresh ELSE Nothing
      BY <2>2, <3>1 DEF ScopeTypes
    <3>5. claims.of # Nobody
      BY <2>6 DEF Nobody
    <3>6. RereadsAreHonest'
      BY <2>1, <2>2, <2>3, <3>2, <3>4, <3>5, Shapes DEF RereadsAreHonest, Honest
    <3>7. SourcesAreRead'
      BY <2>2, <3>1, <3>2, <3>4, Shapes DEF SourcesAreRead
    <3>. QED  BY <2>2, <2>4, <3>1, <3>3, <3>6, <3>7 DEF ScopesInv, PlansAreFresh
  <2>. QED  BY <2>5, <2>6
<1>6. ASSUME NEW s \in RecognitionScopes, QualificationReread(s)
      PROVE  ScopesInv'
  <2>1. call[s] \in Rereads /\ call[s].op = "FRESH"
    BY <1>6, Shapes DEF QualificationReread, Waiting, ScopeTypes
  <2>2. UNCHANGED <<current, open, sourceFacts, handles, staged>>
    BY <1>6 DEF QualificationReread
  <2>3. HandlesAreHonest' /\ PlansAreFresh'
    BY <2>2 DEF HandlesAreHonest, Honest, PlansAreFresh
  <2>4. CASE s \in open /\ QualificationIsFresh(s)
    <3>. DEFINE c == [call[s] EXCEPT !.op = "FRESH_MAPPING"]
    <3>1. call' = [call EXCEPT ![s] = c] /\ UNCHANGED lived
      BY <1>6, <2>4 DEF QualificationReread
    <3>2. c \in Rereads /\ c.op = "FRESH_MAPPING" /\ c.by = call[s].by
      BY <2>1 DEF Rereads
    <3>3. \A t \in AccessScopes : call'[t] = IF t = s THEN c ELSE call[t]
      BY <3>1 DEF ScopeTypes
    <3>4. ScopeTypes'
      BY <2>2, <3>1, <3>2 DEF ScopeTypes
    <3>5. c.by.of = current
      BY <2>1, <2>4, <3>2 DEF RereadsAreHonest, Honest, QualificationIsFresh
    <3>6. RereadsAreHonest'
      BY <2>1, <2>2, <3>1, <3>2, <3>3, <3>5 DEF RereadsAreHonest, Honest
    <3>7. SourcesAreRead'
      BY <2>2, <3>2, <3>3, Shapes DEF SourcesAreRead
    <3>. QED  BY <2>3, <3>4, <3>6, <3>7 DEF ScopesInv
  <2>5. CASE ~(s \in open /\ QualificationIsFresh(s))
    <3>1. /\ call' = [call EXCEPT ![s] = Nothing] /\ lived' = [lived EXCEPT ![s] = {}]
      BY <1>6, <2>5 DEF QualificationReread, StageOver, Returns
    <3>2. ScopeTypes'
      BY <2>2, <3>1 DEF ScopeTypes
    <3>3. \A t \in AccessScopes \ {s} : lived'[t] = lived[t]
      BY <3>1 DEF ScopeTypes
    <3>4. RereadsAreHonest' /\ SourcesAreRead'
      BY <2>2, <3>1, <3>3, Shapes, OthersStayHonest DEF SourcesAreRead
    <3>. QED  BY <2>3, <3>2, <3>4 DEF ScopesInv
  <2>. QED  BY <2>4, <2>5
<1>7. ASSUME NEW s \in RecognitionScopes, MappingReread(s)
      PROVE  ScopesInv'
  <2>1. /\ call[s] \in Rereads /\ call[s].op = "FRESH_MAPPING"
        /\ Honest(s, call[s].by) /\ call[s].by.of # Nobody /\ call[s].by.of \in lived[s]
    BY <1>7, Shapes DEF MappingReread, Waiting, ScopeTypes, RereadsAreHonest
  <2>2. UNCHANGED <<current, open, sourceFacts, handles>>
    BY <1>7 DEF MappingReread
  <2>3. HandlesAreHonest'
    BY <2>2 DEF HandlesAreHonest, Honest
  <2>4. CASE s \in open /\ current.mapping = call[s].by.of.mapping
    <3>1. /\ call' = [call EXCEPT ![s] = Calls("STAGE")] /\ UNCHANGED lived
          /\ Given(s, call[s].by, call[s].effects)
      BY <1>7, <2>4 DEF MappingReread, Waits
    <3>2. ScopeTypes'
      BY <2>2, <3>1, Shapes DEF ScopeTypes, Waitings
    <3>3. /\ staged'.op = "PLAN" /\ staged'.scope = s /\ staged'.by = call[s].by
          /\ staged'.open /\ staged'.lived = lived'[s]
      BY <2>4, <3>1 DEF Given
    <3>4. RereadsAreHonest' /\ SourcesAreRead'
      BY <2>2, <3>1, <3>3, Shapes, OthersStayHonest DEF SourcesAreRead, Waitings
    <3>5. PlansAreFresh'
      BY <2>1, <2>2, <3>1, <3>3 DEF PlansAreFresh, Honest
    <3>. QED  BY <2>3, <3>2, <3>4, <3>5 DEF ScopesInv
  <2>5. CASE ~(s \in open /\ current.mapping = call[s].by.of.mapping)
    <3>1. /\ call' = [call EXCEPT ![s] = Nothing] /\ lived' = [lived EXCEPT ![s] = {}]
          /\ UNCHANGED staged
      BY <1>7, <2>5 DEF MappingReread, StageOver, Returns
    <3>2. ScopeTypes'
      BY <2>2, <3>1 DEF ScopeTypes
    <3>3. \A t \in AccessScopes \ {s} : lived'[t] = lived[t]
      BY <3>1 DEF ScopeTypes
    <3>4. RereadsAreHonest' /\ SourcesAreRead'
      BY <2>2, <3>1, <3>3, Shapes, OthersStayHonest DEF SourcesAreRead
    <3>. QED  BY <2>2, <2>3, <3>1, <3>2, <3>4 DEF ScopesInv, PlansAreFresh
  <2>. QED  BY <2>4, <2>5
<1>8. ASSUME NEW s \in ManagementScopes, StageManagementChange(s)
      PROVE  ScopesInv'
  <2>1. /\ call' = [call EXCEPT ![s] = Calls("STAGE")] /\ s \in open
        /\ staged' = [op |-> "CHANGE", scope |-> s, open |-> s \in open]
        /\ UNCHANGED <<current, open, sourceFacts, handles, lived>>
    BY <1>8 DEF StageManagementChange, Idle, Waits
  <2>2. ScopeTypes'
    BY <2>1, Shapes DEF ScopeTypes, Waitings
  <2>3. RereadsAreHonest' /\ SourcesAreRead'
    BY <2>1, Shapes, OthersStayHonest DEF SourcesAreRead, Waitings
  <2>. QED  BY <2>1, <2>2, <2>3 DEF ScopesInv, HandlesAreHonest, Honest, PlansAreFresh
<1>9. ASSUME NEW s \in AccessScopes, Staged(s)
      PROVE  ScopesInv'
  <2>1. /\ call' = [call EXCEPT ![s] = Nothing] /\ lived' = [lived EXCEPT ![s] = {}]
        /\ staged' \in {staged, Nothing}
        /\ UNCHANGED <<current, open, sourceFacts, handles>>
    BY <1>9 DEF Staged, StageOver, Returns
  <2>2. ScopeTypes'
    BY <2>1 DEF ScopeTypes
  <2>3. \A t \in AccessScopes \ {s} : lived'[t] = lived[t]
    BY <2>1 DEF ScopeTypes
  <2>4. RereadsAreHonest' /\ SourcesAreRead'
    BY <2>1, <2>3, Shapes, OthersStayHonest DEF SourcesAreRead
  <2>. QED  BY <2>1, <2>2, <2>4 DEF ScopesInv, HandlesAreHonest, Honest, PlansAreFresh
<1>10. ASSUME NEW s \in AccessScopes, CloseAsync(s)
       PROVE  ScopesInv'
  BY <1>10 DEF CloseAsync, ScopesInv, ScopeTypes, HandlesAreHonest, RereadsAreHonest,
     SourcesAreRead, Honest, PlansAreFresh
<1>11. ASSUME Change
       PROVE  ScopesInv'
  <2>1. /\ UNCHANGED <<open, sourceFacts, handles, call, staged>>
        /\ current'.qualification = current.qualification + 1
        /\ current' \in Snapshots /\ current'.qualification # 0
        /\ current.qualification \in Nat
    <3>1. current.qualification \in Nat /\ current.mapping \in 0..MaxVersions
      BY AccessScopesAssumption DEF ScopeTypes, Snapshots
    <3>. QED  BY <1>11, <3>1, AccessScopesAssumption DEF Change, Snapshots
  <2>2. \A s \in AccessScopes :
           lived'[s] = IF call[s].op \in {"FRESH", "FRESH_MAPPING"}
                       THEN lived[s] \cup {current'} ELSE {}
    BY <1>11 DEF Change
  <2>3. lived' \in [AccessScopes -> SUBSET Snapshots]
    BY <1>11, <2>1 DEF Change, ScopeTypes
  <2>4. ScopeTypes'
    BY <2>1, <2>3 DEF ScopeTypes
  <2>5. \A s, h : Honest(s, h) /\ h \in Handles => Honest(s, h)'
    <3>1. ASSUME NEW s, NEW h \in Handles, Honest(s, h) PROVE Honest(s, h)'
      <4>1. h.of.qualification \in Nat
        BY AccessScopesAssumption DEF Handles, Snapshots
      <4>. QED  BY <2>1, <3>1, <4>1 DEF Honest
    <3>. QED  BY <3>1
  <2>6. HandlesAreHonest'
    BY <2>1, <2>5 DEF HandlesAreHonest, ScopeTypes
  <2>7. RereadsAreHonest'
    <3>1. \A c \in Rereads : c.op \in {"FRESH", "FRESH_MAPPING"} /\ c.by \in Handles
      BY DEF Rereads
    <3>. QED  BY <2>1, <2>2, <2>5, <3>1 DEF RereadsAreHonest
  <2>8. SourcesAreRead' /\ PlansAreFresh'
    BY <2>1 DEF SourcesAreRead, PlansAreFresh
  <2>. QED  BY <2>4, <2>6, <2>7, <2>8 DEF ScopesInv
<1>12. CASE UNCHANGED scopeVars
  BY <1>12 DEF scopeVars, ScopesInv, ScopeTypes, HandlesAreHonest, RereadsAreHonest,
     SourcesAreRead, Honest, PlansAreFresh
<1>. QED
  BY <1>1, <1>2, <1>3, <1>4, <1>5, <1>6, <1>7, <1>8, <1>9, <1>10, <1>11, <1>12 DEF ScopesNext

\* What the port is asked to stage comes from an open scope and its own handle, and
\* from a qualification and mapping that were current together since the stage was
\* called (access-scopes.ts, assertResolutionFreshness).
THEOREM PlansStayFresh == ScopesSpec => []PlansAreFresh
<1>1. ScopesInv => PlansAreFresh
  BY DEF ScopesInv
<1>. QED  BY <1>1, ScopesStart, ScopesKeep, PTL DEF ScopesSpec

-----------------------------------------------------------------------------
(* Which database a process accepts.                                         *)

Kept == {"qualifications", "faceSlots", "users", "sources", "metadata"}

Doings == {"NONE", "REFUSED", "DEAD", "CREATING", "INDEXES", "SNAPSHOT", "VERIFIED",
           "READY", "CLEARING", "SEEDING", "DONE", "ATTACHED"}

\* A collection, or the indexes of one, that the n-th command creates.
Made(n) ==
    IF Bootstrap[n] \in DOMAIN IndexesOf THEN IndexesOf[Bootstrap[n]] \in indexed
    ELSE Bootstrap[n] \in collections

States == [does : Doings, fresh : BOOLEAN, step : Nat,
           facts : SUBSET (Processes \cup {Earlier, "RUNTIME"})]

\* What is known of a process that is at x: whoever goes on after its
\* inspection found, or made, all of the schema.
ProcessOK(x) ==
    /\ x \in States
    /\ x.does \in {"NONE", "REFUSED"} \/ collections # {"other"}
    /\ x.does = "NONE" => x.facts = {} /\ x.fresh = FALSE /\ x.step = 1
    /\ x.does = "INDEXES" => Required \subseteq collections /\ x.fresh = FALSE
    /\ x.does = "CREATING" =>
         /\ x.facts = {} /\ x.step \in 1..12
         /\ \A n \in 1..12 : n < x.step => Made(n)
    /\ x.does = "SNAPSHOT" =>
         /\ Required \subseteq collections /\ indexed = Required \ Unindexed
         /\ x.fresh = TRUE => x.facts = {}
    /\ x.does = "CLEARING" => x.step \in 1..7
    /\ x.does = "SEEDING" => x.step \in 1..5

SchemaFound ==
    /\ collections = {"other"} \/ collections \subseteq Required
    /\ indexed \subseteq Required \ Unindexed
    /\ process = [p \in Processes |-> process[p]]
    /\ \A p \in Processes : ProcessOK(process[p])

\* What the commands of a seeding before the n-th have emptied, or filled.
Emptied(x) == \A n \in 2..7 : n < x.step => rows[Cleared[n]] = {}
Filled(p, x) == \A n \in 1..5 : rows[Seeded[n]] = IF n < x.step THEN {p} ELSE {}

SeedingOK(p, x) ==
    /\ x.does = "CLEARING" => Emptied(x)
    /\ x.does = "SEEDING" => Filled(p, x)

\* As long as the metadata are there, what a seeding has cleared is a prefix
\* of the collections, and the rest is one fixture.
Remains ==
    rows["metadata"] # {} =>
        \E g \in Processes \cup {Earlier} :
            /\ \A c \in Kept : rows[c] \in {{}, {g}}
            /\ rows["qualifications"] # {} => rows["faceSlots"] # {}
            /\ rows["faceSlots"] # {} => rows["users"] # {}
            /\ rows["users"] # {} => rows["sources"] # {}

RowsInv ==
    /\ rows \in [Required -> SUBSET (Processes \cup {Earlier})]
    /\ \A p, q \in Processes : Seeding(p) /\ Seeding(q) => p = q
    /\ \A p \in Processes : SeedingOK(p, process[p])
    /\ Remains

SchemaInv == SchemaFound /\ RowsInv

LEMMA SchemaInitially == SchemaInit => SchemaInv
<1>. SUFFICES ASSUME SchemaInit PROVE SchemaInv
  OBVIOUS
<1>1. collections = {} \/ collections = {"other"} \/ collections = Required
  BY DEF SchemaInit
<1>2. indexed = collections \ (Unindexed \cup {"other"})
  BY DEF SchemaInit
<1>3. /\ collections = {"other"} \/ collections \subseteq Required
      /\ indexed \subseteq Required \ Unindexed
  BY <1>1, <1>2 DEF Required, Unindexed
<1>4. /\ process = [p \in Processes |-> process[p]]
      /\ \A p \in Processes :
           /\ process[p] \in States /\ process[p].does = "NONE"
           /\ process[p].fresh = FALSE /\ process[p].step = 1 /\ process[p].facts = {}
  BY DEF SchemaInit, States, Doings
<1>5. SchemaFound
  BY <1>3, <1>4 DEF SchemaFound, ProcessOK
<1>6. rows \in [Required -> SUBSET (Processes \cup {Earlier})]
  BY DEF SchemaInit
<1>7. \/ \A c \in Kept : rows[c] = {}
      \/ \A c \in Kept : rows[c] = {Earlier}
  BY DEF SchemaInit, Kept, Required
<1>8. Remains
  BY <1>7 DEF Remains, Kept
<1>. QED  BY <1>4, <1>5, <1>6, <1>8 DEF SchemaInv, RowsInv, SeedingOK, Seeding

\* p goes to x, and the database stays.
LEMMA ProcessMoves ==
    ASSUME SchemaInv, NEW p \in Processes, DatabaseStays, NEW x,
           process' = [process EXCEPT ![p] = x], ProcessOK(x),
           \/ x.does \notin {"CLEARING", "SEEDING"}
           \/ x.does = "CLEARING" /\ x.step = 1 /\ \A q \in Processes : ~Seeding(q)
    PROVE  SchemaInv'
<1>1. /\ process' = [q \in Processes |-> process'[q]] /\ process'[p] = x
      /\ \A q \in Processes : q # p => process'[q] = process[q]
  BY DEF SchemaInv, SchemaFound
<1>2. \A y : ProcessOK(y)' = ProcessOK(y)
  BY DEF ProcessOK, Made, DatabaseStays
<1>3. SchemaFound'
  BY <1>1, <1>2 DEF SchemaInv, SchemaFound, DatabaseStays
<1>4. Remains' /\ (rows \in [Required -> SUBSET (Processes \cup {Earlier})])'
  BY DEF Remains, SchemaInv, RowsInv, DatabaseStays
<1>5. \A q \in Processes : SeedingOK(q, process[q])'
  <2>1. SeedingOK(p, x)'
    BY DEF SeedingOK, Emptied
  <2>2. \A q, y : SeedingOK(q, y)' = SeedingOK(q, y)
    BY DEF SeedingOK, Emptied, Filled, DatabaseStays
  <2>. QED  BY <1>1, <2>1, <2>2 DEF SchemaInv, RowsInv
<1>6. \A q, r \in Processes : Seeding(q)' /\ Seeding(r)' => q = r
  BY <1>1 DEF Seeding, SchemaInv, RowsInv
<1>. QED  BY <1>3, <1>4, <1>5, <1>6 DEF SchemaInv, RowsInv

LEMMA InspectionStep ==
    ASSUME SchemaInv, NEW p \in Processes,
           \/ ListForSetup(p) \/ ListForRuntime(p) \/ CheckIndexes(p)
           \/ Snapshot(p) \/ StartSeeding(p) \/ Attach(p) \/ Dies(p)
    PROVE  SchemaInv'
<1>. DEFINE x == process[p]
            gone(doing) == [does |-> doing, fresh |-> FALSE, step |-> 1, facts |-> {}]
<1>0. ProcessOK(x) /\ process = [q \in Processes |-> process[q]]
  BY DEF SchemaInv, SchemaFound
<1>1. DatabaseStays
  BY DEF ListForSetup, ListForRuntime, CheckIndexes, Snapshot, StartSeeding, Attach, Dies
<1>2. ProcessOK(gone("REFUSED"))
  BY DEF ProcessOK, States, Doings
<1>3. CASE Ends(p, "REFUSED")
  BY <1>1, <1>2, <1>3, ProcessMoves DEF Ends
<1>4. CASE Dies(p)
  <2>. ProcessOK(gone("DEAD"))
    BY <1>0, <1>4 DEF ProcessOK, States, Doings, Dies
  <2>. QED  BY <1>1, <1>4, ProcessMoves DEF Ends, Dies
<1>5. CASE ListForSetup(p) /\ ~Ends(p, "REFUSED")
  <2>. DEFINE y == [x EXCEPT !.does = "CREATING", !.fresh = TRUE]
              z == [x EXCEPT !.does = "INDEXES", !.step = 1]
  <2>1. CASE collections = {}
    <3>1. process' = [process EXCEPT ![p] = y]
      BY <2>1, <1>5 DEF ListForSetup
    <3>2. /\ y \in States /\ y.does = "CREATING" /\ y.fresh = TRUE
          /\ y.step = 1 /\ y.facts = {}
      BY <1>0, <1>5 DEF ListForSetup, Is, ProcessOK, States, Doings
    <3>3. ProcessOK(y)
      BY <3>2, <2>1 DEF ProcessOK, States, Doings
    <3>. QED  BY <1>1, <3>1, <3>2, <3>3, ProcessMoves
  <2>2. CASE Required \subseteq collections
    <3>1. process' = [process EXCEPT ![p] = z]
      BY <2>2, <1>5 DEF ListForSetup, Goes, Required
    <3>2. /\ z \in States /\ z.does = "INDEXES" /\ z.fresh = FALSE
          /\ z.step = 1 /\ z.facts = {}
      BY <1>0, <1>5 DEF ListForSetup, Is, ProcessOK, States, Doings
    <3>3. ProcessOK(z)
      BY <3>2, <2>2 DEF ProcessOK, States, Doings, Required
    <3>. QED  BY <1>1, <3>1, <3>2, <3>3, ProcessMoves
  <2>. QED  BY <1>5, <2>1, <2>2 DEF ListForSetup
<1>6. CASE ListForRuntime(p) /\ ~Ends(p, "REFUSED")
  <2>. DEFINE y == [x EXCEPT !.does = "INDEXES", !.facts = {"RUNTIME"}]
  <2>1. process' = [process EXCEPT ![p] = y] /\ Required \subseteq collections
    BY <1>6 DEF ListForRuntime
  <2>2. /\ y \in States /\ y.does = "INDEXES" /\ y.fresh = FALSE
        /\ y.step = 1 /\ y.facts = {"RUNTIME"}
    BY <1>0, <1>6 DEF ListForRuntime, Is, ProcessOK, States, Doings
  <2>3. ProcessOK(y)
    BY <2>1, <2>2 DEF ProcessOK, States, Doings, Required
  <2>. QED  BY <1>1, <2>1, <2>2, <2>3, ProcessMoves
<1>7. CASE CheckIndexes(p) /\ ~Ends(p, "REFUSED")
  <2>. DEFINE y == [x EXCEPT !.does = "SNAPSHOT", !.step = 1]
  <2>1. process' = [process EXCEPT ![p] = y] /\ indexed = Required \ Unindexed
    BY <1>7 DEF CheckIndexes, Goes
  <2>2. /\ y \in States /\ y.does = "SNAPSHOT" /\ y.fresh = FALSE
        /\ y.step = 1 /\ x.does = "INDEXES"
    BY <1>0, <1>7 DEF CheckIndexes, Is, ProcessOK, States, Doings
  <2>3. ProcessOK(y)
    BY <1>0, <2>1, <2>2 DEF ProcessOK, States, Doings
  <2>. QED  BY <1>1, <2>1, <2>2, <2>3, ProcessMoves
<1>8. CASE Snapshot(p) /\ ~Ends(p, "REFUSED")
  <2>. DEFINE y == [x EXCEPT !.does = "VERIFIED", !.facts = rows["metadata"]]
              z == [x EXCEPT !.does = "READY", !.step = 1]
  <2>0. x.does = "SNAPSHOT"
    BY <1>8 DEF Snapshot, Is
  <2>1. /\ y \in States /\ y.does = "VERIFIED"
        /\ z \in States /\ z.does = "READY"
    <3>. rows["metadata"] \in SUBSET (Processes \cup {Earlier})
      BY DEF SchemaInv, RowsInv, Required
    <3>. QED  BY <1>0 DEF ProcessOK, States, Doings
  <2>2. ProcessOK(y) /\ ProcessOK(z)
    BY <1>0, <2>0, <2>1 DEF ProcessOK, States, Doings
  <2>3. process' = [process EXCEPT ![p] = y] \/ process' = [process EXCEPT ![p] = z]
    BY <1>8 DEF Snapshot, Goes
  <2>. QED  BY <1>1, <2>1, <2>2, <2>3, ProcessMoves
<1>9. CASE StartSeeding(p)
  <2>. DEFINE y == [x EXCEPT !.does = "CLEARING", !.step = 1]
  <2>1. process' = [process EXCEPT ![p] = y] /\ x.does = "READY"
        /\ \A q \in Processes : ~Seeding(q)
    BY <1>9 DEF StartSeeding, Goes, Is
  <2>2. /\ y \in States /\ y.does = "CLEARING" /\ y.fresh = x.fresh
        /\ y.step = 1 /\ y.facts = x.facts
    BY <1>0 DEF ProcessOK, States, Doings
  <2>3. ProcessOK(y)
    BY <1>0, <2>1, <2>2 DEF ProcessOK, States, Doings
  <2>. QED  BY <1>1, <2>1, <2>2, <2>3, ProcessMoves
<1>10. CASE Attach(p)
  <2>. DEFINE y == [x EXCEPT !.does = "ATTACHED", !.step = 1]
  <2>1. process' = [process EXCEPT ![p] = y] /\ x.does = "VERIFIED"
    BY <1>10 DEF Attach, Goes, Is
  <2>2. /\ y \in States /\ y.does = "ATTACHED" /\ y.fresh = x.fresh
        /\ y.step = 1 /\ y.facts = x.facts
    BY <1>0 DEF ProcessOK, States, Doings
  <2>3. ProcessOK(y)
    BY <1>0, <2>1, <2>2 DEF ProcessOK, States, Doings
  <2>. QED  BY <1>1, <2>1, <2>2, <2>3, ProcessMoves
<1>. QED  BY <1>3, <1>4, <1>5, <1>6, <1>7, <1>8, <1>9, <1>10

\* The commands of a bootstrap, one by one: together they make the schema.
LEMMA BootstrapFacts ==
    ASSUME NEW made, NEW having
    PROVE  /\ Len(Bootstrap) = 12
           /\ \A n \in 1..12 : Bootstrap[n] \in DOMAIN IndexesOf \cup Required
           /\ \A w \in DOMAIN IndexesOf : IndexesOf[w] \in Required \ Unindexed
           /\ (\A n \in 1..12 : IF Bootstrap[n] \in DOMAIN IndexesOf
                                THEN IndexesOf[Bootstrap[n]] \in having
                                ELSE Bootstrap[n] \in made) =>
                Required \subseteq made /\ Required \ Unindexed \subseteq having
<1>1. Len(Bootstrap) = 12
  BY DEF Bootstrap
<1>2. /\ Bootstrap[1] = "qualifications" /\ Bootstrap[2] = "faceSlots"
      /\ Bootstrap[3] = "faceSlots.indexes" /\ Bootstrap[4] = "events"
      /\ Bootstrap[5] = "users" /\ Bootstrap[6] = "sources"
      /\ Bootstrap[7] = "metadata" /\ Bootstrap[8] = "managementReceipts"
      /\ Bootstrap[9] = "qualifications.indexes" /\ Bootstrap[10] = "events.indexes"
      /\ Bootstrap[11] = "users.indexes" /\ Bootstrap[12] = "sources.indexes"
  BY DEF Bootstrap
<1>3. /\ DOMAIN IndexesOf = {"faceSlots.indexes", "qualifications.indexes",
                             "events.indexes", "users.indexes", "sources.indexes"}
      /\ IndexesOf["faceSlots.indexes"] = "faceSlots"
      /\ IndexesOf["qualifications.indexes"] = "qualifications"
      /\ IndexesOf["events.indexes"] = "events"
      /\ IndexesOf["users.indexes"] = "users"
      /\ IndexesOf["sources.indexes"] = "sources"
  BY DEF IndexesOf
<1>4. \A n \in 1..12 : n \in {1, 2, 3, 4, 5, 6, 7, 8, 9, 10, 11, 12}
  OBVIOUS
<1>5. \A n \in 1..12 : Bootstrap[n] \in DOMAIN IndexesOf \cup Required
  BY <1>2, <1>3, <1>4 DEF Required
<1>6. \A w \in DOMAIN IndexesOf : IndexesOf[w] \in Required \ Unindexed
  BY <1>3 DEF Required, Unindexed
<1>7. ASSUME \A n \in 1..12 : IF Bootstrap[n] \in DOMAIN IndexesOf
                              THEN IndexesOf[Bootstrap[n]] \in having
                              ELSE Bootstrap[n] \in made
      PROVE  Required \subseteq made /\ Required \ Unindexed \subseteq having
  <2>1. \A n \in {1, 2, 3, 4, 5, 6, 7, 8, 9, 10, 11, 12} :
          IF Bootstrap[n] \in DOMAIN IndexesOf
          THEN IndexesOf[Bootstrap[n]] \in having ELSE Bootstrap[n] \in made
    BY <1>7
  <2>2. /\ "qualifications" \in made /\ "faceSlots" \in made
        /\ "events" \in made /\ "users" \in made
        /\ "sources" \in made /\ "metadata" \in made
        /\ "managementReceipts" \in made
    BY <1>2, <1>3, <2>1
  <2>3. /\ "faceSlots" \in having /\ "qualifications" \in having
        /\ "events" \in having /\ "users" \in having /\ "sources" \in having
    BY <1>2, <1>3, <2>1
  <2>. QED  BY <2>2, <2>3 DEF Required, Unindexed
<1>. QED  BY <1>1, <1>5, <1>6, <1>7

LEMMA CreateStep ==
    ASSUME SchemaInv, NEW p \in Processes, NEW x, x = process[p], Create(p)
    PROVE  SchemaInv'
<1>. DEFINE last == x.step = 12
            next == IF last THEN 1 ELSE x.step + 1
            doing == IF last THEN "SNAPSHOT" ELSE "CREATING"
            y == [x EXCEPT !.step = next, !.does = doing]
<1>0. /\ ProcessOK(x) /\ process = [q \in Processes |-> process[q]]
      /\ x.does = "CREATING" /\ x.facts = {} /\ x.step \in 1..12
      /\ x \in States
      /\ \A n \in 1..12 : n < x.step => Made(n)
  BY DEF SchemaInv, SchemaFound, Create, Is, ProcessOK
<1>1. process' = [process EXCEPT ![p] = y]
  <2>. Len(Bootstrap) = 12
    BY BootstrapFacts
  <2>. QED  BY <1>0 DEF Create, Advances
<1>y. y \in States /\ y.facts = {} /\ y.does = doing /\ y.step = next
  <2>. next \in Nat /\ doing \in Doings
    BY <1>0 DEF Doings
  <2>. HIDE DEF next, doing
  <2>. QED  BY <1>0 DEF States
<1>. HIDE DEF y
<1>2. /\ collections \subseteq collections' /\ indexed \subseteq indexed'
      /\ collections \subseteq Required /\ indexed \subseteq Required \ Unindexed
      /\ UNCHANGED rows
  BY <1>0 DEF Create, SchemaInv, SchemaFound, ProcessOK
<1>3. /\ collections' \subseteq Required /\ indexed' \subseteq Required \ Unindexed
      /\ Made(x.step)'
  <2>. Bootstrap[x.step] \in DOMAIN IndexesOf \cup Required
    BY <1>0, BootstrapFacts
  <2>1. CASE Bootstrap[x.step] \in DOMAIN IndexesOf
    <3>. IndexesOf[Bootstrap[x.step]] \in Required \ Unindexed
      BY <2>1, BootstrapFacts
    <3>. QED  BY <1>2, <2>1 DEF Create, Made
  <2>2. CASE Bootstrap[x.step] \notin DOMAIN IndexesOf
    BY <1>2, <2>2 DEF Create, Made
  <2>. QED  BY <2>1, <2>2
<1>4. \A n : Made(n) => Made(n)'
  BY <1>2 DEF Made
<1>5. ASSUME NEW z, ProcessOK(z) PROVE ProcessOK(z)'
  <2>1. "other" \notin Required /\ collections' # {"other"}
    BY <1>3 DEF Required
  <2>2. indexed = Required \ Unindexed => indexed' = Required \ Unindexed
    BY <1>2, <1>3
  <2>. QED  BY <1>2, <1>4, <1>5, <2>1, <2>2 DEF ProcessOK
<1>6. ProcessOK(y)'
  <2>1. \A n \in 1..12 : n < x.step + 1 => Made(n)'
    BY <1>0, <1>3, <1>4
  <2>2. collections' # {"other"}
    BY <1>3 DEF Required
  <2>3. CASE last
    <3>1. \A n \in 1..12 : Made(n)'
      BY <2>1, <2>3
    <3>2. Required \subseteq collections' /\ Required \ Unindexed \subseteq indexed'
      BY <3>1, BootstrapFacts DEF Made
    <3>. QED  BY <1>3, <1>y, <2>2, <2>3, <3>2 DEF ProcessOK
  <2>4. CASE ~last
    BY <1>0, <1>y, <2>1, <2>2, <2>4 DEF ProcessOK
  <2>. QED  BY <2>3, <2>4
<1>7. /\ process' = [q \in Processes |-> process'[q]] /\ process'[p] = y
      /\ \A q \in Processes : q # p => process'[q] = process[q]
  BY <1>0, <1>1
<1>8. SchemaFound'
  <2>. \A q \in Processes : ProcessOK(process[q])'
    BY <1>5, <1>6, <1>7 DEF SchemaInv, SchemaFound
  <2>. QED  BY <1>3, <1>7 DEF SchemaFound
<1>9. RowsInv'
  <2>1. \A q \in Processes : SeedingOK(q, process[q])'
    <3>. /\ SeedingOK(p, y)'
         /\ \A q, z : SeedingOK(q, z)' = SeedingOK(q, z)
      BY <1>2, <1>y DEF SeedingOK, Emptied, Filled
    <3>. QED  BY <1>7 DEF SchemaInv, RowsInv
  <2>2. \A q, r \in Processes : Seeding(q)' /\ Seeding(r)' => q = r
    BY <1>7, <1>y DEF SchemaInv, RowsInv, Seeding
  <2>. QED  BY <1>2, <2>1, <2>2 DEF SchemaInv, RowsInv, Remains
<1>. QED  BY <1>8, <1>9 DEF SchemaInv

\* What the documents of a seeding are cleared and seeded by.
LEMMA SeedingFacts ==
    /\ Len(Cleared) = 7 /\ Len(Seeded) = 5
    /\ Cleared[1] = "events" /\ Cleared[2] = "qualifications" /\ Cleared[3] = "faceSlots"
    /\ Cleared[4] = "users" /\ Cleared[5] = "sources" /\ Cleared[6] = "metadata"
    /\ Cleared[7] = "managementReceipts"
    /\ Seeded[1] = "qualifications" /\ Seeded[2] = "faceSlots" /\ Seeded[3] = "users"
    /\ Seeded[4] = "sources" /\ Seeded[5] = "metadata"
    /\ 1..7 = {1, 2, 3, 4, 5, 6, 7} /\ 1..5 = {1, 2, 3, 4, 5}
    /\ 2..7 = {2, 3, 4, 5, 6, 7}
  BY DEF Cleared, Seeded

\* A seeding moves on to y, and the documents with it.
LEMMA SeedingMoves ==
    ASSUME SchemaInv, NEW p \in Processes, Seeding(p), NEW y,
           process' = [process EXCEPT ![p] = y], ProcessOK(y),
           UNCHANGED <<collections, foreign, indexed>>,
           NEW c \in Required, NEW fixtures \in SUBSET (Processes \cup {Earlier}), rows' = [rows EXCEPT ![c] = fixtures],
           SeedingOK(p, y)', Remains'
    PROVE  SchemaInv'
<1>1. /\ process' = [q \in Processes |-> process'[q]] /\ process'[p] = y
      /\ \A q \in Processes : q # p => process'[q] = process[q]
  BY DEF SchemaInv, SchemaFound
<1>2. SchemaFound'
  <2>. \A z : ProcessOK(z)' = ProcessOK(z)
    BY DEF ProcessOK, Made
  <2>. QED  BY <1>1 DEF SchemaInv, SchemaFound
<1>3. \A q \in Processes : q # p => ~Seeding(q)
  BY DEF SchemaInv, RowsInv
<1>4. \A q \in Processes : SeedingOK(q, process[q])'
  BY <1>1, <1>3 DEF SeedingOK, Seeding
<1>5. \A q, r \in Processes : Seeding(q)' /\ Seeding(r)' => q = r
  BY <1>1, <1>3 DEF Seeding
<1>6. rows' \in [Required -> SUBSET (Processes \cup {Earlier})]
  BY DEF SchemaInv, RowsInv
<1>. QED  BY <1>2, <1>4, <1>5, <1>6 DEF SchemaInv, RowsInv

LEMMA ClearStep ==
    ASSUME SchemaInv, NEW p \in Processes, NEW x, x = process[p], Clear(p)
    PROVE  SchemaInv'
<1>. DEFINE last == x.step = 7
            c == Cleared[x.step]
            next == IF last THEN 1 ELSE x.step + 1
            doing == IF last THEN "SEEDING" ELSE "CLEARING"
            y == [x EXCEPT !.step = next, !.does = doing]
<1>0. /\ ProcessOK(x) /\ process = [q \in Processes |-> process[q]]
      /\ x.does = "CLEARING" /\ x.step \in 1..7 /\ Emptied(x)
      /\ x \in States
      /\ rows \in [Required -> SUBSET (Processes \cup {Earlier})] /\ Remains
  BY DEF SchemaInv, SchemaFound, RowsInv, SeedingOK, Clear, Is, ProcessOK, States
<1>1. /\ process' = [process EXCEPT ![p] = y]
      /\ UNCHANGED <<collections, foreign, indexed>>
      /\ rows' = [rows EXCEPT ![c] = {}]
  <2>. Len(Cleared) = 7
    BY SeedingFacts
  <2>. QED  BY <1>0 DEF Clear, Advances
<1>2. c \in Required
  BY <1>0, SeedingFacts DEF Required
<1>3. rows'[c] = {} /\ \A d \in Required : d # c => rows'[d] = rows[d]
  BY <1>0, <1>1, <1>2
<1>y. y \in States /\ y.does = doing /\ y.step = next
  <2>. next \in Nat /\ doing \in Doings
    BY <1>0 DEF Doings
  <2>. HIDE DEF next, doing
  <2>. QED  BY <1>0 DEF States
<1>. HIDE DEF y
<1>4. ProcessOK(y)
  BY <1>0, <1>y DEF ProcessOK
<1>5. \A n \in 2..7 : n <= x.step => rows'[Cleared[n]] = {}
  <2>. SUFFICES ASSUME NEW n \in 2..7, n <= x.step PROVE rows'[Cleared[n]] = {}
    OBVIOUS
  <2>1. CASE n = x.step
    BY <1>3, <2>1
  <2>2. CASE n < x.step
    <3>. rows[Cleared[n]] = {} /\ Cleared[n] \in Required
      BY <1>0, <2>2, SeedingFacts DEF Emptied, Required
    <3>. QED  BY <1>3
  <2>. QED  BY <1>0, <2>1, <2>2
<1>6. SeedingOK(p, y)'
  <2>1. CASE last
    <3>. \A n \in 1..5 : Seeded[n] = Cleared[n + 1] /\ n + 1 \in 2..7
      BY SeedingFacts
    <3>. \A n \in 1..5 : rows'[Seeded[n]] = {}
      BY <1>5, <2>1
    <3>. QED  BY <1>y, <2>1 DEF SeedingOK, Filled
  <2>2. CASE ~last
    <3>. \A n \in 2..7 : n < x.step + 1 => rows'[Cleared[n]] = {}
      BY <1>0, <1>5
    <3>. QED  BY <1>y, <2>2 DEF SeedingOK, Emptied
  <2>. QED  BY <2>1, <2>2
<1>7. Remains'
  <2>. SUFFICES ASSUME rows'["metadata"] # {}
                PROVE  \E g \in Processes \cup {Earlier} :
                         /\ \A d \in Kept : rows'[d] \in {{}, {g}}
                         /\ rows'["qualifications"] # {} => rows'["faceSlots"] # {}
                         /\ rows'["faceSlots"] # {} => rows'["users"] # {}
                         /\ rows'["users"] # {} => rows'["sources"] # {}
    BY DEF Remains
  <2>1. Kept \subseteq Required /\ "metadata" \in Required
    BY DEF Kept, Required
  <2>2. rows["metadata"] # {} /\ c # "metadata"
    BY <1>3, <2>1
  <2>3. PICK g \in Processes \cup {Earlier} :
          /\ \A d \in Kept : rows[d] \in {{}, {g}}
          /\ rows["qualifications"] # {} => rows["faceSlots"] # {}
          /\ rows["faceSlots"] # {} => rows["users"] # {}
          /\ rows["users"] # {} => rows["sources"] # {}
    BY <1>0, <2>2 DEF Remains
  <2>4. \A d \in Kept : rows'[d] \in {{}, {g}}
    BY <1>3, <2>1, <2>3
  <2>5. /\ "qualifications" \in Required /\ "faceSlots" \in Required
        /\ "users" \in Required /\ "sources" \in Required
    BY DEF Required
  <2>6. /\ x.step >= 3 => rows'["qualifications"] = {}
        /\ x.step >= 4 => rows'["faceSlots"] = {}
        /\ x.step >= 5 => rows'["users"] = {}
    <3>. /\ 2 <= x.step => rows'[Cleared[2]] = {}
         /\ 3 <= x.step => rows'[Cleared[3]] = {}
         /\ 4 <= x.step => rows'[Cleared[4]] = {}
      BY <1>5
    <3>. QED  BY <1>0, SeedingFacts
  <2>7. \/ c \in {"events", "managementReceipts"}
        \/ x.step = 2 /\ c = "qualifications"
        \/ x.step = 3 /\ c = "faceSlots"
        \/ x.step = 4 /\ c = "users"
        \/ x.step = 5 /\ c = "sources"
    BY <1>0, <2>2, SeedingFacts
  <2>8. /\ rows'["qualifications"] # {} => rows'["faceSlots"] # {}
        /\ rows'["faceSlots"] # {} => rows'["users"] # {}
        /\ rows'["users"] # {} => rows'["sources"] # {}
    BY <1>3, <2>3, <2>5, <2>6, <2>7
  <2>. QED  BY <2>4, <2>8
<1>. HIDE DEF c
<1>. QED  BY <1>0, <1>1, <1>2, <1>4, <1>6, <1>7, SeedingMoves DEF Seeding

LEMMA SeedStep ==
    ASSUME SchemaInv, NEW p \in Processes, NEW x, x = process[p], Seed(p)
    PROVE  SchemaInv'
<1>. DEFINE last == x.step = 5
            c == Seeded[x.step]
            next == IF last THEN 1 ELSE x.step + 1
            doing == IF last THEN "DONE" ELSE "SEEDING"
            y == [x EXCEPT !.step = next, !.does = doing]
<1>0. /\ ProcessOK(x) /\ process = [q \in Processes |-> process[q]]
      /\ x.does = "SEEDING" /\ x.step \in 1..5 /\ Filled(p, x)
      /\ x \in States
      /\ rows \in [Required -> SUBSET (Processes \cup {Earlier})]
  BY DEF SchemaInv, SchemaFound, RowsInv, SeedingOK, Seed, Is, ProcessOK, States
<1>1. c \in Required
  BY <1>0, SeedingFacts DEF Required
<1>2. rows[c] = {}
  BY <1>0 DEF Filled
<1>3. /\ process' = [process EXCEPT ![p] = y]
      /\ UNCHANGED <<collections, foreign, indexed>>
      /\ rows' = [rows EXCEPT ![c] = {p}]
  <2>. Len(Seeded) = 5
    BY SeedingFacts
  <2>. QED  BY <1>0, <1>2 DEF Seed, Advances
<1>4. rows'[c] = {p} /\ \A d \in Required : d # c => rows'[d] = rows[d]
  BY <1>0, <1>1, <1>3
<1>y. y \in States /\ y.does = doing /\ y.step = next
  <2>. next \in Nat /\ doing \in Doings
    BY <1>0 DEF Doings
  <2>. HIDE DEF next, doing
  <2>. QED  BY <1>0 DEF States
<1>. HIDE DEF y
<1>5. ProcessOK(y)
  BY <1>0, <1>y DEF ProcessOK
<1>6. \A n \in 1..5 : rows'[Seeded[n]] = IF n <= x.step THEN {p} ELSE {}
  <2>. SUFFICES ASSUME NEW n \in 1..5
                PROVE  rows'[Seeded[n]] = IF n <= x.step THEN {p} ELSE {}
    OBVIOUS
  <2>1. CASE n = x.step
    <3>1. n <= x.step
      BY <2>1
    <3>2. rows'[Seeded[n]] = {p}
      BY <1>4, <2>1
    <3>. QED  BY <3>1, <3>2
  <2>2. CASE n # x.step
    <3>1. rows[Seeded[n]] = IF n < x.step THEN {p} ELSE {}
      BY <1>0 DEF Filled
    <3>2. Seeded[n] \in Required /\ Seeded[n] # c
      BY <1>0, <2>2, SeedingFacts DEF Required
    <3>. QED  BY <1>0, <1>4, <2>2, <3>1, <3>2
  <2>. QED  BY <2>1, <2>2
<1>7. SeedingOK(p, y)'
  <2>. \A n \in 1..5 : n <= x.step <=> n < x.step + 1
    BY <1>0
  <2>. QED  BY <1>6, <1>y DEF SeedingOK, Filled
<1>8. Remains'
  <2>1. CASE last
    <3>1. /\ rows'[Seeded[1]] = {p} /\ rows'[Seeded[2]] = {p} /\ rows'[Seeded[3]] = {p}
          /\ rows'[Seeded[4]] = {p} /\ rows'[Seeded[5]] = {p}
      BY <1>6, <2>1
    <3>2. \A d \in Kept : rows'[d] = {p}
      BY <3>1, SeedingFacts DEF Kept
    <3>3. /\ "qualifications" \in Kept /\ "faceSlots" \in Kept /\ "users" \in Kept
          /\ "sources" \in Kept
      BY DEF Kept
    <3>. QED  BY <3>2, <3>3 DEF Remains
  <2>2. CASE ~last
    <3>. rows'[Seeded[5]] = {}
      BY <1>0, <1>6, <2>2
    <3>. QED  BY SeedingFacts DEF Remains
  <2>. QED  BY <2>1, <2>2
<1>. HIDE DEF c
<1>. QED  BY <1>0, <1>1, <1>3, <1>5, <1>7, <1>8, SeedingMoves DEF Seeding

LEMMA EventStep ==
    ASSUME SchemaInv, NEW p \in Processes, RecordEvent(p)
    PROVE  SchemaInv'
<1>1. /\ UNCHANGED <<collections, foreign, indexed, process>>
      /\ rows' \in [Required -> SUBSET (Processes \cup {Earlier})]
      /\ \A d \in Required : d # "events" => rows'[d] = rows[d]
  <2>1. PICK g \in rows["sources"] \cap rows["qualifications"] :
          rows' = [rows EXCEPT !["events"] = @ \cup {g}]
    BY DEF RecordEvent
  <2>2. rows \in [Required -> SUBSET (Processes \cup {Earlier})]
    BY DEF SchemaInv, RowsInv
  <2>3. rows["events"] \cup {g} \in SUBSET (Processes \cup {Earlier})
    BY <2>1, <2>2 DEF Required
  <2>. QED  BY <2>1, <2>2, <2>3 DEF RecordEvent
<1>2. /\ \A n \in 2..7 : Cleared[n] \in Required /\ Cleared[n] # "events"
      /\ \A n \in 1..5 : Seeded[n] \in Required /\ Seeded[n] # "events"
  BY SeedingFacts DEF Required
<1>3. Kept \cup {"metadata"} \subseteq Required \ {"events"}
      /\ {"qualifications", "faceSlots", "users", "sources"} \subseteq Required \ {"events"}
  BY DEF Kept, Required
<1>4. SchemaFound'
  BY <1>1 DEF SchemaInv, SchemaFound, ProcessOK, Made
<1>5. \A q \in Processes : SeedingOK(q, process[q])'
  BY <1>1, <1>2 DEF SchemaInv, RowsInv, SeedingOK, Emptied, Filled
<1>6. \A q, r \in Processes : Seeding(q)' /\ Seeding(r)' => q = r
  BY <1>1 DEF SchemaInv, RowsInv, Seeding
<1>7. \A d \in Kept \cup {"metadata", "qualifications", "faceSlots", "users", "sources"} :
        rows'[d] = rows[d]
  BY <1>1, <1>3
<1>8. Remains'
  BY <1>7 DEF SchemaInv, RowsInv, Remains
<1>. QED  BY <1>1, <1>4, <1>5, <1>6, <1>8 DEF SchemaInv, RowsInv

LEMMA SchemaKeeps ==
    ASSUME SchemaInv, [SchemaNext]_schemaVars
    PROVE  SchemaInv'
<1>1. ASSUME NEW p \in Processes,
             \/ ListForSetup(p) \/ Create(p) \/ ListForRuntime(p) \/ CheckIndexes(p)
             \/ Snapshot(p) \/ StartSeeding(p) \/ Clear(p) \/ Seed(p)
             \/ Attach(p) \/ RecordEvent(p) \/ Dies(p)
      PROVE  SchemaInv'
  BY <1>1, InspectionStep, CreateStep, ClearStep, SeedStep, EventStep
<1>2. CASE UNCHANGED schemaVars
  BY <1>2 DEF schemaVars, SchemaInv, SchemaFound, ProcessOK, Made, RowsInv, SeedingOK,
              Emptied, Filled, Seeding, Remains
<1>. QED  BY <1>1, <1>2 DEF SchemaNext

\* With its metadata there and its references intact, what is left of a
\* dataset is all of it.
LEMMA IntactIsWhole ==
    ASSUME SchemaInv, rows["metadata"] # {}, Integrity
    PROVE  WholeDataset
<1>1. PICK g \in Processes \cup {Earlier} :
        /\ \A c \in Kept : rows[c] \in {{}, {g}}
        /\ rows["qualifications"] # {} => rows["faceSlots"] # {}
        /\ rows["faceSlots"] # {} => rows["users"] # {}
        /\ rows["users"] # {} => rows["sources"] # {}
  BY DEF SchemaInv, RowsInv, Remains
<1>2. rows["faceSlots"] # {}
  <2>. Cardinality({}) = 0
    BY FS_EmptySet
  <2>. QED  BY DEF Integrity
<1>3. /\ rows["qualifications"] = {g} /\ rows["faceSlots"] = {g} /\ rows["users"] = {g}
      /\ rows["sources"] = {g} /\ rows["metadata"] = {g} /\ rows["events"] \subseteq {g}
  BY <1>1, <1>2 DEF Integrity, Kept
<1>4. {Seeded[i] : i \in 1..Len(Seeded)} \subseteq Kept
  BY SeedingFacts DEF Kept
<1>. QED  BY <1>3, <1>4 DEF WholeDataset, Kept

\* No database that a bootstrap or a seeding left half done is ever accepted,
\* by any number of processes that create, seed, inspect and die in any order.
THEOREM AcceptedIsWhole == SchemaSpec => AcceptedDatasetsAreWhole
<1>1. ASSUME SchemaInv, SchemaNext, NEW p \in Processes,
             process[p].does = "SNAPSHOT", process'[p].does \in {"READY", "VERIFIED"}
      PROVE  /\ collections = Required /\ indexed = Required \ Unindexed
             /\ \/ WholeDataset
                \/ rows["metadata"] = {} /\ process'[p].does = "READY"
  <2>0. /\ ProcessOK(process[p]) /\ process = [q \in Processes |-> process[q]]
        /\ "other" \notin Required
        /\ collections = {"other"} \/ collections \subseteq Required
    BY <1>1 DEF SchemaInv, SchemaFound, Required
  <2>1. /\ collections = Required /\ indexed = Required \ Unindexed
        /\ process[p].fresh = TRUE => process[p].facts = {}
    BY <1>1, <2>0 DEF ProcessOK
  <2>2. Snapshot(p)
    <3>1. PICK q \in Processes :
            \/ ListForSetup(q) \/ Create(q) \/ ListForRuntime(q) \/ CheckIndexes(q)
            \/ Snapshot(q) \/ StartSeeding(q) \/ Clear(q) \/ Seed(q)
            \/ Attach(q) \/ RecordEvent(q) \/ Dies(q)
      BY <1>1 DEF SchemaNext
    <3>2. CASE q # p
      <4>. process'[p] = process[p]
        BY <2>0, <3>1, <3>2
           DEF ListForSetup, Create, ListForRuntime, CheckIndexes, Snapshot, StartSeeding,
               Clear, Seed, Attach, RecordEvent, Dies, Goes, Ends, Advances
      <4>. QED  BY <1>1
    <3>3. CASE q = p /\ ~Snapshot(p)
      BY <1>1, <2>0, <3>1, <3>3
         DEF ListForSetup, Create, ListForRuntime, CheckIndexes, StartSeeding,
             Clear, Seed, Attach, RecordEvent, Dies, Is, Ends
    <3>. QED  BY <3>2, <3>3
  <2>3. Acceptable(p) /\ (IsRuntime(p) \/ process'[p].does = "READY")
    <3>1. ~Ends(p, "REFUSED")
      BY <1>1, <2>0 DEF Ends
    <3>2. ~IsRuntime(p) => process'[p].does = "READY"
      BY <2>0, <2>2, <3>1 DEF Snapshot, Goes, ProcessOK, States
    <3>. QED  BY <2>2, <3>1, <3>2 DEF Snapshot
  <2>4. CASE rows["metadata"] = {}
    BY <2>1, <2>3, <2>4 DEF Acceptable, IsRuntime
  <2>5. CASE rows["metadata"] # {}
    BY <1>1, <2>1, <2>3, <2>5, IntactIsWhole DEF Acceptable
  <2>. QED  BY <2>4, <2>5
<1>2. SchemaInv /\ [SchemaNext]_schemaVars =>
        [\A p \in Processes :
           process[p].does = "SNAPSHOT" /\ process'[p].does \in {"READY", "VERIFIED"} =>
             /\ collections = Required /\ indexed = Required \ Unindexed
             /\ \/ WholeDataset
                \/ rows["metadata"] = {} /\ process'[p].does = "READY"]_schemaVars
  BY <1>1
<1>. QED  BY <1>2, SchemaInitially, SchemaKeeps, PTL DEF SchemaSpec, AcceptedDatasetsAreWhole
=============================================================================
