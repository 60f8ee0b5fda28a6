--------------------------- MODULE ScopedTransaction ---------------------------
(***************************************************************************)
(* The transaction of one admitted write, from the first use of its scope  *)
(* to the disposition the coordinator is given: the Mongo adapter's        *)
(* attached path, the command facade and the abort authority between it    *)
(* and the binding, the one-shot terminator of the session, the closing of *)
(* the scope, and the reading of the result by the route composition.      *)
(*                                                                         *)
(* The chain is one sequential call.  Against it run the clock, the server *)
(* (which acts on a commit it was sent, and may abort a transaction by     *)
(* itself), the loss of the owner, and a write of the same event that      *)
(* another process left behind.  Every call to the binding may be refused, *)
(* and every answer of the driver may be an error.                         *)
(***************************************************************************)
EXTENDS OperationBinding

CONSTANT Kinds      \* the writes considered

ASSUME KindsAssumption == Kinds \subseteq {"RECOGNITION", "MANAGEMENT"}

VARIABLES
    kind,
    stage,          \* where the chain is
    step,           \* the command the work comes to next
    facade,         \* the execution facade of the transaction
    invoked,        \* TransactionState.initialCommitInvoked
    mapped,         \* the adapter's transactions hold the transaction
    session,        \* the client session
    origin,         \* who asked for the abort: the failing call or the scope's closing
    outcome,        \* what the abort authority made of the abort
    error,          \* the class of the error on its way out
    answer,         \* the result on its way out
    handoff,        \* the post-commit handoff
    disposition,
    server,         \* the transaction on the server (external)
    writes,         \* it holds the write (external)
    seen, stored    \* the event of the key, in its snapshot and now (external)

chainVars == <<step, facade, invoked, mapped, session>>
resultVars == <<origin, outcome, error, answer, handoff, disposition>>
serverVars == <<server, writes, seen, stored>>
vars == <<bindingVars, kind, stage, chainVars, resultVars, serverVars>>

Init ==
    /\ BindingInit
    /\ kind \in Kinds
    /\ stage = "ADMITTED"
    /\ step = "READ"
    /\ facade = "NONE"
    /\ invoked = FALSE
    /\ mapped = FALSE
    /\ session = "NONE"
    /\ origin = "FAIL"
    /\ outcome = "NONE"
    /\ error = "NONE"
    /\ answer = "NONE"
    /\ handoff = "NONE"
    /\ disposition = "NONE"
    /\ server = "NONE"
    /\ writes = FALSE
    /\ seen = "NONE"
    /\ stored = "NONE"

\* The chain gives the event loop back at these stages only; between two others
\* nothing but time passes.
Awaiting == stage \in {"ADMITTED", "START", "WORKING", "COMMAND", "COMMITTING", "ENDING",
                       "ABORTING", "CLEANING", "RECHECK", "CLOSING", "DONE"}

\* A call of the binding that throws: a stale owner freezes the binding, a
\* frozen layer or a denial of the ledger leaves everything as it is.  (The chain
\* never starts a second boundary: StartUnsealed has no part in it.)
Throws(call) ==
    \/ ~owner /\ FreezeBinding
    \/ /\ owner \/ bindingFrozen
       /\ ~ENABLED call
       /\ UNCHANGED bindingVars

-----------------------------------------------------------------------------
(* Opening: the admission's binding, the first use of the scope, begin *)

\* workContext registers the admission and binds it to the write's budget.
BindAdmission ==
    /\ stage = "ADMITTED"
    /\ BindingIsCurrent
    /\ stage' = "START"
    /\ UNCHANGED <<kind, chainVars, resultVars, serverVars>>

BindAdmissionRefused ==
    /\ stage = "ADMITTED"
    /\ Throws(BindingIsCurrent)
    /\ error' = "OTHER"
    /\ stage' = "CLOSED"
    /\ UNCHANGED <<kind, chainVars, origin, outcome, answer, handoff, disposition,
                   serverVars>>

\* usePersistence binds the scope, once, before the first call of a port.
UseScope ==
    /\ stage = "START"
    /\ BindingIsCurrent
    /\ stage' = "BOUND"
    /\ UNCHANGED <<kind, chainVars, resultVars, serverVars>>

\* The adapter resolves the scope, and the facade opens its round.
OpenFacade ==
    /\ stage = "BOUND"
    /\ BeginRound
    /\ facade' = "ACTIVE"
    /\ stage' = "BEGINNING"
    /\ UNCHANGED <<kind, step, invoked, mapped, session, resultVars, serverVars>>

OpenRefused ==
    /\ \/ stage = "START" /\ Throws(BindingIsCurrent)
       \/ stage = "BOUND" /\ Throws(BeginRound)
    /\ error' = "OTHER"
    /\ stage' = "CLOSING"
    /\ UNCHANGED <<kind, chainVars, origin, outcome, answer, handoff, disposition,
                   serverVars>>

StartTransaction ==
    /\ stage = "BEGINNING"
    /\ session' = "OPEN"
    /\ mapped' = TRUE
    /\ server' = "OPEN"
    /\ stage' = "WORKING"
    /\ UNCHANGED <<bindingVars, kind, step, facade, invoked, resultVars, writes, seen, stored>>

\* startSession fails, or startTransaction does on a session that is there.
StartTransactionFails ==
    /\ stage = "BEGINNING"
    /\ session' \in {"NONE", "OPEN"}
    /\ error' = "OTHER"
    /\ stage' = "UNDOING"
    /\ UNCHANGED <<bindingVars, kind, step, facade, invoked, mapped, origin, outcome,
                   answer, handoff, disposition, serverVars>>

UndoBegin ==
    /\ stage = "UNDOING"
    /\ \/ /\ FinishRound
          /\ session' \in IF session = "OPEN" THEN {"ENDED", "OPEN"} ELSE {session}
       \/ /\ Throws(FinishRound)
          /\ UNCHANGED session
    /\ facade' = "NONE"
    /\ stage' = "CLOSING"
    /\ UNCHANGED <<kind, step, invoked, mapped, resultVars, serverVars>>

-----------------------------------------------------------------------------
(* The commands of the work *)

SendCommand ==
    /\ stage = "WORKING" /\ step # "COMMIT"
    /\ AdmitCommand("CRUD")
    /\ stage' = "COMMAND"
    /\ UNCHANGED <<kind, chainVars, resultVars, serverVars>>

CommandRefused ==
    /\ stage = "WORKING" /\ step # "COMMIT"
    /\ Throws(AdmitCommand("CRUD"))
    /\ error' = "OTHER"
    /\ stage' = "FAILING"
    /\ UNCHANGED <<kind, chainVars, origin, outcome, answer, handoff, disposition,
                   serverVars>>

\* READ opens the snapshot; WRITE inserts the event, whose key is unique, or is
\* one of the writes of a management change.
Reads == step = "READ" /\ seen' = stored /\ UNCHANGED writes
Writes ==
    /\ step = "WRITE"
    /\ kind = "RECOGNITION" => stored = "NONE"
    /\ writes' = TRUE
    /\ UNCHANGED seen

\* An event that is there already is answered, and only the commit is left; a
\* management change takes as many writes as its documents do.
Following ==
    CASE step = "READ" /\ seen' = "NONE"       -> {"WRITE"}
      [] step = "WRITE" /\ kind = "MANAGEMENT" -> {"WRITE", "COMMIT"}
      [] OTHER                                 -> {"COMMIT"}

CommandResolves ==
    /\ stage = "COMMAND" /\ server = "OPEN"
    /\ Reads \/ Writes
    /\ SettleCommand
    /\ step' \in Following
    /\ stage' = "WORKING"
    /\ UNCHANGED <<kind, facade, invoked, mapped, session, resultVars, server, stored>>

\* What a rejected command may be classified as: the duplicate of a face subject,
\* while the mapping is written, is a refusal of the change and no DUPLICATE.
Rejections ==
    CASE step = "READ"        -> {"OTHER"}
      [] kind = "RECOGNITION" -> {"OTHER", "DUPLICATE"}
      [] OTHER                -> {"OTHER", "DUPLICATE", "FACE_REFUSED"}

\* The server refuses the command, or its answer is lost after it took effect.
CommandRejects ==
    /\ stage = "COMMAND"
    /\ \/ UNCHANGED <<writes, seen>>
       \/ server = "OPEN" /\ Reads
       \/ server = "OPEN" /\ Writes
    /\ SettleCommand
    /\ error' \in Rejections
    /\ stage' = "FAILING"
    /\ UNCHANGED <<kind, chainVars, origin, outcome, answer, handoff, disposition,
                   server, stored>>

CommandUnsettled ==
    /\ stage = "COMMAND"
    /\ \/ UNCHANGED <<writes, seen>>
       \/ server = "OPEN" /\ Reads
       \/ server = "OPEN" /\ Writes
    /\ Throws(SettleCommand)
    /\ error' = "OTHER"
    /\ stage' = "FAILING"
    /\ UNCHANGED <<kind, chainVars, origin, outcome, answer, handoff, disposition,
                   server, stored>>

\* A rule of the use case refuses a management change, before it opened a scope
\* or after it read the documents; then the scope's closing aborts.
RefuseChange ==
    /\ kind = "MANAGEMENT"
    /\ \/ stage = "START" /\ stage' = "CLOSED"
       \/ stage = "WORKING" /\ step = "WRITE" /\ ~writes /\ stage' = "CLOSING"
    /\ error' = "REFUSED"
    /\ UNCHANGED <<bindingVars, kind, chainVars, origin, outcome, answer, handoff,
                   disposition, serverVars>>

\* The adapter finds the face of a change bound or no slot left for it, in most
\* cases after other writes of the change, and fails.
RefuseFace ==
    /\ stage = "WORKING" /\ step = "WRITE"
    /\ kind = "MANAGEMENT"
    /\ error' = "FACE_REFUSED"
    /\ stage' = "FAILING"
    /\ UNCHANGED <<bindingVars, kind, chainVars, origin, outcome, answer, handoff,
                   disposition, serverVars>>

-----------------------------------------------------------------------------
(* commit *)

SendCommit ==
    /\ stage = "WORKING" /\ step = "COMMIT"
    /\ AdmitCommand("INITIAL_COMMIT")
    /\ invoked' = TRUE
    /\ server' = IF server = "OPEN" THEN "SENT" ELSE server
    /\ stage' = "COMMITTING"
    /\ UNCHANGED <<kind, step, facade, mapped, session, resultVars, writes, seen, stored>>

\* The sender has not started: the abort authority still owns the transaction.
\* commit ends it and throws, and so the second attempt of fail finds no facade.
CommitRefused ==
    /\ stage = "WORKING" /\ step = "COMMIT"
    /\ Throws(AdmitCommand("INITIAL_COMMIT"))
    /\ error' = "OTHER"
    /\ stage' = "FAILING"
    /\ UNCHANGED <<kind, chainVars, origin, outcome, answer, handoff, disposition,
                   serverVars>>

CommitResolves ==
    /\ stage = "COMMITTING" /\ server = "COMMITTED"
    /\ SettleCommand
    /\ stage' = "COMMITTED"
    /\ UNCHANGED <<kind, chainVars, resultVars, serverVars>>

\* An error of the driver, a definite conflict only of a transaction that is
\* aborted, or of the settlement.
CommitRejects ==
    /\ stage = "COMMITTING"
    /\ \/ SettleCommand /\ error' = "OTHER"
       \/ SettleCommand /\ server = "ABORTED" /\ error' = "DUPLICATE"
       \/ Throws(SettleCommand) /\ error' = "OTHER"
    /\ stage' = "COMMIT_FAILED"
    /\ UNCHANGED <<kind, chainVars, origin, outcome, answer, handoff, disposition,
                   serverVars>>

\* `finally' ends the round; when that throws, its error is the one to go out.
FinishCommittedRound ==
    /\ stage = "COMMITTED"
    /\ facade' = "NONE"
    /\ \/ /\ FinishRound
          /\ mapped' = FALSE
          /\ stage' = "ENDING"
          /\ UNCHANGED error
       \/ /\ Throws(FinishRound)
          /\ error' = "OTHER"
          /\ stage' = "HANDING_OFF"
          /\ UNCHANGED mapped
    /\ UNCHANGED <<kind, step, invoked, session, origin, outcome, answer, handoff,
                   disposition, serverVars>>

FinishFailedRound ==
    /\ stage = "COMMIT_FAILED"
    /\ facade' = "NONE"
    /\ stage' = "HANDING_OFF"
    /\ \/ FinishRound /\ UNCHANGED error
       \/ Throws(FinishRound) /\ error' = "OTHER"
    /\ UNCHANGED <<kind, step, invoked, mapped, session, origin, outcome, answer,
                   handoff, disposition, serverVars>>

\* What the staged result says, once it is committed.
StagedAnswer ==
    CASE seen = "SAME"  -> "REPLAYED"
      [] seen = "OTHER" -> "CONFLICT"
      [] OTHER          -> "COMMITTED"

SessionEnds ==
    /\ stage = "ENDING"
    /\ session' = "ENDED"
    /\ answer' = StagedAnswer
    /\ stage' = "CLOSING"
    /\ UNCHANGED <<bindingVars, kind, step, facade, invoked, mapped, origin, outcome,
                   error, handoff, disposition, serverVars>>

\* The commit is known, and yet its transaction is handed to the recovery.
SessionEndFails ==
    /\ stage = "ENDING"
    /\ error' = "OTHER"
    /\ stage' = "HANDING_OFF"
    /\ UNCHANGED <<bindingVars, kind, chainVars, origin, outcome, answer, handoff,
                   disposition, serverVars>>

HandOff ==
    /\ stage = "HANDING_OFF"
    /\ StartUnknownCommitConfirmation
    /\ handoff' = "OPEN"
    /\ stage' = "FAILED"
    /\ UNCHANGED <<kind, chainVars, origin, outcome, error, answer, disposition, serverVars>>

HandOffFails ==
    /\ stage = "HANDING_OFF"
    /\ Throws(StartUnknownCommitConfirmation)
    /\ handoff' = "LOST"
    /\ error' = "OTHER"
    /\ stage' = "FAILED"
    /\ UNCHANGED <<kind, chainVars, origin, outcome, answer, disposition, serverVars>>

-----------------------------------------------------------------------------
(* terminateAttachedPrecommit: one synchronous segment up to the abort *)

\* The error of a termination that fails takes the place of the first one.
TerminationFails ==
    /\ error' = "OTHER"
    /\ stage' = IF origin = "FAIL" THEN "FAILED" ELSE "CLOSED"

Seal ==
    /\ stage = "FAILING" /\ facade = "ACTIVE"
    /\ facade' = "SEALED"
    /\ stage' = "SEALED"
    /\ UNCHANGED <<bindingVars, kind, step, invoked, mapped, session, resultVars, serverVars>>

SealRefused ==
    /\ stage = "FAILING" /\ facade # "ACTIVE"
    /\ TerminationFails
    /\ UNCHANGED <<bindingVars, kind, chainVars, origin, outcome, answer, handoff,
                   disposition, serverVars>>

FinishSealedRound ==
    /\ stage = "SEALED"
    /\ \/ FinishRound /\ stage' = "STARTING" /\ UNCHANGED error
       \/ Throws(FinishRound) /\ TerminationFails
    /\ UNCHANGED <<kind, chainVars, origin, outcome, answer, handoff, disposition,
                   serverVars>>

OpenAbortWindow ==
    /\ stage = "STARTING"
    /\ \/ StartPrecommitTermination /\ stage' = "RESERVING" /\ UNCHANGED error
       \/ Throws(StartPrecommitTermination) /\ TerminationFails
    /\ UNCHANGED <<kind, chainVars, origin, outcome, answer, handoff, disposition,
                   serverVars>>

ReserveAbort ==
    /\ stage = "RESERVING"
    /\ \/ ReserveAbortGroup /\ stage' = "SENDING" /\ UNCHANGED error
       \/ Throws(ReserveAbortGroup) /\ TerminationFails
    /\ UNCHANGED <<kind, chainVars, origin, outcome, answer, handoff, disposition,
                   serverVars>>

SendAbort ==
    /\ stage = "SENDING"
    /\ \/ AdmitAbort /\ stage' = "ABORTING" /\ UNCHANGED error
       \/ Throws(AdmitAbort) /\ TerminationFails
    /\ UNCHANGED <<kind, chainVars, origin, outcome, answer, handoff, disposition,
                   serverVars>>

\* Mutant of AbortAnswered: an abort that fails is sent again.
AbortAnsweredRetrying ==
    /\ stage = "ABORTING"
    /\ SettleAbort
    /\ \/ /\ outcome' = "NO_EFFECT_CONFIRMED" /\ server' = "ABORTED"
          /\ stage' = "SETTLING"
       \/ /\ outcome' = "STILL_UNKNOWN" /\ server' \in {server, "ABORTED"}
          /\ stage' = "SENDING"
    /\ UNCHANGED <<kind, chainVars, origin, error, answer, handoff, disposition,
                   writes, seen, stored>>

\* The answer settles the command before anything is made of it.
AbortAnswered ==
    /\ stage = "ABORTING"
    /\ SettleAbort
    /\ \/ outcome' = "NO_EFFECT_CONFIRMED" /\ server' = "ABORTED"
       \/ outcome' = "STILL_UNKNOWN" /\ server' \in {server, "ABORTED"}
    /\ stage' = "SETTLING"
    /\ UNCHANGED <<kind, chainVars, origin, error, answer, handoff, disposition,
                   writes, seen, stored>>

\* The lifecycle refuses the settlement: nothing is terminated or ended.
AbortUnsettled ==
    /\ stage = "ABORTING"
    /\ \/ ~owner /\ FreezeLifecycle
       \/ (owner \/ lifecycleFrozen) /\ ~ENABLED SettleAbort /\ UNCHANGED bindingVars
    /\ server' \in {server, "ABORTED"}
    /\ TerminationFails
    /\ UNCHANGED <<kind, chainVars, origin, outcome, answer, handoff, disposition,
                   writes, seen, stored>>

SettleTermination ==
    /\ stage = "SETTLING"
    /\ \/ TerminatePrecommit(outcome) /\ stage' = "CLEANING" /\ UNCHANGED error
       \/ Throws(TerminatePrecommit(outcome)) /\ TerminationFails
    /\ UNCHANGED <<kind, chainVars, origin, outcome, answer, handoff, disposition,
                   serverVars>>

CleanUp ==
    /\ stage = "CLEANING"
    /\ session' = "ENDED"
    /\ facade' = "NONE"
    /\ mapped' = FALSE
    /\ stage' = IF origin = "FAIL" THEN "FAILED" ELSE "CLOSED"
    /\ UNCHANGED <<bindingVars, kind, step, invoked, resultVars, serverVars>>

\* SESSION_STILL_ACTIVE or END_SESSION_FAILED
CleanUpFails ==
    /\ stage = "CLEANING"
    /\ TerminationFails
    /\ UNCHANGED <<bindingVars, kind, chainVars, origin, outcome, answer, handoff,
                   disposition, serverVars>>

-----------------------------------------------------------------------------
(* After the failure; the closing of the scope; the disposition *)

\* Only a duplicate or a write conflict of a recognition is looked into.
LeaveAdapter ==
    /\ stage = "FAILED"
    /\ stage' = IF kind = "RECOGNITION" /\ error = "DUPLICATE" THEN "RECHECK" ELSE "CLOSING"
    /\ UNCHANGED <<bindingVars, kind, chainVars, resultVars, serverVars>>

\* Mutant of Recheck: an event that is there is taken for this attempt's.
RecheckUncompared ==
    /\ stage = "RECHECK"
    /\ answer' \in {"UNKNOWN", IF stored = "NONE" THEN "UNKNOWN" ELSE "REPLAYED"}
    /\ stage' = "CLOSING"
    /\ UNCHANGED <<bindingVars, kind, chainVars, origin, outcome, error, handoff,
                   disposition, serverVars>>

\* The canonical event of the key is read, outside the transaction, and compared
\* with the attempt; a read that fails leaves the error.
Recheck ==
    /\ stage = "RECHECK"
    /\ answer' \in {"UNKNOWN",
                    CASE stored = "NONE" -> "UNKNOWN"
                      [] stored = "SAME" -> "REPLAYED"
                      [] OTHER           -> "CONFLICT"}
    /\ stage' = "CLOSING"
    /\ UNCHANGED <<bindingVars, kind, chainVars, origin, outcome, error, handoff,
                   disposition, serverVars>>

\* closeAsync retires the context and discards the transaction, unless there is
\* none or its commit was sent.
CloseScope ==
    /\ stage = "CLOSING"
    /\ IF mapped /\ ~invoked
       THEN origin' = "DISCARD" /\ stage' = "FAILING"
       ELSE UNCHANGED origin /\ stage' = "CLOSED"
    /\ UNCHANGED <<bindingVars, kind, chainVars, outcome, error, answer, handoff,
                   disposition, serverVars>>

Persisted == answer \in {"COMMITTED", "REPLAYED"}
Refusals == {"REFUSED", "FACE_REFUSED"}
NoEffect == IF kind = "RECOGNITION" THEN answer = "CONFLICT" ELSE error \in Refusals

\* What the composition makes of the result, an error of the closing in its
\* place, unless a handoff is retained: then the handler pauses the write.  A
\* replayed event that was received at another time than this attempt was is
\* not vouched for.
Dispose ==
    /\ stage = "CLOSED"
    /\ disposition' \in
          IF handoff = "OPEN" THEN {"PAUSED"}
          ELSE IF origin = "DISCARD" /\ error = "OTHER" THEN {"UNKNOWN_EFFECT"}
          ELSE IF answer = "REPLAYED" THEN {"BUSINESS_RESULT_PERSISTED", "UNKNOWN_EFFECT"}
          ELSE IF Persisted THEN {"BUSINESS_RESULT_PERSISTED"}
          ELSE IF NoEffect THEN {"KNOWN_NO_EFFECT"}
          ELSE {"UNKNOWN_EFFECT"}
    /\ stage' = "DONE"
    /\ UNCHANGED <<bindingVars, kind, chainVars, origin, outcome, error, answer,
                   handoff, serverVars>>

-----------------------------------------------------------------------------
(* The surroundings *)

ServerCommits ==
    /\ server = "SENT"
    /\ server' = "COMMITTED"
    /\ stored' = IF writes THEN "SAME" ELSE stored
    /\ UNCHANGED <<bindingVars, kind, stage, chainVars, resultVars, writes, seen>>

ServerAborts ==
    /\ server \in {"OPEN", "SENT"}
    /\ server' = "ABORTED"
    /\ UNCHANGED <<bindingVars, kind, stage, chainVars, resultVars, writes, seen, stored>>

\* A commit that another process sent before it ended takes effect.
StrayWrite ==
    /\ kind = "RECOGNITION" /\ stored = "NONE"
    /\ ~(writes /\ server \in {"OPEN", "SENT"})
    /\ stored' \in {"SAME", "OTHER"}
    /\ UNCHANGED <<bindingVars, kind, stage, chainVars, resultVars, server, writes, seen>>

Surroundings ==
    \/ /\ Awaiting /\ LoseOwner
       /\ UNCHANGED <<kind, stage, chainVars, resultVars, serverVars>>
    \/ /\ Awaiting /\ FreezeLedger
       /\ UNCHANGED <<kind, stage, chainVars, resultVars, serverVars>>
    \/ /\ Elapse
       /\ UNCHANGED <<kind, stage, chainVars, resultVars, serverVars>>
    \/ ServerCommits \/ ServerAborts \/ StrayWrite

Opening ==
    \/ BindAdmission \/ BindAdmissionRefused \/ UseScope
    \/ OpenFacade \/ OpenRefused \/ StartTransaction \/ StartTransactionFails \/ UndoBegin

Working ==
    \/ SendCommand \/ CommandRefused
    \/ CommandResolves \/ CommandRejects \/ CommandUnsettled
    \/ RefuseChange \/ RefuseFace

Committing ==
    \/ SendCommit \/ CommitRefused \/ CommitResolves \/ CommitRejects
    \/ FinishCommittedRound \/ FinishFailedRound
    \/ SessionEnds \/ SessionEndFails
    \/ HandOff \/ HandOffFails

Aborting ==
    \/ Seal \/ SealRefused \/ FinishSealedRound \/ OpenAbortWindow \/ ReserveAbort
    \/ SendAbort \/ AbortAnswered \/ AbortUnsettled \/ SettleTermination
    \/ CleanUp \/ CleanUpFails

Closing == LeaveAdapter \/ Recheck \/ CloseScope \/ Dispose

Next == Opening \/ Working \/ Committing \/ Aborting \/ Closing \/ Surroundings

Spec == Init /\ [][Next]_vars

-----------------------------------------------------------------------------
(* Properties *)

\* The disposition the coordinator is given is true, then and for ever: a write
\* that is reported persisted is there, one that is reported without effect has
\* changed nothing and has no commit on its way that could, whatever its
\* transaction had written when it was refused.
DispositionIsTrue ==
    /\ disposition = "BUSINESS_RESULT_PERSISTED" =>
          IF kind = "RECOGNITION" THEN stored = "SAME" ELSE server = "COMMITTED"
    /\ disposition = "KNOWN_NO_EFFECT" => ~(writes /\ server \in {"SENT", "COMMITTED"})

\* The client session is ended with no command of it in flight, and a write that
\* is over has ended it and left the adapter, unless it is paused, its session
\* still there for the recovery, or its effect is reported unknown.
SessionIsSettled ==
    /\ (executionCommand.active \/ groupCommand.active) => session # "ENDED"
    /\ (stage = "DONE" /\ disposition # "UNKNOWN_EFFECT") =>
          IF disposition = "PAUSED" THEN invoked /\ (session = "OPEN" \/ confirmed)
          ELSE session # "OPEN" /\ ~mapped

\* A write is ended by one boundary: at most one native abort is sent for it,
\* none once its commit was sent or handed to the recovery.
AbortsOnce ==
    /\ OneBoundary
    /\ abortGroup.commands <= 1
    /\ abortGroup.commands = 1 => ~invoked /\ handoff = "NONE"

\* The server session of a write is ended by one party, at the right time.
SessionEndsOnce == SessionIsSettled /\ AbortsOnce
=============================================================================
