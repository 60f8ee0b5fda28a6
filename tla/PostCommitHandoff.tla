--------------------------- MODULE PostCommitHandoff ---------------------------
(***************************************************************************)
(* What becomes of a transaction whose commit has no answer, once the      *)
(* write is paused: g10c-post-commit-unknown-handoff.ts keeps the retained *)
(* session behind an opaque token, and lets its taker send the original    *)
(* commit again, read what is stored, and release the session, each        *)
(* through a one-shot capability and within the write's budget.            *)
(*                                                                         *)
(* It goes on where ScopedTransaction ends, on its server, session and     *)
(* binding.  The taker calls in any order: which call is allowed when is   *)
(* the hand-off's business, and when to call is the scheduler's            *)
(* (UnknownRecovery).  A call that is refused and changes nothing has no   *)
(* action.                                                                 *)
(***************************************************************************)
EXTENDS ScopedTransaction

VARIABLES
    status,         \* HandoffState.status, "DROPPED" once its state is deleted
    claimed,        \* originalCommitTerminatorClaimed
    admitted,       \* confirmationActionAdmitted
    terminator,     \* the last sender of the original commit
    reader,         \* the last reader of the canonical result
    cleaner         \* the cleaner, once terminalCleanupClaimed

workerVars == <<claimed, admitted, terminator, reader, cleaner>>
handoffVars == <<status, workerVars>>

HandoffInit ==
    /\ status = "RETAINED"
    /\ claimed = FALSE
    /\ admitted = FALSE
    /\ terminator = "NONE"
    /\ reader = "NONE"
    /\ cleaner = "NONE"

\* A sender that was admitted the wrong command gives it back before anything
\* else happens.
Retained == stage = "DONE" /\ handoff = "OPEN" /\ terminator # "ASTRAY"

\* requireTakenHandoff, up to the assertion that the confirmation is current
Taken == Retained /\ status = "TAKEN"

\* Every call of the taker asserts the confirmation before it does its work.
ConfirmationIsCurrent == BindingEntered /\ unknownCommit

\* The probe of the reader: is the read, and not another command, next?  It
\* takes no permit.
CanonicalReadDue == ConfirmationIsCurrent /\ Ledger!NextKind = "CANONICAL_READ"

\* What the worker leaves alone of the write, all but its session.
WriteStays == UNCHANGED <<kind, stage, step, facade, invoked, resultVars, writes, seen, stored>>
SessionStays == UNCHANGED <<mapped, session>>

-----------------------------------------------------------------------------
(* The queue *)

\* owner.take
Take ==
    /\ Retained /\ status = "RETAINED"
    /\ ConfirmationIsCurrent
    /\ status' = "TAKEN"
    /\ UNCHANGED <<workerVars, bindingVars, server>> /\ WriteStays /\ SessionStays

\* Every call asserts the owner first, and one that is stale closes the binding.
OwnerIsStale ==
    /\ Retained /\ status # "DROPPED"
    /\ ~owner /\ FreezeBinding
    /\ UNCHANGED <<handoffVars, server>> /\ WriteStays /\ SessionStays

-----------------------------------------------------------------------------
(* The original commit, sent again on the retained session *)

SettleAs(settled) == SettleConfirmation /\ result' = settled

CreateTerminator ==
    /\ Taken
    /\ BindingIsCurrent
    /\ ~claimed /\ ~admitted
    /\ claimed' = TRUE
    /\ terminator' = "READY"
    /\ UNCHANGED <<status, admitted, reader, cleaner, server>>
    /\ WriteStays /\ SessionStays

\* admitNextConfirmation: the ledger says which command is next.
AttemptOriginalCommit ==
    /\ Taken /\ terminator = "READY"
    /\ AdmitConfirmation
    /\ admitted' = TRUE
    /\ IF Ledger!NextKind = "ORIGINAL_COMMIT"
       THEN /\ terminator' = "SENDING"
            /\ server' = IF server = "OPEN" THEN "SENT" ELSE server
       ELSE terminator' = "ASTRAY" /\ UNCHANGED server
    /\ UNCHANGED <<status, claimed, reader, cleaner>> /\ WriteStays /\ SessionStays

\* The sender is spent before it is refused, and its claim stays.
AttemptRefused ==
    /\ Retained /\ terminator = "READY"
    /\ \/ status = "DROPPED" /\ UNCHANGED bindingVars
       \/ status = "TAKEN" /\ Throws(AdmitConfirmation)
    /\ terminator' = "CLOSED"
    /\ UNCHANGED <<status, claimed, admitted, reader, cleaner, server>>
    /\ WriteStays /\ SessionStays

\* The permit of a canonical read is settled unknown; the claim stays.
GiveBack ==
    /\ terminator = "ASTRAY"
    /\ \/ SettleAs("STILL_UNKNOWN") /\ admitted' = FALSE
       \/ Throws(SettleConfirmation) /\ UNCHANGED admitted
    /\ terminator' = "CLOSED"
    /\ UNCHANGED <<status, claimed, reader, cleaner, server>>
    /\ WriteStays /\ SessionStays

\* A commit that resolves is there; a rejection tells nothing, and another
\* sender may be made for the turn after the next.
OriginalCommitAnswered ==
    /\ terminator = "SENDING"
    /\ \/ server = "COMMITTED" /\ SettleAs("CANONICAL_RESULT") /\ UNCHANGED claimed
       \/ SettleAs("STILL_UNKNOWN") /\ claimed' = FALSE
    /\ admitted' = FALSE
    /\ terminator' = "CLOSED"
    /\ UNCHANGED <<status, reader, cleaner, server>> /\ WriteStays /\ SessionStays

OriginalCommitUnsettled ==
    /\ terminator = "SENDING"
    /\ Throws(SettleConfirmation)
    /\ terminator' = "CLOSED"
    /\ UNCHANGED <<status, claimed, admitted, reader, cleaner, server>>
    /\ WriteStays /\ SessionStays

-----------------------------------------------------------------------------
(* The canonical read *)

\* assertG10cPostCommitUnknownCanonicalMaterial: a replay has captured no image.
Material == writes

\* What is stored is the image of this write (ResultImage).
Matching == IF kind = "RECOGNITION" THEN stored = "SAME" ELSE server = "COMMITTED"

CreateReader ==
    /\ Taken
    /\ reader \in {"NONE", "CLOSED"}
    /\ BindingIsCurrent
    /\ reader' = "READY"
    /\ UNCHANGED <<status, claimed, admitted, terminator, cleaner, server>>
    /\ WriteStays /\ SessionStays

\* A reader that comes too early, or without material, stays ready.
ConfirmCanonicalRead ==
    /\ Taken /\ reader = "READY"
    /\ Material
    /\ CanonicalReadDue
    /\ AdmitConfirmation
    /\ admitted' = TRUE
    /\ reader' = "READING"
    /\ UNCHANGED <<status, claimed, terminator, cleaner, server>>
    /\ WriteStays /\ SessionStays

\* A read that fails is inconclusive too.
CanonicalReadAnswered ==
    /\ reader = "READING"
    /\ \/ Matching /\ SettleAs("CANONICAL_RESULT")
       \/ SettleAs("STILL_UNKNOWN")
    /\ admitted' = FALSE
    /\ reader' = "CLOSED"
    /\ UNCHANGED <<status, claimed, terminator, cleaner, server>>
    /\ WriteStays /\ SessionStays

CanonicalReadUnsettled ==
    /\ reader = "READING"
    /\ Throws(SettleConfirmation)
    /\ reader' = "CLOSED"
    /\ UNCHANGED <<status, claimed, admitted, terminator, cleaner, server>>
    /\ WriteStays /\ SessionStays

-----------------------------------------------------------------------------
(* The release of the session *)

\* assertOperationUnknownCommitConfirmationTerminal
Terminal ==
    /\ unknownCommit
    /\ ~action /\ ~confirmationCommand.active
    /\ result \in {"CANONICAL_RESULT", "NO_EFFECT_CONFIRMED"}

\* Mutant of CreateCleaner: a hand-off that is taken may be cleaned up.
CreateCleanerUnconfirmed ==
    /\ Taken
    /\ BindingIsCurrent
    /\ cleaner = "NONE"
    /\ cleaner' = "READY"
    /\ UNCHANGED <<status, claimed, admitted, terminator, reader, server>>
    /\ WriteStays /\ SessionStays

CreateCleaner ==
    /\ Taken
    /\ BindingIsCurrent /\ Terminal
    /\ cleaner = "NONE"
    /\ cleaner' = "READY"
    /\ UNCHANGED <<status, claimed, admitted, terminator, reader, server>>
    /\ WriteStays /\ SessionStays

\* A cleaner that is asked for too early closes the binding, for good.
CreateCleanerEarly ==
    /\ Taken
    /\ BindingEntered /\ ~Terminal
    /\ FreezeBinding
    /\ UNCHANGED <<handoffVars, server>> /\ WriteStays /\ SessionStays

\* releaseG10cConfirmedRetainedTransaction: the adapter forgets the transaction
\* it holds before it ends the session.
ReleaseSession ==
    /\ Retained /\ cleaner = "READY"
    /\ BindingIsCurrent
    /\ mapped /\ invoked /\ facade = "NONE"
    /\ mapped' = FALSE
    /\ cleaner' = "RELEASING"
    /\ UNCHANGED <<status, claimed, admitted, terminator, reader, session, server>>
    /\ WriteStays

\* A stale owner, a transaction the adapter does not hold any more, or a session
\* that cannot be told to be idle: the cleaner is spent all the same.
ReleaseRefused ==
    /\ Retained /\ cleaner = "READY"
    /\ Throws(BindingIsCurrent) \/ BindingIsCurrent
    /\ cleaner' = "CLOSED"
    /\ status' = "DROPPED"
    /\ UNCHANGED <<claimed, admitted, terminator, reader, server>>
    /\ WriteStays /\ SessionStays

SessionReleased ==
    /\ cleaner = "RELEASING"
    /\ session' \in {"ENDED", session}
    /\ cleaner' = "CLOSED"
    /\ status' = "DROPPED"
    /\ UNCHANGED <<bindingVars, claimed, admitted, terminator, reader, mapped, server>>
    /\ WriteStays

-----------------------------------------------------------------------------

HandoffNext ==
    \/ Next /\ terminator # "ASTRAY" /\ UNCHANGED handoffVars
    \/ Take \/ OwnerIsStale
    \/ CreateTerminator \/ AttemptOriginalCommit \/ AttemptRefused \/ GiveBack
    \/ OriginalCommitAnswered \/ OriginalCommitUnsettled
    \/ CreateReader \/ ConfirmCanonicalRead
    \/ CanonicalReadAnswered \/ CanonicalReadUnsettled
    \/ CreateCleaner \/ CreateCleanerEarly
    \/ ReleaseSession \/ ReleaseRefused \/ SessionReleased

HandoffSpec == Init /\ HandoffInit /\ [][HandoffNext]_<<vars, handoffVars>>

\* Property.  The retained session is spent once and by one: while a command of
\* the confirmation is on its way nobody else sends one or releases the session;
\* what the confirmation says of the write is true; and the session is ended
\* only for a write that is confirmed.
HandoffIsSpentOnce ==
    /\ terminator = "SENDING" =>
          /\ session = "OPEN" /\ status = "TAKEN"
          /\ confirmationCommand.active /\ reader # "READING"
    /\ (confirmationCommand.active /\ unknownCommit) => cleaner = "NONE"
    /\ confirmed => IF writes THEN Matching ELSE server = "COMMITTED"
    /\ (handoff = "OPEN" /\ session = "ENDED") => confirmed
=============================================================================
