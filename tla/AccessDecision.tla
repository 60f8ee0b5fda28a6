--------------------------- MODULE AccessDecision ---------------------------
(* The pure rules of a qualification: who may enter and leave, and what      *)
(* management may still change (src/access/domain).  A qualification is      *)
(* entered once and left once, inside its half-open window; until it is      *)
(* entered it may be updated, revoked, or ended by its expiry.               *)
(* Only the fields a decision reads or writes are kept: names, authors and   *)
(* creation times are left out, and a revocation is its instant alone (its   *)
(* reason is written by the same $set).                                      *)
EXTENDS Integers

CONSTANTS
  None,                     \* null: no instant, no document, no reason
  Instants                  \* the milliseconds a document may hold

ASSUME InstantsAssumption == Instants \subseteq Nat /\ None \notin Instants

Presences == {"NOT_ENTERED", "INSIDE", "EXITED"}

Qualifications ==
  [version: Nat, validFrom: Instants, validUntil: Instants,
   presence: Presences,
   enteredAt: Instants \union {None}, exitedAt: Instants \union {None},
   revokedAt: Instants \union {None}, expiredAt: Instants \union {None}]

\* What every reader of a document asserts, and the collection's validator.
LegalQualification(q) ==
  /\ q.validFrom < q.validUntil
  /\ (q.presence = "NOT_ENTERED") = (q.enteredAt = None)
  /\ (q.presence = "EXITED") = (q.exitedAt # None)
  /\ q.revokedAt = None \/ q.expiredAt = None
  /\ q.presence # "NOT_ENTERED" => q.revokedAt = None /\ q.expiredAt = None

NewQualification(from, until) ==
  [version |-> 0, validFrom |-> from, validUntil |-> until,
   presence |-> "NOT_ENTERED", enteredAt |-> None, exitedAt |-> None,
   revokedAt |-> None, expiredAt |-> None]

-----------------------------------------------------------------------------
(* Recognition: the decision names the presence the qualification moves to   *)
(* (None: it stays), whether it ends by expiry, and whether its face mapping *)
(* is released.                                                              *)

Reasons == {"SOURCE_INACTIVE", "INVALID_QR_CREDENTIAL", "FACE_UNKNOWN",
            "FACE_SUBJECT_NOT_MAPPED", "QUALIFICATION_REVOKED",
            "ALREADY_INSIDE", "QUALIFICATION_ALREADY_USED",
            "QUALIFICATION_NOT_YET_VALID", "QUALIFICATION_EXPIRED",
            "ENTRY_GRANTED", "NOT_INSIDE", "ALREADY_EXITED", "EXIT_RECORDED"}

Rejected(reason) ==
  [outcome |-> "REJECTED", reason |-> reason, to |-> None,
   expire |-> FALSE, release |-> FALSE]

EntryDecision(q, at) ==
  CASE q.revokedAt # None -> Rejected("QUALIFICATION_REVOKED")
    [] q.revokedAt = None /\ q.presence = "INSIDE" -> Rejected("ALREADY_INSIDE")
    [] q.revokedAt = None /\ q.presence = "EXITED" ->
         Rejected("QUALIFICATION_ALREADY_USED")
    [] OTHER ->
         IF at < q.validFrom THEN Rejected("QUALIFICATION_NOT_YET_VALID")
         ELSE IF q.expiredAt # None THEN Rejected("QUALIFICATION_EXPIRED")
         ELSE IF at >= q.validUntil
              THEN [Rejected("QUALIFICATION_EXPIRED")
                      EXCEPT !.expire = TRUE, !.release = TRUE]
         ELSE [outcome |-> "ACCEPTED", reason |-> "ENTRY_GRANTED",
               to |-> "INSIDE", expire |-> FALSE, release |-> FALSE]

\* Mutant of ExitDecision: leaving keeps the face.
ExitDecisionKeepingFace(q) ==
  IF q.presence = "INSIDE"
  THEN [outcome |-> "ACCEPTED", reason |-> "EXIT_RECORDED", to |-> "EXITED",
        expire |-> FALSE, release |-> FALSE]
  ELSE Rejected("NOT_INSIDE")

ExitDecision(q) ==
  CASE q.presence = "NOT_ENTERED" -> Rejected("NOT_INSIDE")
    [] q.presence = "EXITED" -> Rejected("ALREADY_EXITED")
    [] OTHER -> [outcome |-> "ACCEPTED", reason |-> "EXIT_RECORDED",
                 to |-> "EXITED", expire |-> FALSE, release |-> TRUE]

\* The write of a decision: every resolved attempt, a rejected one too,
\* raises the version.
Recognized(q, decision, at) ==
  [q EXCEPT !.version = @ + 1,
            !.presence = IF decision.to # None THEN decision.to ELSE @,
            !.enteredAt = IF decision.to = "INSIDE" THEN at ELSE @,
            !.exitedAt = IF decision.to = "EXITED" THEN at ELSE @,
            !.expiredAt = IF decision.expire THEN at ELSE @]

-----------------------------------------------------------------------------
(* Management.                                                               *)

Refusals == {"QUALIFICATION_ALREADY_ENTERED", "QUALIFICATION_ALREADY_USED",
             "QUALIFICATION_ALREADY_REVOKED", "QUALIFICATION_ALREADY_EXPIRED",
             "REVOCATION_REASON_REQUIRED", "VALID_UNTIL_NOT_AFTER_VALID_FROM",
             "VALID_UNTIL_NOT_AFTER_RECEIVED_AT"}

WindowRefusal(from, until, at) ==
  IF until <= from THEN "VALID_UNTIL_NOT_AFTER_VALID_FROM"
  ELSE IF until <= at THEN "VALID_UNTIL_NOT_AFTER_RECEIVED_AT"
  ELSE None

\* Mutant of MutationRefusal: someone inside is still managed.
MutationRefusalInside(q, at) ==
  IF q.presence = "EXITED" THEN "QUALIFICATION_ALREADY_USED"
  ELSE IF q.revokedAt # None THEN "QUALIFICATION_ALREADY_REVOKED"
  ELSE None

MutationRefusal(q, at) ==
  IF q.presence = "INSIDE" THEN "QUALIFICATION_ALREADY_ENTERED"
  ELSE IF q.presence = "EXITED" THEN "QUALIFICATION_ALREADY_USED"
  ELSE IF q.revokedAt # None THEN "QUALIFICATION_ALREADY_REVOKED"
  ELSE IF q.expiredAt # None \/ at >= q.validUntil
       THEN "QUALIFICATION_ALREADY_EXPIRED"
  ELSE None

UpdateRefusal(q, from, until, at) ==
  IF MutationRefusal(q, at) # None THEN MutationRefusal(q, at)
  ELSE WindowRefusal(from, until, at)

RevocationRefusal(q, reason, at) ==
  IF MutationRefusal(q, at) # None THEN MutationRefusal(q, at)
  ELSE IF reason = None THEN "REVOCATION_REASON_REQUIRED"
  ELSE None

\* A refused change still persists the expiry it ran into, once.
NeedsTerminalExpiry(q, at) ==
  /\ q.presence = "NOT_ENTERED"
  /\ q.revokedAt = None
  /\ q.expiredAt = None
  /\ at >= q.validUntil
=============================================================================
