----------------------------- MODULE AccessRules -----------------------------
(* What one operation does to the stored documents: the recognition and      *)
(* management use cases together with the persistence adapter's writes, as   *)
(* the set of images an operation may leave behind, each with its answer.    *)
(* The image of a refused operation is the documents it read.  All the       *)
(* collections are one function from document keys to documents, None where  *)
(* there is none, so that a transaction's snapshot, its writes and its       *)
(* conflicts are about keys.                                                 *)
EXTENDS AccessDecision, FiniteSets

CONSTANTS
  Quals,          \* ids a qualification may be created under
  Slots,          \* ids a face slot may be allocated under
  Sources,        \* the recognition sources
  ExternalIds,    \* event ids the sources' clients choose
  System,         \* the metadata document
  Subjects,       \* face subjects (provider and external subject)
  Capacity,       \* the most face slots (G04B_FACE_SLOT_CAPACITY, 4096)
  Inputs,         \* the requests clients make
  Arrivals,       \* the instants they are received at
  InitialDocs     \* the stores a process may be started over

Directions == {"ENTRY", "EXIT"}

EventKeys == Sources \X ExternalIds
Docs == Quals \union Slots \union Sources \union EventKeys \union {System}

Credentials == [media: {"QR"}, of: Quals \union {None}]
               \union [media: {"FACE_MATCHED"}, of: Subjects]
               \union [media: {"FACE_UNKNOWN"}, of: {None}]

RecognitionInputs == [kind: {"RECOGNIZE"}, source: Sources,
                      externalId: ExternalIds, credential: Credentials]
CreateInputs == [kind: {"CREATE"}, qualification: Quals, validFrom: Instants,
                 validUntil: Instants, face: Subjects \union {None}]
UpdateInputs == {u \in [kind: {"UPDATE"}, qualification: Quals,
                       validFrom: Instants \union {None},
                       validUntil: Instants \union {None},
                       mode: {"KEEP", "SET", "REMOVE"},
                       face: Subjects \union {None}]
                   : u.mode = "SET" => u.face # None}
RevokeInputs == [kind: {"REVOKE"}, qualification: Quals,
                 reason: {None, "given"}]

FaceSlots == [subject: Subjects, qualification: Quals \union {None},
              version: Nat]
SourceDocs == [direction: Directions, active: BOOLEAN, version: Nat]
Events == [outcome: {"ACCEPTED", "REJECTED"}, reason: Reasons,
           qualification: Quals \union {None}, to: Presences \union {None},
           receivedAt: Instants, credential: Credentials]
FaceRefusals == {"FACE_SUBJECT_ALREADY_BOUND",
                 "FACE_SUBJECT_SLOT_CAPACITY_EXHAUSTED"}
SystemDocs == [qr: Nat, face: Nat, slotCount: Nat]

\* Ids of different collections are never equal, and nothing that may be
\* null is a document, an id or a name.
ASSUME IdsAssumption ==
  /\ Quals \intersect (Slots \union Sources \union EventKeys \union {System}) = {}
  /\ Slots \intersect (Sources \union EventKeys \union {System}) = {}
  /\ Sources \intersect (EventKeys \union {System}) = {}
  /\ System \notin EventKeys
  /\ None \notin Quals \union Subjects \union Presences \union Reasons
  /\ None \notin Refusals \union FaceRefusals
  /\ None \notin Qualifications \union FaceSlots
  /\ None \notin Events
ASSUME InputsAssumption ==
  /\ Inputs \subseteq RecognitionInputs \union CreateInputs
                      \union UpdateInputs \union RevokeInputs
  /\ Arrivals \subseteq Instants
ASSUME CapacityAssumption ==
  IsFiniteSet(Slots) /\ Capacity \in Nat /\ Capacity <= Cardinality(Slots)

-----------------------------------------------------------------------------
(* Face slots.                                                               *)

Present(docs, d) == docs[d] # None

BoundSlots(docs, q) ==
  {s \in Slots : Present(docs, s) /\ docs[s].qualification = q}
EmptySlots(docs) == BoundSlots(docs, None)
SlotsOf(docs, f) == {s \in Slots : Present(docs, s) /\ docs[s].subject = f}

\* releaseFaceForQualification
Released(docs, q) ==
  [d \in Docs |-> IF d \in BoundSlots(docs, q)
                  THEN [docs[d] EXCEPT !.qualification = None,
                                       !.version = @ + 1]
                  ELSE docs[d]]

\* Mutant of FaceGuarded: a mapping changes behind the guard's back.
FaceGuardedNot(docs) == docs

FaceGuarded(docs) == [docs EXCEPT ![System].face = @ + 1]
QrGuarded(docs) == [docs EXCEPT ![System].qr = @ + 1]

\* ensureSlotCount, at the end of every write.
SlotsCounted(docs) ==
  docs[System].slotCount = Cardinality({s \in Slots : Present(docs, s)})

\* bindNewFace: an empty slot is claimed, its subject's own before any other;
\* a slot is allocated only when there is no empty one, within the capacity.
\* The unique index on the subject refuses a second slot of it.
Claimable(docs, f) ==
  IF EmptySlots(docs) \intersect SlotsOf(docs, f) # {}
  THEN EmptySlots(docs) \intersect SlotsOf(docs, f)
  ELSE EmptySlots(docs)

BindRefusal(docs, f) ==
  IF Claimable(docs, f) # {} /\ SlotsOf(docs, f) \ Claimable(docs, f) # {}
    THEN "FACE_SUBJECT_ALREADY_BOUND"
  ELSE IF Claimable(docs, f) # {} THEN None
  ELSE IF SlotsOf(docs, f) # {} THEN "FACE_SUBJECT_ALREADY_BOUND"
  ELSE IF docs[System].slotCount >= Capacity
    THEN "FACE_SUBJECT_SLOT_CAPACITY_EXHAUSTED"
  ELSE None

BoundImages(docs, q, f) ==
  IF Claimable(docs, f) # {}
  THEN {[docs EXCEPT ![s] = [subject |-> f, qualification |-> q,
                             version |-> @.version + 1]]
         : s \in Claimable(docs, f)}
  ELSE {[docs EXCEPT ![s] = [subject |-> f, qualification |-> q,
                             version |-> 0],
                     ![System].slotCount = @ + 1]
         : s \in {s \in Slots : ~Present(docs, s)}}

-----------------------------------------------------------------------------
(* The outcomes of an operation.                                             *)

Effect(docs, status, detail) ==
  [docs |-> docs, status |-> status, detail |-> detail]

\* A transaction whose slots do not add up is abandoned.
Written(before, after, status, detail) ==
  IF SlotsCounted(after) THEN Effect(after, status, detail)
  ELSE Effect(before, "FAILED", "SLOT_COUNT")

(* Recognition: an event already stored under the key answers for ever, if   *)
(* it was caused by the same credential; a new one is decided, and the       *)
(* decision, its effects and the event are written together with the guards. *)

Resolved(docs, credential) ==
  CASE credential.media = "QR" /\ credential.of # None ->
         IF Present(docs, credential.of) THEN credential.of ELSE None
    [] credential.media = "FACE_MATCHED"
       /\ SlotsOf(docs, credential.of) \ EmptySlots(docs) # {} ->
         docs[CHOOSE s \in SlotsOf(docs, credential.of) \ EmptySlots(docs)
                : TRUE].qualification
    [] OTHER -> None

Unresolved(credential) ==
  CASE credential.media = "QR" -> Rejected("INVALID_QR_CREDENTIAL")
    [] credential.media = "FACE_MATCHED" -> Rejected("FACE_SUBJECT_NOT_MAPPED")
    [] OTHER -> Rejected("FACE_UNKNOWN")

\* An inactive source resolves nobody, so it changes no qualification.
Attempted(docs, r) ==
  IF docs[r.source].active THEN Resolved(docs, r.credential) ELSE None

Decision(docs, r, at) ==
  LET q == Attempted(docs, r)
  IN  IF ~docs[r.source].active THEN Rejected("SOURCE_INACTIVE")
      ELSE IF q = None THEN Unresolved(r.credential)
      ELSE IF docs[r.source].direction = "ENTRY"
           THEN EntryDecision(docs[q], at)
      ELSE ExitDecision(docs[q])

KeyOf(r) == <<r.source, r.externalId>>

EventOf(docs, r, at) ==
  LET decision == Decision(docs, r, at)
  IN  [outcome |-> decision.outcome, reason |-> decision.reason,
       qualification |-> Attempted(docs, r), to |-> decision.to,
       receivedAt |-> at, credential |-> r.credential]

RecognitionImage(docs, r, at) ==
  LET q == Attempted(docs, r)
      decision == Decision(docs, r, at)
  IN  [d \in Docs |->
         IF d = r.source THEN [docs[d] EXCEPT !.version = @ + 1]
         ELSE IF d = KeyOf(r) THEN EventOf(docs, r, at)
         ELSE IF d = System /\ r.credential.media = "QR"
           THEN [docs[d] EXCEPT !.qr = @ + 1]
         ELSE IF d = System THEN [docs[d] EXCEPT !.face = @ + 1]
         ELSE IF q # None /\ d = q THEN Recognized(docs[d], decision, at)
         ELSE IF q # None /\ decision.release THEN Released(docs, q)[d]
         ELSE docs[d]]

\* Mutant of Replay: the event id alone is the identity of a request.
ReplayAnyCredential(docs, r) == Effect(docs, "REPLAYED", docs[KeyOf(r)])

Replay(docs, r) ==
  IF docs[KeyOf(r)].credential = r.credential
  THEN Effect(docs, "REPLAYED", docs[KeyOf(r)])
  ELSE Effect(docs, "CONFLICT", None)

RecognitionEffects(docs, r, at) ==
  IF Present(docs, KeyOf(r)) THEN {Replay(docs, r)}
  ELSE {Written(docs, RecognitionImage(docs, r, at), "COMMITTED",
                EventOf(docs, r, at))}

-----------------------------------------------------------------------------
(* Management.                                                               *)

Refused(docs, reason) == Effect(docs, "REFUSED", reason)
Changed(docs, after) == Written(docs, after, "CHANGED", None)

\* The id is a fresh UUID: no document has it.
CreateEffects(docs, r, at) ==
  LET refusal == WindowRefusal(r.validFrom, r.validUntil, at)
      created == QrGuarded([docs EXCEPT
                   ![r.qualification] = NewQualification(r.validFrom,
                                                         r.validUntil)])
  IN  IF refusal # None THEN {Refused(docs, refusal)}
      ELSE IF r.face = None THEN {Changed(docs, created)}
      ELSE IF BindRefusal(created, r.face) # None
        THEN {Refused(docs, BindRefusal(created, r.face))}
      ELSE {Changed(docs, FaceGuarded(bound))
             : bound \in BoundImages(created, r.qualification, r.face)}

\* The terminal expiry a refused update or revocation leaves behind.
ExpiryImage(docs, q, at) ==
  FaceGuarded([Released(docs, q) EXCEPT ![q].expiredAt = at,
                                        ![q].version = @ + 1])

RefusalEffects(docs, q, refusal, at) ==
  IF refusal = "QUALIFICATION_ALREADY_EXPIRED"
     /\ NeedsTerminalExpiry(docs[q], at)
  THEN {Written(docs, ExpiryImage(docs, q, at), "EXPIRED", refusal)}
  ELSE {Refused(docs, refusal)}

RevokeEffects(docs, r, at) ==
  LET q == r.qualification
      refusal == RevocationRefusal(docs[q], r.reason, at)
  IN  IF ~Present(docs, q) THEN {Refused(docs, "QUALIFICATION_NOT_FOUND")}
      ELSE IF refusal # None THEN RefusalEffects(docs, q, refusal, at)
      ELSE {Changed(docs, FaceGuarded([Released(docs, q) EXCEPT
                                         ![q].revokedAt = at,
                                         ![q].version = @ + 1]))}

\* The mapping part of an update: the images it may leave, none if refused.
Remapped(docs, q, r) ==
  IF r.mode = "REMOVE" THEN {Released(docs, q)}
  ELSE BoundImages(Released(docs, q), q, r.face)

Updated(docs, q, from, until) ==
  [docs EXCEPT ![q].validFrom = from, ![q].validUntil = until,
               ![q].version = @ + 1]

UpdateEffects(docs, r, at) ==
  LET q == r.qualification
      from == IF r.validFrom = None THEN docs[q].validFrom ELSE r.validFrom
      until == IF r.validUntil = None THEN docs[q].validUntil ELSE r.validUntil
      refusal == UpdateRefusal(docs[q], from, until, at)
      sameFace == r.mode = "SET"
                  /\ BoundSlots(docs, q) \intersect SlotsOf(docs, r.face) # {}
      mappingKept == r.mode = "KEEP" \/ sameFace
      bindRefusal == IF r.mode = "SET"
                     THEN BindRefusal(Released(docs, q), r.face) ELSE None
  IN  IF ~Present(docs, q) THEN {Refused(docs, "QUALIFICATION_NOT_FOUND")}
      ELSE IF refusal # None THEN RefusalEffects(docs, q, refusal, at)
      ELSE IF mappingKept THEN {Changed(docs, Updated(docs, q, from, until))}
      ELSE IF bindRefusal # None THEN {Refused(docs, bindRefusal)}
      ELSE {Changed(docs, FaceGuarded(Updated(mapped, q, from, until)))
             : mapped \in Remapped(docs, q, r)}

Effects(docs, r, at) ==
  CASE r.kind = "RECOGNIZE" -> RecognitionEffects(docs, r, at)
    [] r.kind = "CREATE" -> CreateEffects(docs, r, at)
    [] r.kind = "UPDATE" -> UpdateEffects(docs, r, at)
    [] r.kind = "REVOKE" -> RevokeEffects(docs, r, at)

\* An id is taken once its document exists; a request that creates it again
\* cannot be made, ids being drawn at random.
Possible(docs, r) == r.kind = "CREATE" => ~Present(docs, r.qualification)

-----------------------------------------------------------------------------
(* What the documents satisfy, seeded and ever after.                        *)

DocsOK(docs) ==
  /\ docs = [d \in Docs |-> docs[d]]
  /\ \A q \in Quals : Present(docs, q) =>
       docs[q] \in Qualifications /\ LegalQualification(docs[q])
  /\ \A s \in Slots : Present(docs, s) => docs[s] \in FaceSlots
  /\ \A s \in Sources : docs[s] \in SourceDocs
  /\ \A k \in EventKeys : Present(docs, k) => docs[k] \in Events
  /\ docs[System] \in SystemDocs

\* The accepted events that moved a qualification to a presence.
MovedTo(docs, q, presence) ==
  {k \in EventKeys : /\ Present(docs, k)
                     /\ docs[k].qualification = q
                     /\ docs[k].to = presence}

ExplainedBy(docs, q, entries, exits) ==
  /\ (docs[q].presence = "NOT_ENTERED") = (entries = {})
  /\ (docs[q].presence = "EXITED") = (exits # {})
  /\ \A k, l \in entries : k = l
  /\ \A k, l \in exits : k = l
  /\ \A k \in entries : /\ docs[k].outcome = "ACCEPTED"
                        /\ docs[k].receivedAt = docs[q].enteredAt
                        /\ docs[q].validFrom <= docs[q].enteredAt
                        /\ docs[q].enteredAt < docs[q].validUntil
  /\ \A k \in exits : /\ docs[k].outcome = "ACCEPTED"
                      /\ docs[k].receivedAt = docs[q].exitedAt

PresenceExplained(docs) ==
  /\ \A q \in Quals : Present(docs, q) =>
       ExplainedBy(docs, q, MovedTo(docs, q, "INSIDE"),
                            MovedTo(docs, q, "EXITED"))
  /\ \A k \in EventKeys : Present(docs, k) =>
       /\ docs[k].qualification # None =>
            Present(docs, docs[k].qualification)
       /\ docs[k].outcome = "REJECTED" => docs[k].to = None

\* It may still be entered or left: at some instant a mapping may be retained
\* (qualificationCanRetainFaceMapping).
MayHoldFace(q) ==
  q.presence # "EXITED" /\ q.revokedAt = None /\ q.expiredAt = None

FacesAgree(docs) ==
  /\ \A s \in Slots : Present(docs, s) /\ docs[s].qualification # None =>
       /\ Present(docs, docs[s].qualification)
       /\ MayHoldFace(docs[docs[s].qualification])
  /\ \A q \in Quals : \A s, t \in BoundSlots(docs, q) : s = t
  /\ \A f \in Subjects : \A s, t \in SlotsOf(docs, f) : s = t
  /\ SlotsCounted(docs)
  /\ docs[System].slotCount <= Capacity

\* What a store is seeded with is legal.
ASSUME SeedsAssumption ==
  \A docs \in InitialDocs :
    DocsOK(docs) /\ PresenceExplained(docs) /\ FacesAgree(docs)
=============================================================================
