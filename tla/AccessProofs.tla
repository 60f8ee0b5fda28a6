---------------------------- MODULE AccessProofs ----------------------------
(* The access documents, in four parts.  The first is about operations       *)
(* alone, for any ids, inputs and capacity: every operation keeps the        *)
(* documents legal, explained and in agreement, and moves forward whatever   *)
(* it depends on.  The second is the invariant of the transactions: what     *)
(* each of them read is a store the committed documents have moved on from,  *)
(* and what it has written nobody else has written or changed.  With it,     *)
(* MergeIsEffect makes every commit one operation on the committed           *)
(* documents.  The third draws from it that the image of a commit in doubt   *)
(* tells whether it was applied; the last is about the routes: what a        *)
(* request has behind it until its answer, and that the answer is true.      *)
EXTENDS ResultImage, RouteWork, TLAPS

-----------------------------------------------------------------------------
(* Decisions.                                                                *)

Decisions == [outcome: {"ACCEPTED", "REJECTED"}, reason: Reasons,
              to: {None, "INSIDE", "EXITED"}, expire: BOOLEAN,
              release: BOOLEAN]

\* What the writes rely on a decision about q for.
Sound(q, d, at) ==
  /\ d \in Decisions
  /\ (d.outcome = "REJECTED") = (d.to = None)
  /\ d.to = "INSIDE" =>
       /\ q.presence = "NOT_ENTERED" /\ q.revokedAt = None
       /\ q.expiredAt = None /\ q.validFrom <= at /\ at < q.validUntil
       /\ ~d.expire
  /\ d.to = "EXITED" => q.presence = "INSIDE" /\ d.release /\ ~d.expire
  /\ d.expire =>
       /\ q.presence = "NOT_ENTERED" /\ q.revokedAt = None
       /\ q.expiredAt = None /\ d.release

NoneIsNoName ==
  /\ None \notin Quals /\ None \notin Subjects
  /\ None \notin Presences /\ None \notin Reasons /\ None \notin Instants

LEMMA NoneFacts == NoneIsNoName
  BY IdsAssumption, InstantsAssumption DEF NoneIsNoName

LEMMA RejectionIsSound ==
  ASSUME NEW q, NEW at, NEW reason \in Reasons
  PROVE  Sound(q, Rejected(reason), at) /\ Rejected(reason).to = None
  BY NoneFacts DEF Sound, Rejected, Decisions, NoneIsNoName, Presences

LEMMA EntryIsSound ==
  ASSUME NEW q \in Qualifications, LegalQualification(q), NEW at \in Instants
  PROVE  Sound(q, EntryDecision(q, at), at)
<1>. DEFINE d == EntryDecision(q, at)
<1>1. CASE q.revokedAt # None
  <2>. d = Rejected("QUALIFICATION_REVOKED")
    BY <1>1 DEF EntryDecision
  <2>. QED  BY RejectionIsSound DEF Reasons
<1>2. CASE q.revokedAt = None /\ q.presence = "INSIDE"
  <2>. d = Rejected("ALREADY_INSIDE")
    BY <1>2 DEF EntryDecision
  <2>. QED  BY RejectionIsSound DEF Reasons
<1>3. CASE q.revokedAt = None /\ q.presence = "EXITED"
  <2>. d = Rejected("QUALIFICATION_ALREADY_USED")
    BY <1>3 DEF EntryDecision
  <2>. QED  BY RejectionIsSound DEF Reasons
<1>4. CASE q.revokedAt = None /\ q.presence = "NOT_ENTERED"
  <2>. /\ at \in Nat /\ q.validFrom \in Nat /\ q.validUntil \in Nat
    BY InstantsAssumption DEF Qualifications
  <2>1. CASE at < q.validFrom
    <3>. d = Rejected("QUALIFICATION_NOT_YET_VALID")
      BY <1>4, <2>1 DEF EntryDecision
    <3>. QED  BY RejectionIsSound DEF Reasons
  <2>2. CASE ~(at < q.validFrom) /\ q.expiredAt # None
    <3>. d = Rejected("QUALIFICATION_EXPIRED")
      BY <1>4, <2>2 DEF EntryDecision
    <3>. QED  BY RejectionIsSound DEF Reasons
  <2>3. CASE ~(at < q.validFrom) /\ q.expiredAt = None /\ at >= q.validUntil
    <3>. d = [outcome |-> "REJECTED", reason |-> "QUALIFICATION_EXPIRED",
              to |-> None, expire |-> TRUE, release |-> TRUE]
      BY <1>4, <2>3 DEF EntryDecision, Rejected
    <3>. QED  BY <1>4, <2>3, NoneFacts
              DEF Sound, Decisions, Reasons, NoneIsNoName, Presences
  <2>4. CASE ~(at < q.validFrom) /\ q.expiredAt = None /\ ~(at >= q.validUntil)
    <3>. d = [outcome |-> "ACCEPTED", reason |-> "ENTRY_GRANTED",
              to |-> "INSIDE", expire |-> FALSE, release |-> FALSE]
      BY <1>4, <2>4 DEF EntryDecision
    <3>. QED  BY <1>4, <2>4, NoneFacts
              DEF Sound, Decisions, Reasons, NoneIsNoName, Presences
  <2>. QED  BY <2>1, <2>2, <2>3, <2>4
<1>. QED  BY <1>1, <1>2, <1>3, <1>4 DEF Qualifications, Presences

LEMMA ExitIsSound ==
  ASSUME NEW q \in Qualifications, NEW at
  PROVE  Sound(q, ExitDecision(q), at)
<1>. DEFINE d == ExitDecision(q)
<1>1. CASE q.presence = "NOT_ENTERED"
  <2>. d = Rejected("NOT_INSIDE")
    BY <1>1 DEF ExitDecision
  <2>. QED  BY RejectionIsSound DEF Reasons
<1>2. CASE q.presence = "EXITED"
  <2>. d = Rejected("ALREADY_EXITED")
    BY <1>2 DEF ExitDecision
  <2>. QED  BY RejectionIsSound DEF Reasons
<1>3. CASE q.presence = "INSIDE"
  <2>. d = [outcome |-> "ACCEPTED", reason |-> "EXIT_RECORDED",
            to |-> "EXITED", expire |-> FALSE, release |-> TRUE]
    BY <1>3 DEF ExitDecision
  <2>. QED  BY <1>3, NoneFacts
            DEF Sound, Decisions, Reasons, NoneIsNoName, Presences
<1>. QED  BY <1>1, <1>2, <1>3 DEF Qualifications, Presences

\* A recognition leaves a legal qualification, one version on.
LEMMA RecognizedIsLegal ==
  ASSUME NEW q \in Qualifications, LegalQualification(q), NEW at \in Instants,
         NEW d, Sound(q, d, at)
  PROVE  /\ Recognized(q, d, at) \in Qualifications
         /\ LegalQualification(Recognized(q, d, at))
         /\ Recognized(q, d, at).version = q.version + 1
<1>. DEFINE p == Recognized(q, d, at)
<1>. /\ d \in Decisions
     /\ d.to \in {None, "INSIDE", "EXITED"}
     /\ d.expire \in BOOLEAN
     /\ q.version + 1 \in Nat
  BY DEF Sound, Decisions, Qualifications
<1>. None \notin Presences /\ None \notin Instants
  BY NoneFacts DEF NoneIsNoName
<1>1. CASE d.to = "INSIDE"
  <2>1. d.to # None /\ ~d.expire
    BY <1>1 DEF Sound, Presences
  <2>. p = [q EXCEPT !.version = q.version + 1, !.presence = "INSIDE",
                     !.enteredAt = at]
    BY <1>1, <2>1 DEF Recognized, Qualifications
  <2>2. /\ q.presence = "NOT_ENTERED" /\ q.revokedAt = None /\ q.expiredAt = None
        /\ at # None
    BY <1>1 DEF Sound, LegalQualification
  <2>3. p \in Qualifications
    BY DEF Qualifications, Presences
  <2>4. /\ p.version = q.version + 1 /\ p.presence = d.to
        /\ p.enteredAt = at /\ p.exitedAt = q.exitedAt
        /\ p.revokedAt = None /\ p.expiredAt = None
        /\ p.validFrom = q.validFrom /\ p.validUntil = q.validUntil
    BY <1>1, <2>2 DEF Qualifications
  <2>. QED  BY <1>1, <2>2, <2>3, <2>4 DEF LegalQualification
<1>2. CASE d.to = "EXITED"
  <2>1. d.to # None /\ ~d.expire
    BY <1>2 DEF Sound, Presences
  <2>. p = [q EXCEPT !.version = q.version + 1, !.presence = "EXITED",
                     !.exitedAt = at]
    BY <1>2, <2>1 DEF Recognized, Qualifications
  <2>2. /\ q.presence = "INSIDE" /\ q.revokedAt = None /\ q.expiredAt = None
        /\ at # None
    BY <1>2 DEF Sound, LegalQualification
  <2>3. p \in Qualifications
    BY DEF Qualifications, Presences
  <2>4. /\ p.version = q.version + 1 /\ p.presence = d.to
        /\ p.exitedAt = at /\ p.enteredAt = q.enteredAt
        /\ p.revokedAt = None /\ p.expiredAt = None
        /\ p.validFrom = q.validFrom /\ p.validUntil = q.validUntil
    BY <1>2, <2>2 DEF Qualifications
  <2>. QED  BY <1>2, <2>2, <2>3, <2>4 DEF LegalQualification
<1>3. CASE d.to = None /\ d.expire
  <2>. p = [q EXCEPT !.version = q.version + 1, !.expiredAt = at]
    BY <1>3 DEF Recognized, Sound, Qualifications, Presences
  <2>. QED  BY <1>3 DEF Sound, Qualifications, LegalQualification, Presences
<1>4. CASE d.to = None /\ ~d.expire
  <2>. p = [q EXCEPT !.version = q.version + 1]
    BY <1>4 DEF Recognized, Sound, Qualifications, Presences
  <2>. QED  BY <1>4 DEF Sound, Qualifications, LegalQualification, Presences
<1>. QED  BY <1>1, <1>2, <1>3, <1>4

-----------------------------------------------------------------------------
(* Documents.                                                                *)

IsDocs(docs) == docs = [d \in Docs |-> docs[d]]

LEMMA SameDocs ==
  ASSUME NEW a, NEW b, IsDocs(a), IsDocs(b), \A d \in Docs : a[d] = b[d]
  PROVE  a = b
  BY DEF IsDocs

Ids ==
  /\ Quals \subseteq Docs /\ Slots \subseteq Docs /\ Sources \subseteq Docs
  /\ EventKeys \subseteq Docs /\ System \in Docs
  /\ System \notin Quals \union Slots \union Sources \union EventKeys
  /\ \A d \in Quals : d \notin Slots /\ d \notin Sources /\ d \notin EventKeys
  /\ \A d \in Slots : d \notin Sources /\ d \notin EventKeys
  /\ \A d \in Sources : d \notin EventKeys

LEMMA IdFacts == Ids
  BY IdsAssumption DEF Ids, Docs

Stamp(docs) == docs[System].qr + docs[System].face

\* The slots are bound one to one, within the capacity.
SlotsAgree(docs) ==
  /\ \A s \in Slots : Present(docs, s) => docs[s] \in FaceSlots
  /\ \A q \in Quals : \A s, t \in BoundSlots(docs, q) : s = t
  /\ \A f \in Subjects : \A s, t \in SlotsOf(docs, f) : s = t
  /\ docs[System] \in SystemDocs
  /\ docs[System].slotCount <= Capacity

\* The slots of the qualifications other than q stay theirs, untouched.
OthersKept(a, b, q) ==
  \A p \in Quals : p # q =>
    /\ BoundSlots(b, p) = BoundSlots(a, p)
    /\ \A s \in BoundSlots(a, p) : b[s] = a[s]

StoreOK(docs) == DocsOK(docs) /\ PresenceExplained(docs) /\ FacesAgree(docs)

LEMMA StoreParts ==
  ASSUME NEW a, StoreOK(a)
  PROVE  /\ IsDocs(a)
         /\ SlotsAgree(a)
         /\ a[System] \in SystemDocs
         /\ \A q \in Quals : Present(a, q) =>
              a[q] \in Qualifications /\ LegalQualification(a[q])
         /\ SlotsCounted(a)
  BY DEF StoreOK, DocsOK, FacesAgree, SlotsAgree, IsDocs

\* The documents b have moved on from a: the guards and versions only grow,
\* and where they did not grow nothing they guard has changed.
Newer(a, b) ==
  /\ Stamp(a) <= Stamp(b)
  /\ Stamp(a) = Stamp(b) =>
       /\ \A d \in Docs \ Quals : a[d] = b[d]
       /\ \A q \in Quals : Present(b, q) => Present(a, q)
  /\ \A q \in Quals : Present(a, q) =>
       /\ Present(b, q)
       /\ a[q].version <= b[q].version
       /\ a[q].version = b[q].version =>
            /\ a[q] = b[q]
            /\ BoundSlots(a, q) = BoundSlots(b, q)
            /\ \A s \in BoundSlots(a, q) : a[s] = b[s]
  /\ \A k \in EventKeys : Present(a, k) => b[k] = a[k]

LEMMA NewerSelf == ASSUME NEW a, StoreOK(a) PROVE Newer(a, a)
<1>1. a[System].qr \in Nat /\ a[System].face \in Nat
  BY StoreParts DEF SystemDocs
<1>2. \A q \in Quals : Present(a, q) => a[q].version \in Nat
  BY StoreParts DEF Qualifications
<1>. QED  BY <1>1, <1>2 DEF Newer, Stamp

LEMMA NewerTransitive ==
  ASSUME NEW a, NEW b, NEW c, StoreOK(a), StoreOK(b), StoreOK(c),
         Newer(a, b), Newer(b, c)
  PROVE  Newer(a, c)
<1>1. Stamp(a) \in Nat /\ Stamp(b) \in Nat /\ Stamp(c) \in Nat
  BY StoreParts DEF SystemDocs, Stamp
<1>2. \A q \in Quals :
        /\ Present(a, q) => a[q].version \in Nat
        /\ Present(b, q) => b[q].version \in Nat
        /\ Present(c, q) => c[q].version \in Nat
  BY StoreParts DEF Qualifications
<1>3. Stamp(a) <= Stamp(c)
  BY <1>1 DEF Newer
<1>4. ASSUME Stamp(a) = Stamp(c)
      PROVE  /\ \A d \in Docs \ Quals : a[d] = c[d]
             /\ \A q \in Quals : Present(c, q) => Present(a, q)
  <2>. Stamp(a) = Stamp(b) /\ Stamp(b) = Stamp(c)
    BY <1>1, <1>4 DEF Newer
  <2>. QED  BY DEF Newer
<1>5. ASSUME NEW q \in Quals, Present(a, q)
      PROVE  /\ Present(c, q)
             /\ a[q].version <= c[q].version
             /\ a[q].version = c[q].version =>
                  /\ a[q] = c[q]
                  /\ BoundSlots(a, q) = BoundSlots(c, q)
                  /\ \A s \in BoundSlots(a, q) : a[s] = c[s]
  <2>1. /\ Present(b, q) /\ Present(c, q)
        /\ a[q].version <= b[q].version /\ b[q].version <= c[q].version
    BY <1>5 DEF Newer
  <2>2. CASE a[q].version # c[q].version
    BY <1>2, <1>5, <2>1, <2>2
  <2>3. CASE a[q].version = c[q].version
    <3>. a[q].version = b[q].version /\ b[q].version = c[q].version
      BY <1>2, <1>5, <2>1, <2>3
    <3>1. a[q] = b[q] /\ BoundSlots(a, q) = BoundSlots(b, q)
          /\ \A s \in BoundSlots(a, q) : a[s] = b[s]
      BY <1>5 DEF Newer
    <3>2. b[q] = c[q] /\ BoundSlots(b, q) = BoundSlots(c, q)
          /\ \A s \in BoundSlots(b, q) : b[s] = c[s]
      BY <2>1 DEF Newer
    <3>. QED  BY <1>2, <1>5, <2>1, <3>1, <3>2
  <2>. QED  BY <2>2, <2>3
<1>6. \A k \in EventKeys : Present(a, k) => c[k] = a[k]
  BY DEF Newer, Present
<1>. QED  BY <1>3, <1>4, <1>5, <1>6 DEF Newer

-----------------------------------------------------------------------------
(* A turn is a change about one qualification q (None: about no one): the    *)
(* others, their slots and the stored events stay, and unless it rewrites    *)
(* just that qualification, a guard rises.                                   *)

Turn(a, b, q) ==
  /\ IsDocs(b)
  /\ \A p \in Quals : p # q => b[p] = a[p]
  /\ q \in Quals =>
       /\ b[q] \in Qualifications /\ LegalQualification(b[q])
       /\ Present(a, q) => a[q].version < b[q].version
       /\ BoundSlots(b, q) # {} => MayHoldFace(b[q])
  /\ \A s \in Sources : b[s] \in SourceDocs
  /\ \A k \in EventKeys : /\ Present(a, k) => b[k] = a[k]
                          /\ Present(b, k) => b[k] \in Events
  /\ SlotsAgree(b) /\ SlotsCounted(b)
  /\ OthersKept(a, b, q)
  /\ \/ Stamp(a) < Stamp(b)
     \/ /\ \A d \in Docs \ Quals : a[d] = b[d]
        /\ q \in Quals => Present(a, q)

LEMMA TurnIsSound ==
  ASSUME NEW a, NEW b, NEW q \in Quals \union {None}, StoreOK(a), Turn(a, b, q)
  PROVE  DocsOK(b) /\ FacesAgree(b) /\ Newer(a, b)
<1>0. /\ None \notin Quals /\ None \notin Qualifications
      /\ q \in Quals => Present(b, q)
  BY IdsAssumption DEF Turn, Present
<1>1. DocsOK(b)
  <2>1. \A p \in Quals : Present(b, p) =>
          b[p] \in Qualifications /\ LegalQualification(b[p])
    BY StoreParts DEF Turn, Present
  <2>. QED  BY <2>1 DEF Turn, DocsOK, IsDocs, SlotsAgree
<1>2. FacesAgree(b)
  <2>1. ASSUME NEW s \in Slots, Present(b, s), b[s].qualification # None
        PROVE  /\ Present(b, b[s].qualification)
               /\ MayHoldFace(b[b[s].qualification])
    <3>. DEFINE p == b[s].qualification
    <3>1. p \in Quals /\ s \in BoundSlots(b, p)
      BY <2>1 DEF Turn, SlotsAgree, FaceSlots, BoundSlots
    <3>2. CASE p = q
      BY <1>0, <3>1, <3>2 DEF Turn
    <3>3. CASE p # q
      <4>1. s \in BoundSlots(a, p) /\ a[s] = b[s] /\ b[p] = a[p]
        BY <3>1, <3>3 DEF Turn, OthersKept
      <4>2. Present(a, p) /\ MayHoldFace(a[p])
        BY <1>0, <3>1, <4>1 DEF StoreOK, FacesAgree, BoundSlots
      <4>. QED  BY <4>1, <4>2 DEF Present
    <3>. QED  BY <3>2, <3>3
  <2>. QED  BY <2>1 DEF Turn, FacesAgree, SlotsAgree
<1>3. Newer(a, b)
  <2>1. Stamp(a) \in Nat /\ Stamp(b) \in Nat
    BY StoreParts DEF SystemDocs, Stamp, Turn, SlotsAgree
  <2>2. /\ Stamp(a) <= Stamp(b)
        /\ Stamp(a) = Stamp(b) =>
             /\ \A d \in Docs \ Quals : a[d] = b[d]
             /\ q \in Quals => Present(a, q)
    <3>1. CASE Stamp(a) < Stamp(b)
      BY <2>1, <3>1
    <3>2. CASE /\ \A d \in Docs \ Quals : a[d] = b[d]
               /\ q \in Quals => Present(a, q)
      <4>. Stamp(a) = Stamp(b)
        BY <3>2, IdFacts DEF Stamp, Ids
      <4>. QED  BY <2>1, <3>2
    <3>. QED  BY <3>1, <3>2 DEF Turn
  <2>3. \A p \in Quals : Stamp(a) = Stamp(b) /\ Present(b, p) => Present(a, p)
    BY <2>2 DEF Turn, Present
  <2>4. ASSUME NEW p \in Quals, Present(a, p)
        PROVE  /\ Present(b, p)
               /\ a[p].version <= b[p].version
               /\ a[p].version = b[p].version =>
                    /\ a[p] = b[p]
                    /\ BoundSlots(a, p) = BoundSlots(b, p)
                    /\ \A s \in BoundSlots(a, p) : a[s] = b[s]
    <3>1. a[p].version \in Nat
      BY <2>4, StoreParts DEF Qualifications
    <3>2. CASE p = q
      <4>1. /\ Present(b, p) /\ a[p].version < b[p].version
            /\ b[p].version \in Nat
        BY <1>0, <2>4, <3>2 DEF Turn, Qualifications
      <4>. QED  BY <3>1, <4>1
    <3>3. CASE p # q
      <4>1. b[p] = a[p]
        BY <3>3 DEF Turn
      <4>. QED  BY <2>4, <3>1, <3>3, <4>1 DEF Turn, OthersKept, Present
    <3>. QED  BY <3>2, <3>3
  <2>. QED  BY <2>2, <2>3, <2>4 DEF Newer, Turn
<1>. QED  BY <1>1, <1>2, <1>3

-----------------------------------------------------------------------------
(* What the operations on slots and guards leave.                            *)

\* Nothing but slots has changed.
OnlySlots(a, b) == IsDocs(b) /\ \A d \in Docs \ Slots : b[d] = a[d]

LEMMA ReleaseFacts ==
  ASSUME NEW a, NEW q \in Quals, IsDocs(a), SlotsAgree(a)
  PROVE  /\ OnlySlots(a, Released(a, q))
         /\ SlotsAgree(Released(a, q))
         /\ BoundSlots(Released(a, q), q) = {}
         /\ OthersKept(a, Released(a, q), q)
<1>. DEFINE b == Released(a, q)
<1>0. /\ None \notin Quals /\ None \notin FaceSlots
      /\ \A s \in BoundSlots(a, q) : s \in Slots /\ Present(a, s)
      /\ Ids
  BY IdsAssumption, IdFacts DEF BoundSlots
<1>1. OnlySlots(a, b)
  BY <1>0 DEF OnlySlots, IsDocs, Released
<1>2. ASSUME NEW s \in Slots
      PROVE  /\ s \notin BoundSlots(a, q) => b[s] = a[s]
             /\ s \in BoundSlots(a, q) =>
                  /\ b[s] \in FaceSlots
                  /\ b[s].subject = a[s].subject
                  /\ b[s].qualification = None
  <2>1. b[s] = IF s \in BoundSlots(a, q)
               THEN [a[s] EXCEPT !.qualification = None,
                                 !.version = a[s].version + 1]
               ELSE a[s]
    BY <1>0 DEF Released, Ids
  <2>2. CASE s \notin BoundSlots(a, q)
    BY <2>1, <2>2
  <2>3. CASE s \in BoundSlots(a, q)
    <3>. a[s] \in FaceSlots
      BY <1>0, <2>3 DEF SlotsAgree
    <3>. DEFINE slot == a[s]
    <3>1. /\ slot \in [subject: Subjects, qualification: Quals \union {None},
                       version: Nat]
          /\ slot.version + 1 \in Nat
      BY DEF FaceSlots
    <3>2. b[s] = [slot EXCEPT !.qualification = None,
                             !.version = slot.version + 1]
      BY <2>1, <2>3
    <3>. HIDE DEF slot, b
    <3>3. /\ b[s] \in FaceSlots
          /\ b[s].subject = slot.subject /\ b[s].qualification = None
      BY <3>1, <3>2 DEF FaceSlots
    <3>. QED  BY <2>3, <3>3 DEF slot
  <2>. QED  BY <2>2, <2>3
<1>3. \A s \in Slots : Present(b, s) = Present(a, s)
  BY <1>0, <1>2 DEF Present
<1>4. \A s \in Slots : Present(b, s) =>
        b[s] \in FaceSlots /\ b[s].subject = a[s].subject
  BY <1>0, <1>2, <1>3 DEF SlotsAgree
<1>5. BoundSlots(b, q) = {}
  BY <1>0, <1>2, <1>3 DEF BoundSlots
<1>6. \A p \in Quals : p # q => BoundSlots(b, p) = BoundSlots(a, p)
  BY <1>0, <1>2, <1>3 DEF BoundSlots
<1>7. OthersKept(a, b, q)
  <2>. \A p \in Quals : p # q =>
         \A s \in BoundSlots(a, p) : s \in Slots /\ s \notin BoundSlots(a, q)
    BY DEF BoundSlots
  <2>. QED  BY <1>2, <1>6 DEF OthersKept
<1>8. \A f \in Subjects : SlotsOf(b, f) = SlotsOf(a, f)
  BY <1>3, <1>4 DEF SlotsOf
<1>9. b[System] = a[System]
  BY <1>0, <1>1 DEF OnlySlots, Ids
<1>. QED  BY <1>1, <1>4, <1>5, <1>6, <1>7, <1>8, <1>9 DEF SlotsAgree

\* Only slots, and how many there are.
OnlyFaces(a, b) ==
  /\ IsDocs(b)
  /\ \A d \in Docs \ Slots : d # System => b[d] = a[d]
  /\ b[System].qr = a[System].qr
  /\ b[System].face = a[System].face

LEMMA BindFacts ==
  ASSUME NEW a, NEW q \in Quals, NEW f \in Subjects, IsDocs(a), SlotsAgree(a),
         BoundSlots(a, q) = {}, BindRefusal(a, f) = None,
         NEW b \in BoundImages(a, q, f)
  PROVE  /\ OnlyFaces(a, b)
         /\ SlotsAgree(b)
         /\ OthersKept(a, b, q)
<1>. DEFINE C == Claimable(a, f)
            bound(s, v) == [subject |-> f, qualification |-> q, version |-> v]
<1>0. /\ None \notin Quals /\ None \notin FaceSlots
      /\ \A r \in FaceRefusals : r # None
      /\ Ids /\ a[System] \in SystemDocs
      /\ a[System].slotCount \in Nat /\ Capacity \in Nat
  BY IdsAssumption, IdFacts, CapacityAssumption DEF SlotsAgree, SystemDocs
<1>1. ASSUME NEW s \in Slots, NEW v \in Nat, b[s] = bound(s, v),
             \A t \in Slots : t # s => b[t] = a[t],
             SlotsOf(a, f) \subseteq {s},
             Present(a, s) => a[s].qualification = None
      PROVE  /\ \A t \in Slots : Present(b, t) => b[t] \in FaceSlots
             /\ \A p \in Quals : \A t, u \in BoundSlots(b, p) : t = u
             /\ \A g \in Subjects : \A t, u \in SlotsOf(b, g) : t = u
             /\ OthersKept(a, b, q)
  <2>1. b[s] \in FaceSlots /\ Present(b, s)
    BY <1>0, <1>1 DEF FaceSlots, Present
  <2>2. ASSUME NEW p \in Quals, p # q
        PROVE  BoundSlots(b, p) = BoundSlots(a, p) /\ s \notin BoundSlots(a, p)
    BY <1>0, <1>1, <2>2 DEF BoundSlots, Present
  <2>3. BoundSlots(b, q) \subseteq {s}
    BY <1>1 DEF BoundSlots, Present
  <2>4. SlotsOf(b, f) \subseteq {s}
    BY <1>1 DEF SlotsOf, Present
  <2>5. \A g \in Subjects : g # f => SlotsOf(b, g) \subseteq SlotsOf(a, g)
    BY <1>1 DEF SlotsOf, Present
  <2>6. OthersKept(a, b, q)
    <3>. \A p \in Quals : BoundSlots(a, p) \subseteq Slots
      BY DEF BoundSlots
    <3>. QED  BY <1>1, <2>2 DEF OthersKept
  <2>. QED  BY <1>1, <2>1, <2>2, <2>3, <2>4, <2>5, <2>6 DEF SlotsAgree, Present
<1>2. CASE C # {}
  <2>1. PICK s \in C : b = [a EXCEPT ![s] = bound(s, a[s].version + 1)]
    BY <1>2 DEF BoundImages
  <2>2. SlotsOf(a, f) \subseteq C
    BY <1>0, <1>2 DEF BindRefusal, FaceRefusals
  <2>3. s \in EmptySlots(a)
    BY DEF Claimable
  <2>4. s \in Slots /\ Present(a, s) /\ a[s].qualification = None
    BY <2>3 DEF EmptySlots, BoundSlots
  <2>5. a[s].version + 1 \in Nat
    BY <2>4 DEF SlotsAgree, FaceSlots
  <2>6. SlotsOf(a, f) \subseteq {s}
    <3>1. CASE EmptySlots(a) \intersect SlotsOf(a, f) # {}
      <4>. s \in SlotsOf(a, f)
        BY <3>1 DEF Claimable
      <4>. QED  BY DEF SlotsAgree
    <3>2. CASE EmptySlots(a) \intersect SlotsOf(a, f) = {}
      BY <2>2, <3>2 DEF Claimable
    <3>. QED  BY <3>1, <3>2
  <2>7. /\ IsDocs(b) /\ b[s] = bound(s, a[s].version + 1)
        /\ \A d \in Docs : d # s => b[d] = a[d]
    BY <1>0, <2>1, <2>4 DEF IsDocs, Ids
  <2>8. \A t \in Slots : t # s => b[t] = a[t]
    BY <1>0, <2>7 DEF Ids
  <2>9. OnlyFaces(a, b) /\ b[System] = a[System]
    BY <1>0, <2>4, <2>7 DEF OnlyFaces, Ids
  <2>. QED  BY <1>1, <2>4, <2>5, <2>6, <2>7, <2>8, <2>9 DEF SlotsAgree
<1>3. CASE C = {}
  <2>1. PICK s \in {s \in Slots : ~Present(a, s)} :
          b = [a EXCEPT ![s] = bound(s, 0), ![System].slotCount = @ + 1]
    BY <1>3 DEF BoundImages
  <2>2. SlotsOf(a, f) = {} /\ ~(a[System].slotCount >= Capacity)
    BY <1>0, <1>3 DEF BindRefusal, FaceRefusals
  <2>3. /\ IsDocs(b) /\ b[s] = bound(s, 0)
        /\ \A d \in Docs : d # s /\ d # System => b[d] = a[d]
        /\ b[System] = [a[System] EXCEPT !.slotCount = a[System].slotCount + 1]
    BY <1>0, <2>1 DEF IsDocs, Ids
  <2>4. /\ b[System] \in SystemDocs /\ b[System].slotCount <= Capacity
        /\ b[System].qr = a[System].qr /\ b[System].face = a[System].face
    BY <1>0, <2>2, <2>3 DEF SystemDocs
  <2>5. OnlyFaces(a, b)
    BY <1>0, <2>3, <2>4 DEF OnlyFaces, Ids
  <2>6. \A t \in Slots : t # s => b[t] = a[t]
    BY <1>0, <2>3 DEF Ids
  <2>. QED  BY <1>1, <2>1, <2>2, <2>3, <2>4, <2>5, <2>6 DEF SlotsAgree
<1>. QED  BY <1>2, <1>3

LEMMA FaceGuardFacts ==
  ASSUME NEW a, IsDocs(a), a[System] \in SystemDocs
  PROVE  /\ IsDocs(FaceGuarded(a))
         /\ \A d \in Docs : d # System => FaceGuarded(a)[d] = a[d]
         /\ FaceGuarded(a)[System] \in SystemDocs
         /\ FaceGuarded(a)[System].slotCount = a[System].slotCount
         /\ FaceGuarded(a)[System].qr = a[System].qr
         /\ FaceGuarded(a)[System].face = a[System].face + 1
<1>1. FaceGuarded(a)[System] = [a[System] EXCEPT !.face = a[System].face + 1]
  BY IdFacts DEF FaceGuarded, Ids, IsDocs
<1>2. a[System].face + 1 \in Nat
  BY DEF SystemDocs
<1>3. IsDocs(FaceGuarded(a))
       /\ \A d \in Docs : d # System => FaceGuarded(a)[d] = a[d]
  BY DEF FaceGuarded, IsDocs
<1>. QED  BY <1>1, <1>2, <1>3 DEF SystemDocs

LEMMA QrGuardFacts ==
  ASSUME NEW a, IsDocs(a), a[System] \in SystemDocs
  PROVE  /\ IsDocs(QrGuarded(a))
         /\ \A d \in Docs : d # System => QrGuarded(a)[d] = a[d]
         /\ QrGuarded(a)[System] \in SystemDocs
         /\ QrGuarded(a)[System].slotCount = a[System].slotCount
         /\ QrGuarded(a)[System].face = a[System].face
         /\ QrGuarded(a)[System].qr = a[System].qr + 1
<1>1. QrGuarded(a)[System] = [a[System] EXCEPT !.qr = a[System].qr + 1]
  BY IdFacts DEF QrGuarded, Ids, IsDocs
<1>2. a[System].qr + 1 \in Nat
  BY DEF SystemDocs
<1>3. IsDocs(QrGuarded(a))
       /\ \A d \in Docs : d # System => QrGuarded(a)[d] = a[d]
  BY DEF QrGuarded, IsDocs
<1>. QED  BY <1>1, <1>2, <1>3 DEF SystemDocs

\* Whatever leaves the slots and their number alone leaves them in agreement.
LEMMA SlotFrame ==
  ASSUME NEW a, NEW b, SlotsAgree(a), \A s \in Slots : b[s] = a[s],
         b[System] \in SystemDocs, b[System].slotCount = a[System].slotCount
  PROVE  /\ SlotsAgree(b)
         /\ \A p \in Quals : BoundSlots(b, p) = BoundSlots(a, p)
         /\ \A p \in Quals : OthersKept(a, b, p)
         /\ SlotsCounted(b) = SlotsCounted(a)
<1>1. \A s \in Slots : Present(b, s) = Present(a, s)
  BY DEF Present
<1>2. \A p : BoundSlots(b, p) = BoundSlots(a, p)
  BY <1>1 DEF BoundSlots
<1>3. \A f : SlotsOf(b, f) = SlotsOf(a, f)
  BY <1>1 DEF SlotsOf
<1>4. {s \in Slots : Present(b, s)} = {s \in Slots : Present(a, s)}
  BY <1>1
<1>5. \A p \in Quals : OthersKept(a, b, p)
  BY <1>2 DEF OthersKept, BoundSlots
<1>6. SlotsAgree(b)
  BY <1>1, <1>2, <1>3 DEF SlotsAgree
<1>. QED  BY <1>2, <1>4, <1>5, <1>6 DEF SlotsCounted

LEMMA OthersKeptTwice ==
  ASSUME NEW a, NEW b, NEW c, NEW q \in Quals,
         OthersKept(a, b, q), OthersKept(b, c, q)
  PROVE  OthersKept(a, c, q)
  BY DEF OthersKept

-----------------------------------------------------------------------------
(* Management.                                                               *)

\* A management change of q: it was not entered and is not entered.
Managed(a, b, q) ==
  /\ IsDocs(b)
  /\ \A d \in Docs \ Slots : d # q /\ d # System => b[d] = a[d]
  /\ b[q] \in Qualifications /\ LegalQualification(b[q])
  /\ b[q].presence = "NOT_ENTERED"
  /\ Present(a, q) =>
       a[q].presence = "NOT_ENTERED" /\ a[q].version < b[q].version
  /\ BoundSlots(b, q) # {} => MayHoldFace(b[q])
  /\ SlotsAgree(b) /\ SlotsCounted(b)
  /\ OthersKept(a, b, q)
  /\ \/ Stamp(a) < Stamp(b)
     \/ (\A d \in Docs \ Quals : a[d] = b[d]) /\ Present(a, q)

\* One that raises a guard: any but an update in place.
Guarded(a, b, q) == Managed(a, b, q) /\ Stamp(a) < Stamp(b)

LEMMA ManagedIsSound ==
  ASSUME NEW a, NEW b, NEW q \in Quals, StoreOK(a), Managed(a, b, q)
  PROVE  StoreOK(b) /\ Newer(a, b)
<1>0. Ids
  BY IdFacts
<1>1. Turn(a, b, q)
  <2>1. /\ \A p \in Quals : p # q => b[p] = a[p]
        /\ \A s \in Sources : b[s] = a[s]
        /\ \A k \in EventKeys : b[k] = a[k]
    BY <1>0 DEF Managed, Ids
  <2>2. /\ \A s \in Sources : a[s] \in SourceDocs
        /\ \A k \in EventKeys : Present(a, k) => a[k] \in Events
    BY DEF StoreOK, DocsOK
  <2>. QED  BY <2>1, <2>2 DEF Turn, Managed, Present
<1>2. DocsOK(b) /\ FacesAgree(b) /\ Newer(a, b)
  BY <1>1, TurnIsSound
<1>3. PresenceExplained(b)
  <2>1. \A k \in EventKeys : b[k] = a[k] /\ Present(b, k) = Present(a, k)
    BY <1>0 DEF Managed, Ids, Present
  <2>2. \A p, to : MovedTo(b, p, to) = MovedTo(a, p, to)
    BY <2>1 DEF MovedTo
  <2>3. \A p \in Quals : Present(a, p) => Present(b, p)
    BY <1>2 DEF Newer
  <2>4. \A k \in EventKeys : Present(b, k) =>
          /\ b[k].qualification # None => Present(b, b[k].qualification)
          /\ b[k].outcome = "REJECTED" => b[k].to = None
    <3>. \A k \in EventKeys : Present(a, k) =>
           a[k].qualification \in Quals \union {None}
      BY DEF StoreOK, DocsOK, Events
    <3>. QED  BY <2>1, <2>3 DEF StoreOK, PresenceExplained
  <2>5. ASSUME NEW p \in Quals, Present(b, p), p # q
        PROVE  ExplainedBy(b, p, MovedTo(b, p, "INSIDE"),
                                 MovedTo(b, p, "EXITED"))
    <3>1. b[p] = a[p]
      BY <1>1, <2>5 DEF Turn
    <3>2. ExplainedBy(a, p, MovedTo(a, p, "INSIDE"), MovedTo(a, p, "EXITED"))
      BY <2>5, <3>1 DEF StoreOK, PresenceExplained, Present
    <3>3. \A to : MovedTo(a, p, to) \subseteq EventKeys
      BY DEF MovedTo
    <3>. QED  BY <2>1, <2>2, <3>1, <3>2, <3>3 DEF ExplainedBy
  <2>6. MovedTo(a, q, "INSIDE") = {} /\ MovedTo(a, q, "EXITED") = {}
    <3>1. CASE Present(a, q)
      <4>. ExplainedBy(a, q, MovedTo(a, q, "INSIDE"), MovedTo(a, q, "EXITED"))
        BY <3>1 DEF StoreOK, PresenceExplained
      <4>. a[q].presence = "NOT_ENTERED"
        BY <3>1 DEF Managed
      <4>. QED  BY DEF ExplainedBy
    <3>2. CASE ~Present(a, q)
      <4>. q # None
        BY IdsAssumption
      <4>. QED  BY <3>2 DEF StoreOK, PresenceExplained, MovedTo
    <3>. QED  BY <3>1, <3>2
  <2>7. ExplainedBy(b, q, {}, {})
    BY DEF ExplainedBy, Managed
  <2>. QED  BY <2>2, <2>4, <2>5, <2>6, <2>7 DEF PresenceExplained
<1>. QED  BY <1>2, <1>3 DEF StoreOK

LEMMA NoRefusal ==
  ASSUME NEW q \in Qualifications, LegalQualification(q), NEW at \in Instants,
         MutationRefusal(q, at) = None
  PROVE  /\ q.presence = "NOT_ENTERED"
         /\ q.revokedAt = None /\ q.expiredAt = None
  BY IdsAssumption DEF MutationRefusal, Refusals, Qualifications, Presences

LEMMA WindowIsOpen ==
  ASSUME NEW from \in Instants, NEW until \in Instants, NEW at \in Instants,
         WindowRefusal(from, until, at) = None
  PROVE  from < until
<1>. from \in Nat /\ until \in Nat
  BY InstantsAssumption
<1>. QED  BY IdsAssumption DEF WindowRefusal, Refusals

\* Writes of management leave a legal qualification.
LEMMA RevokedIsLegal ==
  ASSUME NEW q \in Qualifications, LegalQualification(q), NEW at \in Instants,
         q.presence = "NOT_ENTERED", q.expiredAt = None,
         NEW p, p = [q EXCEPT !.revokedAt = at, !.version = q.version + 1]
  PROVE  /\ p \in Qualifications /\ LegalQualification(p)
         /\ p.presence = "NOT_ENTERED" /\ q.version < p.version
<1>. q.version \in Nat /\ q.version + 1 \in Nat
  BY DEF Qualifications
<1>1. p \in Qualifications
  BY DEF Qualifications
<1>2. p.version = q.version + 1 /\ p.presence = q.presence
  BY DEF Qualifications
<1>3. LegalQualification(p)
  BY DEF Qualifications, LegalQualification
<1>. QED  BY <1>1, <1>2, <1>3

LEMMA ExpiredIsLegal ==
  ASSUME NEW q \in Qualifications, LegalQualification(q), NEW at \in Instants,
         q.presence = "NOT_ENTERED", q.revokedAt = None,
         NEW p, p = [q EXCEPT !.expiredAt = at, !.version = q.version + 1]
  PROVE  /\ p \in Qualifications /\ LegalQualification(p)
         /\ p.presence = "NOT_ENTERED" /\ q.version < p.version
<1>. q.version \in Nat /\ q.version + 1 \in Nat
  BY DEF Qualifications
<1>1. p \in Qualifications
  BY DEF Qualifications
<1>2. p.version = q.version + 1 /\ p.presence = q.presence
  BY DEF Qualifications
<1>3. LegalQualification(p)
  BY DEF Qualifications, LegalQualification
<1>. QED  BY <1>1, <1>2, <1>3

Rewindowed(q, from, until) ==
  [q EXCEPT !.validFrom = from, !.validUntil = until,
            !.version = q.version + 1]

LEMMA UpdatedIsLegal ==
  ASSUME NEW q \in Qualifications, LegalQualification(q),
         NEW from \in Instants, NEW until \in Instants, from < until,
         q.presence = "NOT_ENTERED",
         NEW p, p = Rewindowed(q, from, until)
  PROVE  /\ p \in Qualifications /\ LegalQualification(p)
         /\ p.presence = "NOT_ENTERED" /\ q.version < p.version
         /\ MayHoldFace(p) = MayHoldFace(q)
<1>. p = [q EXCEPT !.validFrom = from, !.validUntil = until,
                   !.version = q.version + 1]
  BY DEF Rewindowed
<1>. q.version \in Nat /\ q.version + 1 \in Nat
  BY DEF Qualifications
<1>1. p \in Qualifications
  BY DEF Qualifications
<1>2. p.version = q.version + 1 /\ p.presence = q.presence
  BY DEF Qualifications
<1>3. LegalQualification(p) /\ MayHoldFace(p) = MayHoldFace(q)
  BY DEF Qualifications, LegalQualification, MayHoldFace
<1>. QED  BY <1>1, <1>2, <1>3

\* Once the slots x are settled, the qualification is written (y), and then
\* the guard.
LEMMA GuardedWrite ==
  ASSUME NEW a, NEW q \in Quals, StoreOK(a), Present(a, q),
         a[q].presence = "NOT_ENTERED",
         NEW x, OnlyFaces(a, x), SlotsAgree(x), OthersKept(a, x, q),
         NEW y, IsDocs(y), \A d \in Docs : d # q => y[d] = x[d],
         y[q] \in Qualifications, LegalQualification(y[q]),
         y[q].presence = "NOT_ENTERED", a[q].version < y[q].version,
         BoundSlots(x, q) # {} => MayHoldFace(y[q]),
         SlotsCounted(FaceGuarded(y))
  PROVE  Guarded(a, FaceGuarded(y), q)
<1>. DEFINE b == FaceGuarded(y)
<1>0. Ids /\ a[System] \in SystemDocs
  BY IdFacts, StoreParts
<1>1. y[System] = x[System] /\ x[System] \in SystemDocs
  BY <1>0 DEF Ids, SlotsAgree
<1>2. /\ IsDocs(b) /\ \A d \in Docs : d # System => b[d] = y[d]
      /\ b[System] \in SystemDocs
      /\ b[System].slotCount = x[System].slotCount
      /\ b[System].qr = x[System].qr
      /\ b[System].face = x[System].face + 1
  BY <1>1, FaceGuardFacts
<1>3. \A s \in Slots : b[s] = x[s]
  BY <1>0, <1>2 DEF Ids
<1>4. /\ SlotsAgree(b) /\ BoundSlots(b, q) = BoundSlots(x, q)
      /\ OthersKept(x, b, q)
  BY <1>2, <1>3, SlotFrame
<1>5. OthersKept(a, b, q)
  BY <1>4, OthersKeptTwice
<1>6. Stamp(a) < Stamp(b)
  <2>. /\ a[System].qr \in Nat /\ a[System].face \in Nat
    BY <1>0 DEF SystemDocs
  <2>. b[System].qr = a[System].qr /\ b[System].face = a[System].face + 1
    BY <1>2 DEF OnlyFaces
  <2>. QED  BY DEF Stamp
<1>7. \A d \in Docs \ Slots : d # q /\ d # System => b[d] = a[d]
  BY <1>2 DEF OnlyFaces
<1>8. b[q] = y[q]
  BY <1>0, <1>2 DEF Ids
<1>. HIDE DEF b
<1>. QED  BY <1>2, <1>4, <1>5, <1>6, <1>7, <1>8 DEF Managed, Guarded, b

LEMMA ReleaseIsOnlyFaces ==
  ASSUME NEW a, NEW q \in Quals, StoreOK(a)
  PROVE  /\ OnlyFaces(a, Released(a, q))
         /\ SlotsAgree(Released(a, q))
         /\ BoundSlots(Released(a, q), q) = {}
         /\ OthersKept(a, Released(a, q), q)
         /\ \A p \in Quals : Released(a, q)[p] = a[p]
<1>. IsDocs(a) /\ SlotsAgree(a) /\ Ids
  BY StoreParts, IdFacts
<1>. QED  BY ReleaseFacts DEF OnlySlots, OnlyFaces, Ids

LEMMA RevocationIsManaged ==
  ASSUME NEW a, NEW q \in Quals, NEW at \in Instants, StoreOK(a), Present(a, q),
         MutationRefusal(a[q], at) = None,
         NEW b, b = FaceGuarded([Released(a, q) EXCEPT
                                   ![q].revokedAt = at, ![q].version = @ + 1]),
         SlotsCounted(b)
  PROVE  Guarded(a, b, q)
<1>. DEFINE x == Released(a, q)
            y == [x EXCEPT ![q].revokedAt = at, ![q].version = @ + 1]
<1>1. /\ a[q] \in Qualifications /\ LegalQualification(a[q])
      /\ a[q].presence = "NOT_ENTERED" /\ a[q].revokedAt = None
      /\ a[q].expiredAt = None
      /\ a[q].version \in Nat /\ None \notin Instants
  <2>. a[q] \in Qualifications /\ LegalQualification(a[q])
    BY StoreParts
  <2>. QED  BY NoRefusal, InstantsAssumption DEF Qualifications
<1>2. /\ OnlyFaces(a, x) /\ SlotsAgree(x) /\ BoundSlots(x, q) = {}
      /\ OthersKept(a, x, q) /\ x[q] = a[q]
  BY ReleaseIsOnlyFaces
<1>. HIDE DEF x
<1>3. /\ IsDocs(y) /\ \A d \in Docs : d # q => y[d] = x[d]
      /\ y[q] = [a[q] EXCEPT !.revokedAt = at, !.version = a[q].version + 1]
  BY <1>2, IdFacts DEF OnlyFaces, IsDocs, Ids
<1>4. /\ y[q] \in Qualifications /\ LegalQualification(y[q])
      /\ y[q].presence = "NOT_ENTERED" /\ a[q].version < y[q].version
  BY <1>1, <1>3, RevokedIsLegal
<1>5. b = FaceGuarded(y)
  BY DEF x
<1>. HIDE DEF y
<1>6. Guarded(a, FaceGuarded(y), q)
  BY <1>1, <1>2, <1>3, <1>4, <1>5, GuardedWrite
<1>. QED  BY <1>5, <1>6

LEMMA ExpiryIsManaged ==
  ASSUME NEW a, NEW q \in Quals, NEW at \in Instants, StoreOK(a), Present(a, q),
         NeedsTerminalExpiry(a[q], at), SlotsCounted(ExpiryImage(a, q, at))
  PROVE  Guarded(a, ExpiryImage(a, q, at), q)
<1>. DEFINE x == Released(a, q)
            y == [x EXCEPT ![q].expiredAt = at, ![q].version = @ + 1]
<1>1. /\ a[q] \in Qualifications /\ LegalQualification(a[q])
      /\ a[q].presence = "NOT_ENTERED" /\ a[q].revokedAt = None
      /\ a[q].expiredAt = None
      /\ a[q].version \in Nat /\ None \notin Instants
  <2>. a[q] \in Qualifications /\ LegalQualification(a[q])
    BY StoreParts
  <2>. QED  BY InstantsAssumption DEF Qualifications, NeedsTerminalExpiry
<1>2. /\ OnlyFaces(a, x) /\ SlotsAgree(x) /\ BoundSlots(x, q) = {}
      /\ OthersKept(a, x, q) /\ x[q] = a[q]
  BY ReleaseIsOnlyFaces
<1>. HIDE DEF x
<1>3. /\ IsDocs(y) /\ \A d \in Docs : d # q => y[d] = x[d]
      /\ y[q] = [a[q] EXCEPT !.expiredAt = at, !.version = a[q].version + 1]
  BY <1>2, IdFacts DEF OnlyFaces, IsDocs, Ids
<1>4. /\ y[q] \in Qualifications /\ LegalQualification(y[q])
      /\ y[q].presence = "NOT_ENTERED" /\ a[q].version < y[q].version
  BY <1>1, <1>3, ExpiredIsLegal
<1>5. ExpiryImage(a, q, at) = FaceGuarded(y)
  BY DEF ExpiryImage, x
<1>. HIDE DEF y
<1>6. Guarded(a, FaceGuarded(y), q)
  BY <1>1, <1>2, <1>3, <1>4, <1>5, GuardedWrite
<1>. QED  BY <1>5, <1>6

LEMMA WrittenDocs ==
  ASSUME NEW a, NEW b, NEW status, NEW detail
  PROVE  \/ Written(a, b, status, detail).docs = a
         \/ /\ Written(a, b, status, detail) = Effect(b, status, detail)
            /\ Written(a, b, status, detail).docs = b
            /\ SlotsCounted(b)
  BY DEF Written, Effect

LEMMA UpdatedFacts ==
  ASSUME NEW a, IsDocs(a), NEW q \in Quals, NEW from, NEW until,
         a[q] \in Qualifications
  PROVE  /\ IsDocs(Updated(a, q, from, until))
         /\ \A d \in Docs : d # q => Updated(a, q, from, until)[d] = a[d]
         /\ Updated(a, q, from, until)[q] = Rewindowed(a[q], from, until)
<1>. q \in Docs
  BY IdFacts DEF Ids
<1>. QED  BY DEF Updated, IsDocs, Qualifications, Rewindowed

LEMMA UpdateInPlaceIsManaged ==
  ASSUME NEW a, NEW q \in Quals, NEW from \in Instants, NEW until \in Instants,
         NEW at \in Instants, StoreOK(a), Present(a, q),
         MutationRefusal(a[q], at) = None, from < until
  PROVE  Managed(a, Updated(a, q, from, until), q)
<1>. DEFINE b == Updated(a, q, from, until)
<1>1. /\ a[q] \in Qualifications /\ LegalQualification(a[q])
      /\ IsDocs(a) /\ SlotsAgree(a) /\ SlotsCounted(a) /\ Ids
  BY StoreParts, IdFacts
<1>2. /\ a[q].presence = "NOT_ENTERED" /\ a[q].revokedAt = None
      /\ a[q].expiredAt = None
  BY <1>1, NoRefusal
<1>3. /\ IsDocs(b) /\ \A d \in Docs : d # q => b[d] = a[d]
      /\ b[q] = Rewindowed(a[q], from, until)
  BY <1>1, UpdatedFacts
<1>. HIDE DEF b
<1>4. /\ b[q] \in Qualifications /\ LegalQualification(b[q])
      /\ b[q].presence = "NOT_ENTERED" /\ a[q].version < b[q].version
      /\ MayHoldFace(b[q]) = MayHoldFace(a[q])
  BY <1>1, <1>2, <1>3, UpdatedIsLegal
<1>5. MayHoldFace(a[q])
  BY <1>2 DEF MayHoldFace
<1>6. (\A s \in Slots : b[s] = a[s]) /\ b[System] = a[System]
  BY <1>1, <1>3 DEF Ids
<1>7. /\ SlotsAgree(b) /\ SlotsCounted(b) /\ OthersKept(a, b, q)
  BY <1>1, <1>6, SlotFrame DEF SlotsAgree
<1>8. \A d \in Docs \ Quals : a[d] = b[d]
  BY <1>3
<1>9. \A d \in Docs \ Slots : d # q /\ d # System => b[d] = a[d]
  BY <1>3
<1>10. Managed(a, b, q)
  BY <1>2, <1>3, <1>4, <1>5, <1>7, <1>8, <1>9 DEF Managed
<1>. QED  BY <1>10 DEF b

\* The mapping of q is removed, or replaced by one to f.
LEMMA RemappedFacts ==
  ASSUME NEW a, NEW q \in Quals, StoreOK(a), NEW r \in UpdateInputs,
         r.mode # "KEEP",
         r.mode = "SET" => BindRefusal(Released(a, q), r.face) = None,
         NEW x \in Remapped(a, q, r)
  PROVE  /\ OnlyFaces(a, x) /\ SlotsAgree(x) /\ OthersKept(a, x, q)
         /\ x[q] = a[q]
<1>. DEFINE free == Released(a, q)
<1>1. /\ OnlyFaces(a, free) /\ SlotsAgree(free) /\ OthersKept(a, free, q)
      /\ free[q] = a[q] /\ BoundSlots(free, q) = {} /\ Ids
  BY ReleaseIsOnlyFaces, IdFacts
<1>2. CASE r.mode = "REMOVE"
  BY <1>1, <1>2 DEF Remapped
<1>3. CASE r.mode = "SET"
  <2>1. r.face \in Subjects
    BY <1>3 DEF UpdateInputs
  <2>2. x \in BoundImages(free, q, r.face) /\ BindRefusal(free, r.face) = None
    BY <1>3 DEF Remapped
  <2>3. IsDocs(free)
    BY <1>1 DEF OnlyFaces
  <2>. HIDE DEF free
  <2>4. OnlyFaces(free, x) /\ SlotsAgree(x) /\ OthersKept(free, x, q)
    BY <1>1, <2>1, <2>2, <2>3, BindFacts
  <2>5. OnlyFaces(a, x)
    BY <1>1, <2>4 DEF OnlyFaces
  <2>6. OthersKept(a, x, q)
    BY <1>1, <2>4, OthersKeptTwice
  <2>7. x[q] = free[q]
    BY <1>1, <2>4 DEF OnlyFaces, Ids
  <2>. QED  BY <1>1, <2>4, <2>5, <2>6, <2>7
<1>. QED  BY <1>2, <1>3 DEF UpdateInputs

LEMMA RemappingIsManaged ==
  ASSUME NEW a, NEW q \in Quals, NEW from \in Instants, NEW until \in Instants,
         NEW at \in Instants, StoreOK(a), Present(a, q),
         MutationRefusal(a[q], at) = None, from < until,
         NEW x, OnlyFaces(a, x), SlotsAgree(x), OthersKept(a, x, q),
         x[q] = a[q], SlotsCounted(FaceGuarded(Updated(x, q, from, until)))
  PROVE  Guarded(a, FaceGuarded(Updated(x, q, from, until)), q)
<1>. DEFINE y == Updated(x, q, from, until)
<1>1. /\ a[q] \in Qualifications /\ LegalQualification(a[q])
      /\ IsDocs(x)
  BY StoreParts DEF OnlyFaces
<1>2. /\ a[q].presence = "NOT_ENTERED" /\ a[q].revokedAt = None
      /\ a[q].expiredAt = None
  BY <1>1, NoRefusal
<1>3. /\ IsDocs(y) /\ \A d \in Docs : d # q => y[d] = x[d]
      /\ y[q] = Rewindowed(a[q], from, until)
  BY <1>1, UpdatedFacts
<1>. HIDE DEF y
<1>4. /\ y[q] \in Qualifications /\ LegalQualification(y[q])
      /\ y[q].presence = "NOT_ENTERED" /\ a[q].version < y[q].version
      /\ MayHoldFace(y[q]) = MayHoldFace(a[q])
  BY <1>1, <1>2, <1>3, UpdatedIsLegal
<1>5. MayHoldFace(y[q])
  BY <1>2, <1>4 DEF MayHoldFace
<1>6. SlotsCounted(FaceGuarded(y))
  BY DEF y
<1>7. Guarded(a, FaceGuarded(y), q)
  BY <1>2, <1>3, <1>4, <1>5, <1>6, GuardedWrite
<1>. QED  BY <1>7 DEF y

LEMMA RefusalKeeps ==
  ASSUME NEW a, NEW q \in Quals, NEW refusal, NEW at \in Instants,
         StoreOK(a), Present(a, q), NEW e \in RefusalEffects(a, q, refusal, at)
  PROVE  e.docs = a \/ Guarded(a, e.docs, q)
<1>. DEFINE b == ExpiryImage(a, q, at)
<1>1. CASE NeedsTerminalExpiry(a[q], at)
           /\ e = Written(a, b, "EXPIRED", refusal)
  <2>1. CASE e.docs = a
    BY <2>1
  <2>2. CASE e.docs = b /\ SlotsCounted(b)
    BY <1>1, <2>2, ExpiryIsManaged
  <2>. QED  BY <1>1, <2>1, <2>2, WrittenDocs
<1>2. CASE e = Refused(a, refusal)
  BY <1>2 DEF Refused, Effect
<1>. QED  BY <1>1, <1>2 DEF RefusalEffects

LEMMA RevokeKeeps ==
  ASSUME NEW a, StoreOK(a), NEW r \in RevokeInputs, NEW at \in Instants,
         NEW e \in RevokeEffects(a, r, at)
  PROVE  e.docs = a \/ Guarded(a, e.docs, r.qualification)
<1>. DEFINE q == r.qualification
            refusal == RevocationRefusal(a[q], r.reason, at)
            b == FaceGuarded([Released(a, q) EXCEPT
                                ![q].revokedAt = at, ![q].version = @ + 1])
<1>. q \in Quals
  BY DEF RevokeInputs
<1>1. CASE ~Present(a, q)
  BY <1>1 DEF RevokeEffects, Refused, Effect
<1>2. CASE Present(a, q) /\ refusal # None
  <2>. e \in RefusalEffects(a, q, refusal, at)
    BY <1>2 DEF RevokeEffects
  <2>. QED  BY <1>2, RefusalKeeps
<1>3. CASE Present(a, q) /\ refusal = None
  <2>. e = Written(a, b, "CHANGED", None)
    BY <1>3 DEF RevokeEffects, Changed
  <2>. MutationRefusal(a[q], at) = None
    BY <1>3 DEF RevocationRefusal
  <2>1. CASE e.docs = a
    BY <2>1
  <2>2. CASE e.docs = b /\ SlotsCounted(b)
    <3>. HIDE DEF q
    <3>. QED  BY <1>3, <2>2, RevocationIsManaged DEF q
  <2>. QED  BY <2>1, <2>2, WrittenDocs
<1>. QED  BY <1>1, <1>2, <1>3

\* The window and the mapping an update asks for.
From(a, r) ==
  IF r.validFrom = None THEN a[r.qualification].validFrom ELSE r.validFrom
Until(a, r) ==
  IF r.validUntil = None THEN a[r.qualification].validUntil ELSE r.validUntil
KeepsFace(a, r) ==
  \/ r.mode = "KEEP"
  \/ r.mode = "SET"
     /\ BoundSlots(a, r.qualification) \intersect SlotsOf(a, r.face) # {}

\* An update that leaves the mapping alone writes the qualification only.
InPlace(a, r, at, b) ==
  LET q == r.qualification
  IN  /\ Present(a, q)
      /\ UpdateRefusal(a[q], From(a, r), Until(a, r), at) = None
      /\ KeepsFace(a, r)
      /\ b = Updated(a, q, From(a, r), Until(a, r))
      /\ Managed(a, b, q)

LEMMA UpdateKeeps ==
  ASSUME NEW a, StoreOK(a), NEW r \in UpdateInputs, NEW at \in Instants,
         NEW e \in UpdateEffects(a, r, at)
  PROVE  \/ e.docs = a
         \/ Guarded(a, e.docs, r.qualification)
         \/ InPlace(a, r, at, e.docs)
<1>. DEFINE q == r.qualification
            from == From(a, r)
            until == Until(a, r)
            refusal == UpdateRefusal(a[q], from, until, at)
            kept == KeepsFace(a, r)
            bindRefusal == IF r.mode = "SET"
                           THEN BindRefusal(Released(a, q), r.face) ELSE None
<1>. q \in Quals
  BY DEF UpdateInputs
<1>1. CASE ~Present(a, q)
  BY <1>1 DEF UpdateEffects, KeepsFace, From, Until, Refused, Effect
<1>2. CASE Present(a, q) /\ refusal # None
  <2>. e \in RefusalEffects(a, q, refusal, at)
    BY <1>2 DEF UpdateEffects, From, Until
  <2>. QED  BY <1>2, RefusalKeeps
<1>3. CASE Present(a, q) /\ refusal = None
  <2>1. from \in Instants /\ until \in Instants
    BY <1>3, StoreParts DEF UpdateInputs, Qualifications, From, Until
  <2>2. MutationRefusal(a[q], at) = None /\ WindowRefusal(from, until, at) = None
    BY <1>3 DEF UpdateRefusal
  <2>3. from < until
    BY <2>1, <2>2, WindowIsOpen
  <2>4. CASE kept
    <3>. e = Written(a, Updated(a, q, from, until), "CHANGED", None)
      BY <1>3, <2>4 DEF UpdateEffects, KeepsFace, From, Until, Changed
    <3>. e.docs = a \/ e.docs = Updated(a, q, from, until)
      BY WrittenDocs
    <3>1. Managed(a, Updated(a, q, from, until), q)
      <4>. HIDE DEF q, from, until
      <4>. QED  BY <1>3, <2>1, <2>2, <2>3, UpdateInPlaceIsManaged
    <3>. QED  BY <1>3, <2>4, <3>1 DEF InPlace
  <2>5. CASE ~kept /\ bindRefusal # None
    BY <1>3, <2>5 DEF UpdateEffects, KeepsFace, From, Until, Refused, Effect
  <2>6. CASE ~kept /\ bindRefusal = None
    <3>1. PICK x \in Remapped(a, q, r) :
            e = Written(a, FaceGuarded(Updated(x, q, from, until)),
                        "CHANGED", None)
      BY <1>3, <2>6 DEF UpdateEffects, KeepsFace, From, Until, Changed
    <3>2. /\ OnlyFaces(a, x) /\ SlotsAgree(x) /\ OthersKept(a, x, q)
          /\ x[q] = a[q]
      BY <2>6, RemappedFacts DEF KeepsFace
    <3>. HIDE DEF q, from, until
    <3>3. CASE e.docs = a
      BY <3>3
    <3>4. CASE /\ e.docs = FaceGuarded(Updated(x, q, from, until))
               /\ SlotsCounted(FaceGuarded(Updated(x, q, from, until)))
      BY <1>3, <2>1, <2>2, <2>3, <3>2, <3>4, RemappingIsManaged DEF q
    <3>. QED  BY <3>1, <3>3, <3>4, WrittenDocs
  <2>. QED  BY <2>4, <2>5, <2>6
<1>. QED  BY <1>1, <1>2, <1>3

LEMMA NewIsLegal ==
  ASSUME NEW from \in Instants, NEW until \in Instants, from < until
  PROVE  /\ NewQualification(from, until) \in Qualifications
         /\ LegalQualification(NewQualification(from, until))
         /\ NewQualification(from, until).presence = "NOT_ENTERED"
         /\ MayHoldFace(NewQualification(from, until))
  BY DEF NewQualification, Qualifications, LegalQualification, MayHoldFace,
         Presences

\* The store with a new qualification, before it gets a face.
Created(a, q, from, until) ==
  QrGuarded([a EXCEPT ![q] = NewQualification(from, until)])

LEMMA CreatedFacts ==
  ASSUME NEW a, StoreOK(a), NEW q \in Quals, ~Present(a, q),
         NEW from, NEW until, NEW c, c = Created(a, q, from, until)
  PROVE  /\ IsDocs(c)
         /\ \A d \in Docs : d # q /\ d # System => c[d] = a[d]
         /\ c[q] = NewQualification(from, until)
         /\ c[System] \in SystemDocs
         /\ c[System].qr = a[System].qr + 1
         /\ c[System].face = a[System].face
         /\ SlotsAgree(c) /\ OthersKept(a, c, q) /\ BoundSlots(c, q) = {}
<1>. DEFINE x == [a EXCEPT ![q] = NewQualification(from, until)]
<1>0. IsDocs(a) /\ SlotsAgree(a) /\ a[System] \in SystemDocs /\ Ids
  BY StoreParts, IdFacts
<1>1. /\ IsDocs(x) /\ \A d \in Docs : d # q => x[d] = a[d]
      /\ x[q] = NewQualification(from, until)
  BY <1>0 DEF IsDocs, Ids
<1>. HIDE DEF x
<1>2. x[System] = a[System] /\ x[System] \in SystemDocs /\ c = QrGuarded(x)
  BY <1>0, <1>1 DEF Ids, Created, x
<1>3. /\ IsDocs(c) /\ \A d \in Docs : d # System => c[d] = x[d]
      /\ c[System] \in SystemDocs
      /\ c[System].slotCount = a[System].slotCount
      /\ c[System].qr = a[System].qr + 1
      /\ c[System].face = a[System].face
  BY <1>1, <1>2, QrGuardFacts
<1>4. \A s \in Slots : c[s] = a[s]
  BY <1>0, <1>1, <1>3 DEF Ids
<1>5. SlotsAgree(c) /\ OthersKept(a, c, q) /\ BoundSlots(c, q) = BoundSlots(a, q)
  BY <1>0, <1>3, <1>4, SlotFrame
<1>6. BoundSlots(a, q) = {}
  <2>. q # None
    BY IdsAssumption
  <2>. QED  BY DEF BoundSlots, StoreOK, FacesAgree
<1>. QED  BY <1>0, <1>1, <1>3, <1>5, <1>6 DEF Ids

LEMMA CreateKeeps ==
  ASSUME NEW a, StoreOK(a), NEW r \in CreateInputs, NEW at \in Instants,
         Possible(a, r), NEW e \in CreateEffects(a, r, at)
  PROVE  e.docs = a \/ Guarded(a, e.docs, r.qualification)
<1>. DEFINE q == r.qualification
            refusal == WindowRefusal(r.validFrom, r.validUntil, at)
            new == NewQualification(r.validFrom, r.validUntil)
            c == Created(a, q, r.validFrom, r.validUntil)
<1>0. /\ q \in Quals /\ r.validFrom \in Instants /\ r.validUntil \in Instants
      /\ r.face \in Subjects \union {None} /\ ~Present(a, q)
  BY DEF CreateInputs, Possible
<1>1. CASE refusal # None
  BY <1>1 DEF CreateEffects, Refused, Effect
<1>2. CASE refusal = None
  <2>1. r.validFrom < r.validUntil
    BY <1>0, <1>2, WindowIsOpen
  <2>2. /\ new \in Qualifications /\ LegalQualification(new)
        /\ new.presence = "NOT_ENTERED" /\ MayHoldFace(new)
    BY <1>0, <2>1, NewIsLegal
  <2>3. /\ IsDocs(c)
        /\ \A d \in Docs : d # q /\ d # System => c[d] = a[d]
        /\ c[q] = new
        /\ c[System] \in SystemDocs
        /\ c[System].qr = a[System].qr + 1
        /\ c[System].face = a[System].face
        /\ SlotsAgree(c) /\ OthersKept(a, c, q) /\ BoundSlots(c, q) = {}
    BY <1>0, CreatedFacts
  <2>4. a[System].qr \in Nat /\ a[System].face \in Nat /\ Ids
    BY StoreParts, IdFacts DEF SystemDocs
  <2>5. CASE r.face = None
    <3>1. e = Written(a, c, "CHANGED", None)
      BY <1>2, <2>5 DEF CreateEffects, Changed, Created
    <3>. HIDE DEF c, q, new
    <3>2. CASE e.docs = a
      BY <3>2
    <3>3. CASE e.docs = c /\ SlotsCounted(c)
      <4>. Stamp(a) < Stamp(c)
        BY <2>3, <2>4 DEF Stamp
      <4>1. Guarded(a, c, q)
        BY <1>0, <2>2, <2>3, <3>3 DEF Managed, Guarded
      <4>. QED  BY <3>3, <4>1 DEF q
    <3>. QED  BY <3>1, <3>2, <3>3, WrittenDocs
  <2>6. CASE r.face # None /\ BindRefusal(c, r.face) # None
    BY <1>2, <2>6 DEF CreateEffects, Created, Refused, Effect
  <2>7. CASE r.face # None /\ BindRefusal(c, r.face) = None
    <3>1. PICK x \in BoundImages(c, q, r.face) :
            e = Written(a, FaceGuarded(x), "CHANGED", None)
      BY <1>2, <2>7 DEF CreateEffects, Changed, Created
    <3>. DEFINE b == FaceGuarded(x)
    <3>. HIDE DEF c, q, new, b
    <3>2. OnlyFaces(c, x) /\ SlotsAgree(x) /\ OthersKept(c, x, q)
      BY <1>0, <2>3, <2>7, <3>1, BindFacts
    <3>3. /\ IsDocs(b) /\ \A d \in Docs : d # System => b[d] = x[d]
          /\ b[System] \in SystemDocs
          /\ b[System].slotCount = x[System].slotCount
          /\ b[System].qr = x[System].qr
          /\ b[System].face = x[System].face + 1
      BY <3>2, FaceGuardFacts DEF b, OnlyFaces, SlotsAgree
    <3>4. \A s \in Slots : b[s] = x[s]
      BY <2>4, <3>3 DEF Ids
    <3>5. SlotsAgree(b) /\ OthersKept(x, b, q)
      BY <1>0, <3>2, <3>3, <3>4, SlotFrame
    <3>6. OthersKept(c, b, q)
      BY <1>0, <3>2, <3>5, OthersKeptTwice
    <3>7. OthersKept(a, b, q)
      BY <1>0, <2>3, <3>6, OthersKeptTwice
    <3>8. Stamp(a) < Stamp(b)
      <4>. b[System].qr = a[System].qr + 1 /\ b[System].face = a[System].face + 1
        BY <2>3, <3>2, <3>3 DEF OnlyFaces
      <4>. QED  BY <2>4 DEF Stamp
    <3>9. b[q] = new /\ \A d \in Docs \ Slots : d # q /\ d # System => b[d] = a[d]
      <4>1. b[q] = x[q] /\ x[q] = c[q]
        BY <1>0, <2>4, <3>2, <3>3 DEF OnlyFaces, Ids
      <4>. QED  BY <2>3, <3>2, <3>3, <4>1 DEF OnlyFaces
    <3>10. CASE e.docs = a
      BY <3>10
    <3>11. CASE e.docs = b /\ SlotsCounted(b)
      <4>1. Guarded(a, b, q)
        BY <1>0, <2>2, <3>3, <3>5, <3>7, <3>8, <3>9, <3>11 DEF Managed, Guarded
      <4>. QED  BY <3>11, <4>1 DEF q
    <3>. QED  BY <3>1, <3>10, <3>11, WrittenDocs DEF b
  <2>. QED  BY <2>5, <2>6, <2>7
<1>. QED  BY <1>1, <1>2

-----------------------------------------------------------------------------
(* Recognition.                                                              *)

LEMMA AttemptedFacts ==
  ASSUME NEW a, StoreOK(a), NEW r \in RecognitionInputs
  PROVE  /\ Attempted(a, r) \in Quals \union {None}
         /\ Attempted(a, r) # None => Present(a, Attempted(a, r))
<1>. DEFINE cred == r.credential
            held == SlotsOf(a, cred.of) \ EmptySlots(a)
            slot == CHOOSE s \in held : TRUE
<1>0. cred \in Credentials
  BY DEF RecognitionInputs
<1>1. CASE cred.media = "QR" /\ cred.of # None
  <2>1. cred.of \in Quals
    BY <1>0, <1>1 DEF Credentials
  <2>2. Resolved(a, cred) = IF Present(a, cred.of) THEN cred.of ELSE None
    BY <1>1 DEF Resolved
  <2>. QED  BY <2>1, <2>2 DEF Attempted
<1>2. CASE cred.media = "FACE_MATCHED" /\ held # {}
  <2>1. Resolved(a, cred) = a[slot].qualification
    BY <1>2 DEF Resolved
  <2>2. slot \in held
    BY <1>2
  <2>. HIDE DEF slot
  <2>3. slot \in Slots /\ Present(a, slot) /\ a[slot].qualification # None
    BY <2>2 DEF SlotsOf, EmptySlots, BoundSlots
  <2>4. a[slot].qualification \in Quals
    BY <2>3 DEF StoreOK, DocsOK, FaceSlots
  <2>5. Present(a, a[slot].qualification)
    BY <2>3 DEF StoreOK, FacesAgree
  <2>. QED  BY <2>1, <2>4, <2>5 DEF Attempted
<1>3. CASE /\ ~(cred.media = "QR" /\ cred.of # None)
           /\ ~(cred.media = "FACE_MATCHED" /\ held # {})
  <2>1. Resolved(a, cred) = None
    BY <1>3 DEF Resolved
  <2>. QED  BY <2>1 DEF Attempted
<1>. QED  BY <1>1, <1>2, <1>3

LEMMA DecisionIsSound ==
  ASSUME NEW a, StoreOK(a), NEW r \in RecognitionInputs, NEW at \in Instants
  PROVE  /\ Sound(a[Attempted(a, r)], Decision(a, r, at), at)
         /\ Attempted(a, r) = None => Decision(a, r, at).to = None
<1>. DEFINE q == Attempted(a, r)
            d == Decision(a, r, at)
<1>1. CASE ~a[r.source].active
  <2>. d = Rejected("SOURCE_INACTIVE")
    BY <1>1 DEF Decision
  <2>. QED  BY RejectionIsSound DEF Reasons
<1>2. CASE a[r.source].active /\ q = None
  <2>1. d = Unresolved(r.credential)
    BY <1>2 DEF Decision
  <2>2. \/ d = Rejected("INVALID_QR_CREDENTIAL")
        \/ d = Rejected("FACE_SUBJECT_NOT_MAPPED")
        \/ d = Rejected("FACE_UNKNOWN")
    <3>. HIDE DEF d
    <3>. QED  BY <2>1 DEF Unresolved
  <2>. QED  BY <2>2, RejectionIsSound DEF Reasons
<1>3. CASE a[r.source].active /\ q # None
  <2>1. a[q] \in Qualifications /\ LegalQualification(a[q])
    BY <1>3, AttemptedFacts, StoreParts
  <2>2. d = EntryDecision(a[q], at) \/ d = ExitDecision(a[q])
    BY <1>3 DEF Decision
  <2>. QED  BY <1>3, <2>1, <2>2, EntryIsSound, ExitIsSound
<1>. QED  BY <1>1, <1>2, <1>3

LEMMA EventIsEvent ==
  ASSUME NEW a, StoreOK(a), NEW r \in RecognitionInputs, NEW at \in Instants
  PROVE  /\ EventOf(a, r, at) \in Events
         /\ EventOf(a, r, at).qualification = Attempted(a, r)
         /\ EventOf(a, r, at).to = Decision(a, r, at).to
         /\ EventOf(a, r, at).outcome = Decision(a, r, at).outcome
         /\ EventOf(a, r, at).receivedAt = at
         /\ EventOf(a, r, at).credential = r.credential
<1>. DEFINE d == Decision(a, r, at)
<1>1. d \in Decisions /\ Attempted(a, r) \in Quals \union {None}
  BY DecisionIsSound, AttemptedFacts DEF Sound
<1>2. /\ d.outcome \in {"ACCEPTED", "REJECTED"} /\ d.reason \in Reasons
      /\ d.to \in Presences \union {None}
  BY <1>1 DEF Decisions, Presences
<1>3. r.credential \in Credentials
  BY DEF RecognitionInputs
<1>. HIDE DEF d
<1>4. EventOf(a, r, at) =
        [outcome |-> d.outcome, reason |-> d.reason,
         qualification |-> Attempted(a, r), to |-> d.to,
         receivedAt |-> at, credential |-> r.credential]
  BY DEF EventOf, d
<1>. QED  BY <1>1, <1>2, <1>3, <1>4 DEF Events, d

\* What a recognition about q leaves, document by document.
Recognition(a, b, r, at, q, d) ==
  /\ IsDocs(b)
  /\ \A p \in Quals : p # q => b[p] = a[p]
  /\ q \in Quals => b[q] = Recognized(a[q], d, at)
  /\ \A s \in Slots : b[s] = IF q # None /\ d.release THEN Released(a, q)[s]
                             ELSE a[s]
  /\ \A s \in Sources : s # r.source => b[s] = a[s]
  /\ b[r.source] = [a[r.source] EXCEPT !.version = @ + 1]
  /\ \A k \in EventKeys : k # KeyOf(r) => b[k] = a[k]
  /\ b[KeyOf(r)] = EventOf(a, r, at)
  /\ b[System] = IF r.credential.media = "QR"
                 THEN [a[System] EXCEPT !.qr = @ + 1]
                 ELSE [a[System] EXCEPT !.face = @ + 1]

LEMMA RecognitionFacts ==
  ASSUME NEW a, StoreOK(a), NEW r \in RecognitionInputs, NEW at \in Instants
  PROVE  Recognition(a, RecognitionImage(a, r, at), r, at, Attempted(a, r),
                     Decision(a, r, at))
<1>. DEFINE b == RecognitionImage(a, r, at)
            q == Attempted(a, r)
            d == Decision(a, r, at)
<1>0. Ids /\ r.source \in Sources /\ KeyOf(r) \in EventKeys /\ None \notin Quals
  BY IdFacts, IdsAssumption DEF RecognitionInputs, KeyOf, EventKeys
<1>1. q \in Quals \union {None}
  BY AttemptedFacts
<1>2. b = [x \in Docs |->
         IF x = r.source THEN [a[x] EXCEPT !.version = @ + 1]
         ELSE IF x = KeyOf(r) THEN EventOf(a, r, at)
         ELSE IF x = System /\ r.credential.media = "QR"
           THEN [a[x] EXCEPT !.qr = @ + 1]
         ELSE IF x = System THEN [a[x] EXCEPT !.face = @ + 1]
         ELSE IF q # None /\ x = q THEN Recognized(a[x], d, at)
         ELSE IF q # None /\ d.release THEN Released(a, q)[x]
         ELSE a[x]]
  BY DEF RecognitionImage
<1>. HIDE DEF b, q, d
<1>3. IsDocs(b)
  BY <1>2 DEF IsDocs
<1>4. q # None => \A x \in Docs \ Slots : Released(a, q)[x] = a[x]
  <2>. q # None => q \in Quals
    BY <1>1
  <2>. QED  BY ReleaseFacts, StoreParts DEF OnlySlots
<1>5. \A p \in Quals : /\ p # q => b[p] = a[p]
                       /\ p = q => b[p] = Recognized(a[p], d, at)
  BY <1>0, <1>2, <1>4 DEF Ids
<1>6. \A s \in Slots : b[s] = IF q # None /\ d.release THEN Released(a, q)[s]
                              ELSE a[s]
  BY <1>0, <1>1, <1>2 DEF Ids
<1>7. \A s \in Sources : s # r.source => b[s] = a[s]
  BY <1>0, <1>1, <1>2, <1>4 DEF Ids
<1>8. b[r.source] = [a[r.source] EXCEPT !.version = @ + 1]
  BY <1>0, <1>2 DEF Ids
<1>9. \A k \in EventKeys : k # KeyOf(r) => b[k] = a[k]
  BY <1>0, <1>1, <1>2, <1>4 DEF Ids
<1>10. b[KeyOf(r)] = EventOf(a, r, at)
  BY <1>0, <1>2 DEF Ids
<1>11. b[System] = IF r.credential.media = "QR"
                   THEN [a[System] EXCEPT !.qr = @ + 1]
                   ELSE [a[System] EXCEPT !.face = @ + 1]
  BY <1>0, <1>2 DEF Ids
<1>12. Recognition(a, b, r, at, q, d)
  BY <1>3, <1>5, <1>6, <1>7, <1>8, <1>9, <1>10, <1>11 DEF Recognition
<1>. QED  BY <1>12 DEF b, q, d

LEMMA RecognitionSlots ==
  ASSUME NEW a, StoreOK(a), NEW r, NEW at, NEW d \in Decisions,
         NEW q \in Quals \union {None},
         NEW b, Recognition(a, b, r, at, q, d)
  PROVE  /\ b[System] \in SystemDocs
         /\ Stamp(a) < Stamp(b)
         /\ SlotsAgree(b)
         /\ OthersKept(a, b, q)
         /\ q \in Quals /\ d.release => BoundSlots(b, q) = {}
<1>0. /\ SlotsAgree(a) /\ IsDocs(a) /\ a[System] \in SystemDocs
      /\ None \notin Quals /\ Ids
  BY StoreParts, IdFacts, IdsAssumption
<1>1. /\ b[System] \in SystemDocs /\ b[System].slotCount = a[System].slotCount
      /\ Stamp(a) < Stamp(b)
  <2>1. /\ a[System].qr \in Nat /\ a[System].face \in Nat
        /\ a[System].qr + 1 \in Nat /\ a[System].face + 1 \in Nat
    BY <1>0 DEF SystemDocs
  <2>2. CASE r.credential.media = "QR"
    <3>. b[System] = [a[System] EXCEPT !.qr = a[System].qr + 1]
      BY <2>2 DEF Recognition
    <3>1. /\ b[System] \in SystemDocs
          /\ b[System].slotCount = a[System].slotCount
          /\ b[System].qr = a[System].qr + 1
          /\ b[System].face = a[System].face
      BY <1>0, <2>1 DEF SystemDocs
    <3>. QED  BY <2>1, <3>1 DEF Stamp
  <2>3. CASE r.credential.media # "QR"
    <3>. b[System] = [a[System] EXCEPT !.face = a[System].face + 1]
      BY <2>3 DEF Recognition
    <3>1. /\ b[System] \in SystemDocs
          /\ b[System].slotCount = a[System].slotCount
          /\ b[System].qr = a[System].qr
          /\ b[System].face = a[System].face + 1
      BY <1>0, <2>1 DEF SystemDocs
    <3>. QED  BY <2>1, <3>1 DEF Stamp
  <2>. QED  BY <2>2, <2>3
<1>2. CASE q # None /\ d.release
  <2>. DEFINE x == Released(a, q)
  <2>1. /\ OnlySlots(a, x) /\ SlotsAgree(x) /\ BoundSlots(x, q) = {}
        /\ OthersKept(a, x, q)
    BY <1>0, <1>2, ReleaseFacts
  <2>2. \A s \in Slots : b[s] = x[s]
    BY <1>2 DEF Recognition
  <2>. HIDE DEF x
  <2>3. x[System] = a[System]
    BY <1>0, <2>1 DEF OnlySlots, Ids
  <2>4. /\ SlotsAgree(b) /\ BoundSlots(b, q) = {} /\ OthersKept(x, b, q)
    BY <1>1, <1>2, <2>1, <2>2, <2>3, SlotFrame
  <2>5. OthersKept(a, b, q)
    BY <1>2, <2>1, <2>4, OthersKeptTwice
  <2>. QED  BY <1>1, <1>2, <2>4, <2>5
<1>3. CASE q = None \/ ~d.release
  <2>1. \A s \in Slots : b[s] = a[s]
    BY <1>3 DEF Recognition
  <2>2. /\ SlotsAgree(b)
        /\ \A p \in Quals : BoundSlots(b, p) = BoundSlots(a, p)
    BY <1>0, <1>1, <2>1, SlotFrame
  <2>3. OthersKept(a, b, q)
    BY <2>1, <2>2 DEF OthersKept, BoundSlots
  <2>. QED  BY <1>0, <1>1, <1>3, <2>2, <2>3
<1>. QED  BY <1>2, <1>3

\* Who keeps a mapping may still use it.
LEMMA RecognizedMayHoldFace ==
  ASSUME NEW q \in Qualifications, NEW d, NEW at, Sound(q, d, at),
         ~d.release, MayHoldFace(q)
  PROVE  MayHoldFace(Recognized(q, d, at))
<1>1. /\ d \in Decisions /\ d.to \in {None, "INSIDE"} /\ ~d.expire
  BY DEF Sound, Decisions
<1>2. /\ Recognized(q, d, at).presence \in {q.presence, "INSIDE"}
      /\ Recognized(q, d, at).revokedAt = q.revokedAt
      /\ Recognized(q, d, at).expiredAt = q.expiredAt
  BY <1>1 DEF Recognized, Qualifications
<1>. QED  BY <1>2 DEF MayHoldFace

LEMMA RecognitionIsTurn ==
  ASSUME NEW a, StoreOK(a), NEW r \in RecognitionInputs, NEW at \in Instants,
         ~Present(a, KeyOf(r)),
         NEW d, NEW q \in Quals \union {None},
         q # None => Present(a, q), Sound(a[q], d, at),
         NEW b, Recognition(a, b, r, at, q, d), SlotsCounted(b)
  PROVE  Turn(a, b, q)
<1>0. /\ None \notin Quals /\ r.source \in Sources /\ KeyOf(r) \in EventKeys
  BY IdsAssumption DEF RecognitionInputs, KeyOf, EventKeys
<1>1. /\ Stamp(a) < Stamp(b)
      /\ SlotsAgree(b)
      /\ OthersKept(a, b, q)
      /\ q \in Quals /\ d.release => BoundSlots(b, q) = {}
  <2>. d \in Decisions /\ d.release \in BOOLEAN
    BY DEF Sound, Decisions
  <2>. QED  BY RecognitionSlots
<1>2. ASSUME q \in Quals
      PROVE  /\ b[q] \in Qualifications /\ LegalQualification(b[q])
             /\ Present(a, q) => a[q].version < b[q].version
             /\ BoundSlots(b, q) # {} => MayHoldFace(b[q])
  <2>1. /\ a[q] \in Qualifications /\ LegalQualification(a[q])
        /\ a[q].version \in Nat
    BY <1>0, <1>2, StoreParts DEF Qualifications
  <2>2. b[q] = Recognized(a[q], d, at)
    BY <1>2 DEF Recognition
  <2>3. /\ b[q] \in Qualifications /\ LegalQualification(b[q])
        /\ b[q].version = a[q].version + 1
    BY <2>1, <2>2, RecognizedIsLegal
  <2>4. ASSUME BoundSlots(b, q) # {} PROVE MayHoldFace(b[q])
    <3>0. ~d.release
      BY <1>1, <1>2, <2>4
    <3>1. ~d.release /\ BoundSlots(a, q) # {}
      <4>. \A s \in Slots : b[s] = a[s]
        BY <3>0 DEF Recognition
      <4>. QED  BY <2>4, <3>0 DEF BoundSlots, Present
    <3>2. MayHoldFace(a[q])
      BY <1>0, <1>2, <3>1 DEF StoreOK, FacesAgree, BoundSlots
    <3>. QED  BY <2>1, <2>2, <3>1, <3>2, RecognizedMayHoldFace
  <2>. QED  BY <2>1, <2>3, <2>4
<1>3. \A s \in Sources : b[s] \in SourceDocs
  <2>1. \A s \in Sources : a[s] \in SourceDocs
    BY DEF StoreOK, DocsOK
  <2>2. a[r.source].version + 1 \in Nat
    BY <1>0, <2>1 DEF SourceDocs
  <2>3. b[r.source] = [a[r.source] EXCEPT !.version = a[r.source].version + 1]
    BY DEF Recognition
  <2>4. b[r.source] \in SourceDocs
    BY <1>0, <2>1, <2>2, <2>3 DEF SourceDocs
  <2>. QED  BY <2>1, <2>4 DEF Recognition
<1>4. \A k \in EventKeys : /\ Present(a, k) => b[k] = a[k]
                           /\ Present(b, k) => b[k] \in Events
  <2>1. EventOf(a, r, at) \in Events
    BY EventIsEvent
  <2>2. \A k \in EventKeys : Present(a, k) => a[k] \in Events
    BY DEF StoreOK, DocsOK
  <2>. QED  BY <2>1, <2>2 DEF Recognition, Present
<1>5. IsDocs(b) /\ \A p \in Quals : p # q => b[p] = a[p]
  BY DEF Recognition
<1>. QED  BY <1>1, <1>2, <1>3, <1>4, <1>5 DEF Turn

LEMMA RecognizedFields ==
  ASSUME NEW q \in Qualifications, NEW d \in Decisions, NEW at
  PROVE  LET p == Recognized(q, d, at)
         IN  /\ p.presence = IF d.to # None THEN d.to ELSE q.presence
             /\ p.enteredAt = IF d.to = "INSIDE" THEN at ELSE q.enteredAt
             /\ p.exitedAt = IF d.to = "EXITED" THEN at ELSE q.exitedAt
             /\ p.validFrom = q.validFrom /\ p.validUntil = q.validUntil
  BY DEF Recognized, Qualifications

\* The new event explains the move it decided, and nothing else moved.
LEMMA RecognitionIsExplained ==
  ASSUME NEW a, StoreOK(a), NEW r \in RecognitionInputs, NEW at \in Instants,
         ~Present(a, KeyOf(r)),
         NEW d, d = Decision(a, r, at), NEW q, q = Attempted(a, r),
         NEW b, Recognition(a, b, r, at, q, d), Turn(a, b, q)
  PROVE  PresenceExplained(b)
<1>. DEFINE K == KeyOf(r)
            new(p, to) == IF p = q /\ d.to = to THEN {K} ELSE {}
<1>0. /\ None \notin Quals /\ None \notin Presences /\ None \notin Events
      /\ None \notin Qualifications
      /\ K \in EventKeys /\ q \in Quals \union {None}
      /\ q # None => Present(a, q)
      /\ Sound(a[q], d, at) /\ (q = None => d.to = None)
  BY IdsAssumption, AttemptedFacts, DecisionIsSound
  DEF RecognitionInputs, KeyOf, EventKeys
<1>1. /\ Present(b, K) /\ b[K].qualification = q /\ b[K].to = d.to
      /\ b[K].outcome = d.outcome /\ b[K].receivedAt = at
  BY <1>0, EventIsEvent DEF Recognition, Present
<1>2. ~Present(a, K)
  OBVIOUS
<1>. HIDE DEF K
<1>3. \A k \in EventKeys : k # K => b[k] = a[k]
  BY DEF Recognition, K
<1>4. \A p \in Quals : Present(b, p) = Present(a, p)
  BY <1>0 DEF Turn, Present
<1>5. \A k \in EventKeys : Present(b, k) =>
        /\ b[k].qualification # None => Present(b, b[k].qualification)
        /\ b[k].outcome = "REJECTED" => b[k].to = None
  <2>1. ASSUME NEW k \in EventKeys, k # K, Present(b, k)
        PROVE  /\ b[k].qualification # None => Present(b, b[k].qualification)
               /\ b[k].outcome = "REJECTED" => b[k].to = None
    <3>1. b[k] = a[k] /\ Present(a, k)
      BY <1>3, <2>1 DEF Present
    <3>2. a[k].qualification \in Quals \union {None}
      BY <3>1 DEF StoreOK, DocsOK, Events
    <3>. QED  BY <1>4, <3>1, <3>2 DEF StoreOK, PresenceExplained
  <2>2. q # None => Present(b, q)
    BY <1>0, <1>4
  <2>3. d.outcome = "REJECTED" => d.to = None
    BY <1>0 DEF Sound
  <2>. QED  BY <1>1, <2>1, <2>2, <2>3
<1>6. ASSUME NEW p \in Quals, NEW to \in Presences
      PROVE  MovedTo(b, p, to) = MovedTo(a, p, to) \union new(p, to)
  BY <1>0, <1>1, <1>2, <1>3 DEF MovedTo, Present
<1>7. \A p, to : K \notin MovedTo(a, p, to) /\ MovedTo(a, p, to) \subseteq EventKeys
  BY <1>2 DEF MovedTo
<1>8. "INSIDE" \in Presences /\ "EXITED" \in Presences
  BY DEF Presences
<1>. HIDE DEF new
<1>9. ASSUME NEW p \in Quals, Present(b, p)
      PROVE  ExplainedBy(b, p, MovedTo(b, p, "INSIDE"), MovedTo(b, p, "EXITED"))
  <2>. DEFINE entries == MovedTo(a, p, "INSIDE")
              exits == MovedTo(a, p, "EXITED")
  <2>1. ExplainedBy(a, p, entries, exits)
    BY <1>4, <1>9 DEF StoreOK, PresenceExplained
  <2>2. \A k \in entries \union exits : b[k] = a[k]
    BY <1>3, <1>7
  <2>3. /\ MovedTo(b, p, "INSIDE") = entries \union new(p, "INSIDE")
        /\ MovedTo(b, p, "EXITED") = exits \union new(p, "EXITED")
    BY <1>6, <1>8
  <2>. HIDE DEF entries, exits
  <2>4. CASE p # q \/ d.to = None
    <3>1. MovedTo(b, p, "INSIDE") = entries /\ MovedTo(b, p, "EXITED") = exits
      BY <1>0, <1>8, <2>3, <2>4 DEF new
    <3>2. /\ b[p].presence = a[p].presence /\ b[p].enteredAt = a[p].enteredAt
          /\ b[p].exitedAt = a[p].exitedAt
          /\ b[p].validFrom = a[p].validFrom /\ b[p].validUntil = a[p].validUntil
      <4>1. CASE p # q
        BY <4>1 DEF Turn
      <4>2. CASE p = q /\ d.to = None
        <5>1. b[p] = Recognized(a[p], d, at)
          BY <4>2 DEF Recognition
        <5>2. a[p] \in Qualifications /\ d \in Decisions
          BY <1>0, <1>4, <1>9, StoreParts DEF Sound
        <5>. QED  BY <1>0, <1>8, <4>2, <5>1, <5>2, RecognizedFields
      <4>. QED  BY <2>4, <4>1, <4>2
    <3>. QED  BY <2>1, <2>2, <3>1, <3>2 DEF ExplainedBy
  <2>5. CASE p = q /\ d.to # None
    <3>0. /\ a[p] \in Qualifications /\ d \in Decisions
          /\ d.to \in {"INSIDE", "EXITED"}
          /\ d.outcome = "ACCEPTED"
      <4>. a[p] \in Qualifications
        BY <1>0, <1>4, <1>9, StoreParts
      <4>. QED  BY <1>0, <2>5 DEF Sound, Decisions
    <3>1. b[p] = Recognized(a[p], d, at)
      BY <2>5 DEF Recognition
    <3>2. /\ b[p].presence = d.to
          /\ b[p].enteredAt = IF d.to = "INSIDE" THEN at ELSE a[p].enteredAt
          /\ b[p].exitedAt = IF d.to = "EXITED" THEN at ELSE a[p].exitedAt
          /\ b[p].validFrom = a[p].validFrom /\ b[p].validUntil = a[p].validUntil
      BY <2>5, <3>0, <3>1, RecognizedFields
    <3>3. CASE d.to = "INSIDE"
      <4>1. entries = {} /\ exits = {}
        BY <1>0, <2>1, <2>5, <3>3 DEF Sound, ExplainedBy
      <4>2. MovedTo(b, p, "INSIDE") = {K} /\ MovedTo(b, p, "EXITED") = {}
        BY <2>3, <2>5, <3>3, <4>1 DEF new
      <4>3. a[p].validFrom <= at /\ at < a[p].validUntil
        BY <1>0, <2>5, <3>3 DEF Sound
      <4>. QED  BY <1>1, <3>0, <3>2, <3>3, <4>2, <4>3 DEF ExplainedBy
    <3>4. CASE d.to = "EXITED"
      <4>1. entries # {} /\ exits = {}
        BY <1>0, <2>1, <2>5, <3>4 DEF Sound, ExplainedBy
      <4>2. MovedTo(b, p, "INSIDE") = entries /\ MovedTo(b, p, "EXITED") = {K}
        BY <2>3, <2>5, <3>4, <4>1 DEF new
      <4>3. \A k \in entries : k \in entries \union exits
        OBVIOUS
      <4>. QED  BY <1>1, <2>1, <2>2, <3>0, <3>2, <3>4, <4>1, <4>2, <4>3
                DEF ExplainedBy
    <3>. QED  BY <3>0, <3>3, <3>4
  <2>. QED  BY <2>4, <2>5
<1>. QED  BY <1>5, <1>9 DEF PresenceExplained

\* A step of the store, or none.
Kept(a, b) == StoreOK(b) /\ Newer(a, b)

LEMMA RecognitionKeeps ==
  ASSUME NEW a, StoreOK(a), NEW r \in RecognitionInputs, NEW at \in Instants,
         NEW e \in RecognitionEffects(a, r, at)
  PROVE  Kept(a, e.docs)
<1>. DEFINE b == RecognitionImage(a, r, at)
            q == Attempted(a, r)
            d == Decision(a, r, at)
<1>0. Kept(a, a)
  BY NewerSelf DEF Kept
<1>1. CASE e.docs = a
  BY <1>0, <1>1
<1>2. CASE ~Present(a, KeyOf(r)) /\ e.docs = b /\ SlotsCounted(b)
  <2>1. /\ q \in Quals \union {None}
        /\ q # None => Present(a, q)
        /\ Sound(a[q], d, at)
    BY AttemptedFacts, DecisionIsSound
  <2>2. Recognition(a, b, r, at, q, d)
    BY RecognitionFacts
  <2>3. d = Decision(a, r, at) /\ q = Attempted(a, r)
    OBVIOUS
  <2>. HIDE DEF b, q, d
  <2>4. Turn(a, b, q)
    BY <1>2, <2>1, <2>2, RecognitionIsTurn
  <2>5. DocsOK(b) /\ FacesAgree(b) /\ Newer(a, b)
    BY <2>1, <2>4, TurnIsSound
  <2>6. PresenceExplained(b)
    BY <1>2, <2>2, <2>3, <2>4, RecognitionIsExplained
  <2>. QED  BY <1>2, <2>5, <2>6 DEF Kept, StoreOK
<1>3. \/ e.docs = a
      \/ ~Present(a, KeyOf(r)) /\ e.docs = b /\ SlotsCounted(b)
  <2>1. CASE Present(a, KeyOf(r))
    <3>. e = Replay(a, r)
      BY <2>1 DEF RecognitionEffects
    <3>. QED  BY DEF Replay, Effect
  <2>2. CASE ~Present(a, KeyOf(r))
    <3>. e = Written(a, b, "COMMITTED", EventOf(a, r, at))
      BY <2>2 DEF RecognitionEffects
    <3>. HIDE DEF b
    <3>. QED  BY <2>2, WrittenDocs
  <2>. QED  BY <2>1, <2>2
<1>. QED  BY <1>1, <1>2, <1>3

-----------------------------------------------------------------------------
(* Every operation.                                                          *)

LEMMA KindFacts ==
  ASSUME NEW a, NEW r \in Inputs, NEW at
  PROVE  \/ r \in RecognitionInputs /\ r.kind = "RECOGNIZE"
            /\ Effects(a, r, at) = RecognitionEffects(a, r, at)
         \/ r \in CreateInputs /\ r.kind = "CREATE"
            /\ Effects(a, r, at) = CreateEffects(a, r, at)
         \/ r \in UpdateInputs /\ r.kind = "UPDATE"
            /\ Effects(a, r, at) = UpdateEffects(a, r, at)
         \/ r \in RevokeInputs /\ r.kind = "REVOKE"
            /\ Effects(a, r, at) = RevokeEffects(a, r, at)
<1>1. CASE r \in RecognitionInputs
  <2>. r.kind = "RECOGNIZE"
    BY <1>1 DEF RecognitionInputs
  <2>. QED  BY <1>1 DEF Effects
<1>2. CASE r \in CreateInputs
  <2>. r.kind = "CREATE"
    BY <1>2 DEF CreateInputs
  <2>. QED  BY <1>2 DEF Effects
<1>3. CASE r \in UpdateInputs
  <2>. r.kind = "UPDATE"
    BY <1>3 DEF UpdateInputs
  <2>. QED  BY <1>3 DEF Effects
<1>4. CASE r \in RevokeInputs
  <2>. r.kind = "REVOKE"
    BY <1>4 DEF RevokeInputs
  <2>. QED  BY <1>4 DEF Effects
<1>. QED  BY <1>1, <1>2, <1>3, <1>4, InputsAssumption

\* Whatever is asked, and whenever, an operation leaves a legal, explained
\* store in agreement, that has moved on from the one it read (every use case
\* of src/access together with the adapter's writes).
THEOREM EffectsKeep ==
  ASSUME NEW a, StoreOK(a), NEW r \in Inputs, NEW at \in Arrivals,
         Possible(a, r), NEW e \in Effects(a, r, at)
  PROVE  Kept(a, e.docs)
<1>0. at \in Instants
  BY InputsAssumption
<1>1. CASE r \in RecognitionInputs /\ r.kind = "RECOGNIZE"
           /\ Effects(a, r, at) = RecognitionEffects(a, r, at)
  BY <1>0, <1>1, RecognitionKeeps
<1>. DEFINE managed == \E q \in Quals : e.docs = a \/ Managed(a, e.docs, q)
<1>2. CASE r \in CreateInputs /\ r.kind = "CREATE"
           /\ Effects(a, r, at) = CreateEffects(a, r, at)
  <2>. r.qualification \in Quals
    BY <1>2 DEF CreateInputs
  <2>. managed
    BY <1>0, <1>2, CreateKeeps DEF Guarded
  <2>. QED  BY ManagedIsSound, NewerSelf DEF Kept
<1>3. CASE r \in UpdateInputs /\ r.kind = "UPDATE"
           /\ Effects(a, r, at) = UpdateEffects(a, r, at)
  <2>. r.qualification \in Quals
    BY <1>3 DEF UpdateInputs
  <2>. managed
    BY <1>0, <1>3, UpdateKeeps DEF Guarded, InPlace
  <2>. QED  BY ManagedIsSound, NewerSelf DEF Kept
<1>4. CASE r \in RevokeInputs /\ r.kind = "REVOKE"
           /\ Effects(a, r, at) = RevokeEffects(a, r, at)
  <2>. r.qualification \in Quals
    BY <1>4 DEF RevokeInputs
  <2>. managed
    BY <1>0, <1>4, RevokeKeeps DEF Guarded
  <2>. QED  BY ManagedIsSound, NewerSelf DEF Kept
<1>. QED  BY <1>1, <1>2, <1>3, <1>4, KindFacts

\* The event a recognition reports is the one its documents hold, caused by
\* the credential it came with.
LEMMA ReportedEvents ==
  ASSUME NEW a, StoreOK(a), NEW r \in RecognitionInputs, NEW at \in Instants,
         NEW e \in RecognitionEffects(a, r, at)
  PROVE  /\ e.status \in {"COMMITTED", "REPLAYED"} =>
              /\ e.docs[KeyOf(r)] = e.detail
              /\ Present(e.docs, KeyOf(r))
              /\ e.detail.credential = r.credential
         /\ e.status = "CONFLICT" =>
              /\ Present(e.docs, KeyOf(r))
              /\ e.docs[KeyOf(r)].credential # r.credential
         /\ e.status \in {"COMMITTED", "REPLAYED", "CONFLICT", "FAILED"}
<1>. DEFINE b == RecognitionImage(a, r, at)
            v == EventOf(a, r, at)
<1>1. CASE Present(a, KeyOf(r))
  <2>. e = Replay(a, r)
    BY <1>1 DEF RecognitionEffects
  <2>. QED  BY <1>1 DEF Replay, Effect
<1>2. CASE ~Present(a, KeyOf(r))
  <2>1. e = Written(a, b, "COMMITTED", v)
    BY <1>2 DEF RecognitionEffects
  <2>2. b[KeyOf(r)] = v
    BY RecognitionFacts, ZenonT(60) DEF Recognition
  <2>3. v.credential = r.credential /\ v # None
    BY EventIsEvent, IdsAssumption
  <2>. HIDE DEF b, v
  <2>. QED  BY <2>1, <2>2, <2>3 DEF Written, Effect, Present
<1>. QED  BY <1>1, <1>2

-----------------------------------------------------------------------------
(* The same operation on other documents.  Over(c, b, q) is c with every     *)
(* qualification but q as in b: an operation about q does the same to        *)
(* Over(a, b, q) as to a.                                                    *)

Over(c, b, q) == [d \in Docs |-> IF d \in Quals /\ d # q THEN b[d] ELSE c[d]]

LEMMA OverFacts ==
  ASSUME NEW c, NEW b, NEW q
  PROVE  /\ IsDocs(Over(c, b, q))
         /\ \A d \in Docs \ Quals : Over(c, b, q)[d] = c[d]
         /\ q \in Quals => Over(c, b, q)[q] = c[q]
         /\ \A p \in Quals : p # q => Over(c, b, q)[p] = b[p]
         /\ \A s \in Slots : Over(c, b, q)[s] = c[s]
         /\ Over(c, b, q)[System] = c[System]
<1>. Ids
  BY IdFacts
<1>. QED  BY DEF Over, IsDocs, Ids

LEMMA OverSlots ==
  ASSUME NEW c, NEW b, NEW q
  PROVE  /\ \A s \in Slots : Present(Over(c, b, q), s) = Present(c, s)
         /\ \A p : BoundSlots(Over(c, b, q), p) = BoundSlots(c, p)
         /\ EmptySlots(Over(c, b, q)) = EmptySlots(c)
         /\ \A f : SlotsOf(Over(c, b, q), f) = SlotsOf(c, f)
         /\ \A f : Claimable(Over(c, b, q), f) = Claimable(c, f)
         /\ \A f : BindRefusal(Over(c, b, q), f) = BindRefusal(c, f)
         /\ SlotsCounted(Over(c, b, q)) = SlotsCounted(c)
<1>. DEFINE o == Over(c, b, q)
<1>1. (\A s \in Slots : o[s] = c[s]) /\ o[System] = c[System]
  BY OverFacts
<1>. HIDE DEF o
<1>2. \A s \in Slots : Present(o, s) = Present(c, s)
  BY <1>1 DEF Present
<1>3. \A p : BoundSlots(o, p) = BoundSlots(c, p)
  BY <1>1, <1>2 DEF BoundSlots
<1>4. EmptySlots(o) = EmptySlots(c)
  BY <1>3 DEF EmptySlots
<1>5. \A f : SlotsOf(o, f) = SlotsOf(c, f)
  BY <1>1, <1>2 DEF SlotsOf
<1>6. \A f : Claimable(o, f) = Claimable(c, f)
  BY <1>4, <1>5 DEF Claimable
<1>7. \A f : BindRefusal(o, f) = BindRefusal(c, f)
  BY <1>1, <1>5, <1>6 DEF BindRefusal
<1>8. {s \in Slots : Present(o, s)} = {s \in Slots : Present(c, s)}
  BY <1>2
<1>9. SlotsCounted(o) = SlotsCounted(c)
  BY <1>1, <1>8 DEF SlotsCounted
<1>. QED  BY <1>2, <1>3, <1>4, <1>5, <1>6, <1>7, <1>9 DEF o

LEMMA OverReleased ==
  ASSUME NEW c, NEW b, NEW q, NEW p
  PROVE  Released(Over(c, b, q), p) = Over(Released(c, p), b, q)
<1>. DEFINE x == Released(Over(c, b, q), p)
            y == Over(Released(c, p), b, q)
            o == Over(c, b, q)
<1>1. BoundSlots(o, p) = BoundSlots(c, p)
  BY OverSlots
<1>2. IsDocs(x) /\ IsDocs(y)
  <2>. \A z : IsDocs(Released(z, p))
    BY DEF IsDocs, Released
  <2>. QED  BY OverFacts
<1>3. ASSUME NEW d \in Docs, d \in Quals, d # q PROVE x[d] = y[d]
  <2>1. d \notin BoundSlots(c, p)
    BY <1>3, IdFacts DEF Ids, BoundSlots
  <2>2. x[d] = o[d]
    BY <1>1, <2>1 DEF Released
  <2>. QED  BY <1>3, <2>2 DEF Over
<1>4. ASSUME NEW d \in Docs, ~(d \in Quals /\ d # q) PROVE x[d] = y[d]
  <2>1. o[d] = c[d] /\ y[d] = Released(c, p)[d]
    BY <1>4 DEF Over
  <2>. HIDE DEF o
  <2>2. Released(o, p)[d] = Released(c, p)[d]
    BY <1>1, <2>1 DEF Released
  <2>. QED  BY <2>1, <2>2 DEF o
<1>. QED  BY <1>2, <1>3, <1>4, SameDocs

LEMMA OverGuards ==
  ASSUME NEW c, NEW b, NEW q, IsDocs(c)
  PROVE  /\ FaceGuarded(Over(c, b, q)) = Over(FaceGuarded(c), b, q)
         /\ QrGuarded(Over(c, b, q)) = Over(QrGuarded(c), b, q)
<1>. Ids
  BY IdFacts
<1>. /\ IsDocs(FaceGuarded(Over(c, b, q))) /\ IsDocs(Over(FaceGuarded(c), b, q))
     /\ IsDocs(QrGuarded(Over(c, b, q))) /\ IsDocs(Over(QrGuarded(c), b, q))
  <2>. \A z : IsDocs(z) => IsDocs(FaceGuarded(z)) /\ IsDocs(QrGuarded(z))
    BY DEF IsDocs, FaceGuarded, QrGuarded
  <2>. QED  BY OverFacts
<1>1. \A d \in Docs : FaceGuarded(Over(c, b, q))[d] = Over(FaceGuarded(c), b, q)[d]
  BY DEF FaceGuarded, Over, Ids, IsDocs
<1>2. \A d \in Docs : QrGuarded(Over(c, b, q))[d] = Over(QrGuarded(c), b, q)[d]
  BY DEF QrGuarded, Over, Ids, IsDocs
<1>. QED  BY <1>1, <1>2, SameDocs

ExpiredAt(c, q, at) == [c EXCEPT ![q].expiredAt = at, ![q].version = @ + 1]
RevokedAt(c, q, at) == [c EXCEPT ![q].revokedAt = at, ![q].version = @ + 1]

LEMMA OverUpdated ==
  ASSUME NEW c, NEW b, NEW q \in Quals, IsDocs(c), NEW from, NEW until
  PROVE  Updated(Over(c, b, q), q, from, until)
           = Over(Updated(c, q, from, until), b, q)
  BY IdFacts DEF Updated, Over, Ids, IsDocs

LEMMA OverWrites ==
  ASSUME NEW c, NEW b, NEW q \in Quals, IsDocs(c), NEW at
  PROVE  /\ RevokedAt(Over(c, b, q), q, at) = Over(RevokedAt(c, q, at), b, q)
         /\ ExpiredAt(Over(c, b, q), q, at) = Over(ExpiredAt(c, q, at), b, q)
  BY IdFacts DEF RevokedAt, ExpiredAt, Over, Ids, IsDocs

LEMMA OverNew ==
  ASSUME NEW c, NEW b, NEW q \in Quals, IsDocs(c), NEW v
  PROVE  [Over(c, b, q) EXCEPT ![q] = v] = Over([c EXCEPT ![q] = v], b, q)
  BY IdFacts DEF Over, Ids, IsDocs

LEMMA OverBound ==
  ASSUME NEW c, NEW b, NEW q \in Quals, IsDocs(c), NEW f,
         NEW x \in BoundImages(c, q, f)
  PROVE  /\ IsDocs(x)
         /\ Over(x, b, q) \in BoundImages(Over(c, b, q), q, f)
<1>. DEFINE o == Over(c, b, q)
            bound(s, v) == [subject |-> f, qualification |-> q, version |-> v]
<1>1. /\ Claimable(o, f) = Claimable(c, f) /\ Ids
      /\ \A s \in Slots : Present(o, s) = Present(c, s)
      /\ \A s \in Slots : o[s] = c[s]
      /\ o[System] = c[System]
  BY OverSlots, OverFacts, IdFacts
<1>2. CASE Claimable(c, f) # {}
  <2>1. PICK s \in Claimable(c, f) : x = [c EXCEPT ![s] = bound(s, c[s].version + 1)]
    BY <1>2 DEF BoundImages
  <2>2. s \in Slots
    BY DEF Claimable, EmptySlots, BoundSlots
  <2>3. Over(x, b, q) = [o EXCEPT ![s] = bound(s, o[s].version + 1)]
    BY <1>1, <2>1, <2>2 DEF Over, Ids, IsDocs
  <2>4. IsDocs(x)
    BY <2>1 DEF IsDocs
  <2>. HIDE DEF o
  <2>. QED  BY <1>1, <1>2, <2>1, <2>3, <2>4 DEF BoundImages, o
<1>3. CASE Claimable(c, f) = {}
  <2>1. PICK s \in {s \in Slots : ~Present(c, s)} :
          x = [c EXCEPT ![s] = bound(s, 0), ![System].slotCount = @ + 1]
    BY <1>3 DEF BoundImages
  <2>2. Over(x, b, q) = [o EXCEPT ![s] = bound(s, 0), ![System].slotCount = @ + 1]
    BY <1>1, <2>1 DEF Over, Ids, IsDocs
  <2>3. IsDocs(x)
    BY <2>1 DEF IsDocs
  <2>. HIDE DEF o
  <2>4. s \in {t \in Slots : ~Present(o, t)} /\ Claimable(o, f) = {}
    BY <1>1, <1>3
  <2>. QED  BY <2>2, <2>3, <2>4 DEF BoundImages, o
<1>. QED  BY <1>2, <1>3

\* o is a but for qualifications that q's operations do not read.
Alike(a, o, b, q) ==
  /\ o = Over(a, b, q)
  /\ \A p \in Quals : Present(o, p) = Present(a, p)

OverEffect(e, b, q) == Effect(Over(e.docs, b, q), e.status, e.detail)

LEMMA OverWritten ==
  ASSUME NEW a, NEW c, NEW b, NEW q, NEW status, NEW detail
  PROVE  /\ Written(Over(a, b, q), Over(c, b, q), status, detail)
              = OverEffect(Written(a, c, status, detail), b, q)
         /\ Effect(Over(a, b, q), status, detail)
              = OverEffect(Effect(a, status, detail), b, q)
<1>. SlotsCounted(Over(c, b, q)) = SlotsCounted(c)
  BY OverSlots
<1>. QED  BY DEF Written, Effect, OverEffect

RevocationImage(c, q, at) == FaceGuarded(RevokedAt(Released(c, q), q, at))

LEMMA OverEnded ==
  ASSUME NEW a, NEW b, NEW q \in Quals, IsDocs(a),
         NEW o, o = Over(a, b, q), NEW at
  PROVE  /\ ExpiryImage(o, q, at) = Over(ExpiryImage(a, q, at), b, q)
         /\ RevocationImage(o, q, at) = Over(RevocationImage(a, q, at), b, q)
<1>. DEFINE x == Released(a, q)
<1>1. Released(o, q) = Over(x, b, q)
  BY OverReleased
<1>2. IsDocs(x)
  BY DEF IsDocs, Released
<1>3. /\ ExpiryImage(o, q, at) = FaceGuarded(ExpiredAt(Over(x, b, q), q, at))
      /\ ExpiryImage(a, q, at) = FaceGuarded(ExpiredAt(x, q, at))
  BY <1>1 DEF ExpiryImage, ExpiredAt
<1>4. /\ RevocationImage(o, q, at) = FaceGuarded(RevokedAt(Over(x, b, q), q, at))
      /\ RevocationImage(a, q, at) = FaceGuarded(RevokedAt(x, q, at))
  BY <1>1 DEF RevocationImage
<1>. HIDE DEF x
<1>5. /\ ExpiredAt(Over(x, b, q), q, at) = Over(ExpiredAt(x, q, at), b, q)
      /\ RevokedAt(Over(x, b, q), q, at) = Over(RevokedAt(x, q, at), b, q)
  BY <1>2, OverWrites
<1>6. IsDocs(ExpiredAt(x, q, at)) /\ IsDocs(RevokedAt(x, q, at))
  BY <1>2 DEF IsDocs, ExpiredAt, RevokedAt
<1>. QED  BY <1>3, <1>4, <1>5, <1>6, OverGuards

LEMMA OverRefusal ==
  ASSUME NEW a, NEW b, NEW q \in Quals, IsDocs(a),
         NEW o, o = Over(a, b, q),
         NEW refusal, NEW at, NEW e \in RefusalEffects(a, q, refusal, at)
  PROVE  OverEffect(e, b, q) \in RefusalEffects(o, q, refusal, at)
<1>1. o[q] = a[q]
  BY OverFacts
<1>2. ExpiryImage(o, q, at) = Over(ExpiryImage(a, q, at), b, q)
  BY OverEnded
<1>3. OverEffect(Written(a, ExpiryImage(a, q, at), "EXPIRED", refusal), b, q)
        = Written(o, ExpiryImage(o, q, at), "EXPIRED", refusal)
  BY <1>2, OverWritten
<1>4. OverEffect(Refused(a, refusal), b, q) = Refused(o, refusal)
  BY OverWritten DEF Refused
<1>. QED  BY <1>1, <1>3, <1>4 DEF RefusalEffects

LEMMA OverRevoke ==
  ASSUME NEW a, NEW b, NEW r \in RevokeInputs, IsDocs(a),
         NEW o, Alike(a, o, b, r.qualification),
         NEW at, NEW e \in RevokeEffects(a, r, at)
  PROVE  OverEffect(e, b, r.qualification) \in RevokeEffects(o, r, at)
<1>. DEFINE q == r.qualification
            refusal == RevocationRefusal(a[q], r.reason, at)
<1>1. q \in Quals /\ o = Over(a, b, q)
  BY DEF RevokeInputs, Alike
<1>2. o[q] = a[q] /\ Present(o, q) = Present(a, q)
  BY <1>1, OverFacts DEF Alike
<1>3. RevocationImage(o, q, at) = Over(RevocationImage(a, q, at), b, q)
  <2>. HIDE DEF q
  <2>. QED  BY <1>1, OverEnded
<1>4. CASE ~Present(a, q)
  <2>. e = Refused(a, "QUALIFICATION_NOT_FOUND")
    BY <1>4 DEF RevokeEffects
  <2>. OverEffect(e, b, q) = Refused(o, "QUALIFICATION_NOT_FOUND")
    BY <1>1, OverWritten DEF Refused
  <2>. QED  BY <1>2, <1>4 DEF RevokeEffects
<1>5. CASE Present(a, q) /\ refusal # None
  <2>. e \in RefusalEffects(a, q, refusal, at)
    BY <1>5 DEF RevokeEffects
  <2>. OverEffect(e, b, q) \in RefusalEffects(o, q, refusal, at)
    BY <1>1, OverRefusal
  <2>. QED  BY <1>2, <1>5 DEF RevokeEffects
<1>6. CASE Present(a, q) /\ refusal = None
  <2>1. e = Written(a, RevocationImage(a, q, at), "CHANGED", None)
    BY <1>6 DEF RevokeEffects, Changed,
                    RevocationImage, RevokedAt
  <2>2. RevokeEffects(o, r, at) = {Written(o, RevocationImage(o, q, at), "CHANGED", None)}
    BY <1>2, <1>6 DEF RevokeEffects, Changed,
                    RevocationImage, RevokedAt
  <2>. HIDE DEF q
  <2>3. OverEffect(e, b, q) = Written(o, RevocationImage(o, q, at), "CHANGED", None)
    BY <1>1, <1>3, <2>1, OverWritten
  <2>. QED  BY <2>2, <2>3 DEF q
<1>. QED  BY <1>4, <1>5, <1>6

LEMMA OverUpdate ==
  ASSUME NEW a, NEW b, NEW r \in UpdateInputs, IsDocs(a),
         NEW o, Alike(a, o, b, r.qualification),
         NEW at, NEW e \in UpdateEffects(a, r, at)
  PROVE  OverEffect(e, b, r.qualification) \in UpdateEffects(o, r, at)
<1>. DEFINE q == r.qualification
            from == From(a, r)
            until == Until(a, r)
            refusal == UpdateRefusal(a[q], from, until, at)
            kept == KeepsFace(a, r)
            bindRefusal == IF r.mode = "SET"
                           THEN BindRefusal(Released(a, q), r.face) ELSE None
            ef == OverEffect(e, b, q)
<1>1. q \in Quals /\ o = Over(a, b, q)
  BY DEF UpdateInputs, Alike
<1>2. o[q] = a[q] /\ Present(o, q) = Present(a, q)
  BY <1>1, OverFacts DEF Alike
<1>3. From(o, r) = from /\ Until(o, r) = until
  BY <1>2 DEF From, Until
<1>4. KeepsFace(o, r) = kept
  <2>. BoundSlots(o, q) = BoundSlots(a, q) /\ SlotsOf(o, r.face) = SlotsOf(a, r.face)
    BY <1>1, OverSlots
  <2>. QED  BY DEF KeepsFace
<1>5. /\ Released(o, q) = Over(Released(a, q), b, q)
      /\ BindRefusal(Released(o, q), r.face) = BindRefusal(Released(a, q), r.face)
  <2>1. Released(o, q) = Over(Released(a, q), b, q)
    BY <1>1, OverReleased
  <2>. QED  BY <2>1, OverSlots
<1>6. IsDocs(Released(a, q))
  BY DEF IsDocs, Released
<1>7. ASSUME NEW reason
      PROVE  OverEffect(Refused(a, reason), b, q) = Refused(o, reason)
  BY <1>1, OverWritten DEF Refused
<1>8. ASSUME NEW c PROVE OverEffect(Changed(a, c), b, q) = Changed(o, Over(c, b, q))
  BY <1>1, OverWritten DEF Changed
<1>9. CASE ~Present(a, q)
  <2>1. e = Refused(a, "QUALIFICATION_NOT_FOUND")
    BY <1>9 DEF UpdateEffects
  <2>2. UpdateEffects(o, r, at) = {Refused(o, "QUALIFICATION_NOT_FOUND")}
    BY <1>2, <1>9 DEF UpdateEffects
  <2>. QED  BY <1>7, <2>1, <2>2
<1>10. CASE Present(a, q) /\ refusal # None
  <2>1. e \in RefusalEffects(a, q, refusal, at)
    BY <1>10 DEF UpdateEffects, From, Until
  <2>2. UpdateEffects(o, r, at) = RefusalEffects(o, q, refusal, at)
    BY <1>2, <1>3, <1>10 DEF UpdateEffects, From, Until
  <2>. QED  BY <1>1, <2>1, <2>2, OverRefusal
<1>11. CASE Present(a, q) /\ refusal = None /\ kept
  <2>1. e = Changed(a, Updated(a, q, from, until))
    BY <1>11 DEF UpdateEffects, KeepsFace, From, Until
  <2>2. UpdateEffects(o, r, at) = {Changed(o, Updated(o, q, from, until))}
    BY <1>2, <1>3, <1>4, <1>11 DEF UpdateEffects, KeepsFace, From, Until
  <2>. HIDE DEF q, from, until
  <2>3. Updated(o, q, from, until) = Over(Updated(a, q, from, until), b, q)
    BY <1>1, OverUpdated
  <2>. QED  BY <1>8, <2>1, <2>2, <2>3 DEF q
<1>12. CASE Present(a, q) /\ refusal = None /\ ~kept /\ bindRefusal # None
  <2>1. e = Refused(a, bindRefusal)
    BY <1>12 DEF UpdateEffects, KeepsFace, From, Until
  <2>2. UpdateEffects(o, r, at) = {Refused(o, bindRefusal)}
    BY <1>2, <1>3, <1>4, <1>5, <1>12 DEF UpdateEffects, KeepsFace, From, Until
  <2>. QED  BY <1>7, <2>1, <2>2
<1>13. CASE Present(a, q) /\ refusal = None /\ ~kept /\ bindRefusal = None
  <2>. DEFINE reached(x) == FaceGuarded(Updated(x, q, from, until))
  <2>1. PICK x \in Remapped(a, q, r) : e = Changed(a, reached(x))
    BY <1>13 DEF UpdateEffects, KeepsFace, From, Until
  <2>2. UpdateEffects(o, r, at) = {Changed(o, reached(y)) : y \in Remapped(o, q, r)}
    BY <1>2, <1>3, <1>4, <1>5, <1>13 DEF UpdateEffects, KeepsFace, From, Until
  <2>3. IsDocs(x) /\ Over(x, b, q) \in Remapped(o, q, r)
    <3>1. CASE r.mode = "REMOVE"
      BY <1>5, <1>6, <3>1 DEF Remapped
    <3>2. CASE r.mode # "REMOVE"
      <4>. x \in BoundImages(Released(a, q), q, r.face)
        BY <3>2 DEF Remapped
      <4>. IsDocs(x) /\ Over(x, b, q)
                          \in BoundImages(Over(Released(a, q), b, q), q, r.face)
        BY <1>1, <1>6, OverBound
      <4>. QED  BY <1>5, <3>2 DEF Remapped
    <3>. QED  BY <3>1, <3>2
  <2>4. reached(Over(x, b, q)) = Over(reached(x), b, q)
    <3>. HIDE DEF q, from, until
    <3>1. Updated(Over(x, b, q), q, from, until) = Over(Updated(x, q, from, until), b, q)
      BY <1>1, <2>3, OverUpdated
    <3>2. IsDocs(Updated(x, q, from, until))
      BY <2>3 DEF IsDocs, Updated
    <3>. QED  BY <3>1, <3>2, OverGuards
  <2>. HIDE DEF reached, q
  <2>5. OverEffect(e, b, q) = Changed(o, reached(Over(x, b, q)))
    BY <1>8, <2>1, <2>4
  <2>. QED  BY <2>2, <2>3, <2>5 DEF q
<1>. QED  BY <1>9, <1>10, <1>11, <1>12, <1>13

LEMMA OverCreate ==
  ASSUME NEW a, NEW b, NEW r \in CreateInputs, IsDocs(a),
         NEW o, Alike(a, o, b, r.qualification),
         NEW at, NEW e \in CreateEffects(a, r, at)
  PROVE  OverEffect(e, b, r.qualification) \in CreateEffects(o, r, at)
<1>. DEFINE q == r.qualification
            refusal == WindowRefusal(r.validFrom, r.validUntil, at)
            new == NewQualification(r.validFrom, r.validUntil)
            c == Created(a, q, r.validFrom, r.validUntil)
            oc == Created(o, q, r.validFrom, r.validUntil)
<1>1. q \in Quals /\ o = Over(a, b, q)
  BY DEF CreateInputs, Alike
<1>2. oc = Over(c, b, q) /\ IsDocs(c)
  <2>. DEFINE x == [a EXCEPT ![q] = new]
  <2>. HIDE DEF new, q
  <2>1. [o EXCEPT ![q] = new] = Over(x, b, q) /\ IsDocs(x)
    BY <1>1, OverNew, SMTT(40) DEF IsDocs
  <2>2. c = QrGuarded(x) /\ oc = QrGuarded(Over(x, b, q))
    BY <2>1 DEF Created, new, q
  <2>. HIDE DEF x, c, oc
  <2>3. IsDocs(QrGuarded(x))
    BY <2>1 DEF IsDocs, QrGuarded
  <2>. QED  BY <2>1, <2>2, <2>3, OverGuards
<1>3. ASSUME NEW reason
      PROVE  OverEffect(Refused(a, reason), b, q) = Refused(o, reason)
  BY <1>1, OverWritten DEF Refused
<1>4. ASSUME NEW x PROVE OverEffect(Changed(a, x), b, q) = Changed(o, Over(x, b, q))
  BY <1>1, OverWritten DEF Changed
<1>5. BindRefusal(oc, r.face) = BindRefusal(c, r.face)
  <2>. HIDE DEF c, oc
  <2>. QED  BY <1>2, OverSlots
<1>6. CASE refusal # None
  <2>. e = Refused(a, refusal) /\ CreateEffects(o, r, at) = {Refused(o, refusal)}
    BY <1>6 DEF CreateEffects
  <2>. QED  BY <1>3
<1>7. CASE refusal = None /\ r.face = None
  <2>. e = Changed(a, c) /\ CreateEffects(o, r, at) = {Changed(o, oc)}
    BY <1>7 DEF CreateEffects, Created
  <2>. HIDE DEF c, oc
  <2>. QED  BY <1>2, <1>4
<1>8. CASE refusal = None /\ r.face # None /\ BindRefusal(c, r.face) # None
  <2>. e = Refused(a, BindRefusal(c, r.face))
    BY <1>8 DEF CreateEffects, Created
  <2>. CreateEffects(o, r, at) = {Refused(o, BindRefusal(c, r.face))}
    BY <1>5, <1>8 DEF CreateEffects, Created
  <2>. QED  BY <1>3
<1>9. CASE refusal = None /\ r.face # None /\ BindRefusal(c, r.face) = None
  <2>1. PICK x \in BoundImages(c, q, r.face) : e = Changed(a, FaceGuarded(x))
    BY <1>9 DEF CreateEffects, Created
  <2>2. CreateEffects(o, r, at)
          = {Changed(o, FaceGuarded(y)) : y \in BoundImages(oc, q, r.face)}
    BY <1>5, <1>9 DEF CreateEffects, Created
  <2>. HIDE DEF c, oc
  <2>3. IsDocs(x) /\ Over(x, b, q) \in BoundImages(oc, q, r.face)
    BY <1>1, <1>2, OverBound
  <2>4. FaceGuarded(Over(x, b, q)) = Over(FaceGuarded(x), b, q)
    BY <2>3, OverGuards
  <2>5. OverEffect(e, b, q) = Changed(o, FaceGuarded(Over(x, b, q)))
    BY <1>4, <2>1, <2>4
  <2>. QED  BY <2>2, <2>3, <2>5
<1>. QED  BY <1>6, <1>7, <1>8, <1>9

LEMMA OverAttempted ==
  ASSUME NEW a, NEW b, NEW r \in RecognitionInputs, NEW q,
         NEW o, Alike(a, o, b, q)
  PROVE  Attempted(o, r) = Attempted(a, r)
<1>. DEFINE cred == r.credential
            held == SlotsOf(a, cred.of) \ EmptySlots(a)
            slot == CHOOSE s \in held : TRUE
<1>0. cred \in Credentials /\ r.source \in Sources
  BY DEF RecognitionInputs
<1>1. /\ o[r.source] = a[r.source]
      /\ SlotsOf(o, cred.of) = SlotsOf(a, cred.of)
      /\ EmptySlots(o) = EmptySlots(a)
      /\ \A s \in Slots : o[s] = a[s]
  <2>1. o[r.source] = a[r.source]
    BY <1>0, OverFacts, IdFacts DEF Alike, Ids
  <2>. QED  BY <2>1, OverFacts, OverSlots DEF Alike
<1>2. CASE cred.media = "QR" /\ cred.of # None
  <2>1. cred.of \in Quals
    BY <1>0, <1>2 DEF Credentials
  <2>2. Present(o, cred.of) = Present(a, cred.of)
    BY <2>1 DEF Alike
  <2>3. /\ Resolved(a, cred) = IF Present(a, cred.of) THEN cred.of ELSE None
        /\ Resolved(o, cred) = IF Present(o, cred.of) THEN cred.of ELSE None
    BY <1>2 DEF Resolved
  <2>. QED  BY <1>1, <2>2, <2>3 DEF Attempted
<1>3. CASE cred.media = "FACE_MATCHED" /\ held # {}
  <2>1. Resolved(a, cred) = a[slot].qualification
    BY <1>3 DEF Resolved
  <2>2. Resolved(o, cred) = o[slot].qualification
    BY <1>1, <1>3 DEF Resolved
  <2>3. slot \in held
    BY <1>3
  <2>4. held \subseteq Slots
    BY DEF SlotsOf
  <2>. HIDE DEF slot, held
  <2>. QED  BY <1>1, <2>1, <2>2, <2>3, <2>4 DEF Attempted
<1>4. CASE /\ ~(cred.media = "QR" /\ cred.of # None)
           /\ ~(cred.media = "FACE_MATCHED" /\ held # {})
  <2>1. Resolved(a, cred) = None
    BY <1>4 DEF Resolved
  <2>2. Resolved(o, cred) = None
    BY <1>1, <1>4 DEF Resolved
  <2>. QED  BY <1>1, <2>1, <2>2 DEF Attempted
<1>. QED  BY <1>2, <1>3, <1>4

LEMMA OverRecognition ==
  ASSUME NEW a, NEW b, NEW r \in RecognitionInputs, NEW at \in Instants,
         NEW q, q = Attempted(a, r),
         NEW o, Alike(a, o, b, q), StoreOK(a), StoreOK(o),
         NEW e \in RecognitionEffects(a, r, at)
  PROVE  OverEffect(e, b, q) \in RecognitionEffects(o, r, at)
<1>. DEFINE d == Decision(a, r, at)
            K == KeyOf(r)
            x == RecognitionImage(a, r, at)
            y == RecognitionImage(o, r, at)
<1>0. /\ r.source \in Sources /\ K \in EventKeys /\ Ids
      /\ o = Over(a, b, q) /\ q \in Quals \union {None} /\ None \notin Quals
  BY AttemptedFacts, IdFacts, IdsAssumption
  DEF RecognitionInputs, KeyOf, EventKeys, Alike
<1>1. /\ \A z \in Docs \ Quals : o[z] = a[z]
      /\ q \in Quals => o[q] = a[q]
      /\ \A p \in Quals : p # q => o[p] = b[p]
  BY <1>0, OverFacts
<1>2. o[r.source] = a[r.source] /\ o[K] = a[K] /\ o[System] = a[System]
  <2>. HIDE DEF K
  <2>. QED  BY <1>0, <1>1 DEF Ids
<1>3. Attempted(o, r) = q
  BY OverAttempted
<1>4. Decision(o, r, at) = d
  BY <1>0, <1>1, <1>2, <1>3 DEF Decision
<1>5. EventOf(o, r, at) = EventOf(a, r, at)
  BY <1>3, <1>4 DEF EventOf
<1>6. Recognition(a, x, r, at, q, d) /\ Recognition(o, y, r, at, q, d)
  BY <1>3, <1>4, RecognitionFacts
<1>7. y = Over(x, b, q)
  <2>. HIDE DEF x, y, d, K
  <2>1. IsDocs(y) /\ IsDocs(Over(x, b, q))
    BY <1>6, OverFacts DEF Recognition
  <2>2. /\ \A z \in Docs \ Quals : Over(x, b, q)[z] = x[z]
        /\ q \in Quals => Over(x, b, q)[q] = x[q]
        /\ \A p \in Quals : p # q => Over(x, b, q)[p] = b[p]
    BY OverFacts
  <2>3. \A p \in Quals : y[p] = Over(x, b, q)[p]
    BY <1>1, <1>6, <2>2 DEF Recognition
  <2>4. \A s \in Slots : y[s] = x[s]
    <3>1. Released(o, q) = Over(Released(a, q), b, q)
      BY <1>0, OverReleased
    <3>2. \A s \in Slots : Released(o, q)[s] = Released(a, q)[s]
      BY <3>1, OverFacts
    <3>3. \A s \in Slots : o[s] = a[s]
      BY <1>0, <1>1 DEF Ids
    <3>. QED  BY <1>6, <3>2, <3>3 DEF Recognition
  <2>5. \A s \in Sources : y[s] = x[s]
    BY <1>0, <1>1, <1>6 DEF Recognition, Ids
  <2>6. \A k \in EventKeys : y[k] = x[k]
    BY <1>0, <1>1, <1>5, <1>6 DEF Recognition, Ids
  <2>7. y[System] = x[System]
    BY <1>2, <1>6 DEF Recognition
  <2>8. \A z \in Docs : z \in Quals \/ y[z] = x[z]
    BY <2>4, <2>5, <2>6, <2>7 DEF Docs
  <2>9. \A z \in Docs : y[z] = Over(x, b, q)[z]
    BY <2>2, <2>3, <2>8
  <2>. QED  BY <2>1, <2>9, SameDocs
<1>8. CASE Present(a, K)
  <2>1. e = Replay(a, r) /\ RecognitionEffects(o, r, at) = {Replay(o, r)}
    BY <1>2, <1>8 DEF RecognitionEffects, Present
  <2>2. OverEffect(Effect(a, "REPLAYED", a[K]), b, q) = Effect(o, "REPLAYED", a[K])
    BY <1>0, OverWritten
  <2>3. OverEffect(Effect(a, "CONFLICT", None), b, q) = Effect(o, "CONFLICT", None)
    BY <1>0, OverWritten
  <2>4. OverEffect(e, b, q) = Replay(o, r)
    BY <1>2, <2>1, <2>2, <2>3 DEF Replay
  <2>. QED  BY <2>1, <2>4
<1>9. CASE ~Present(a, K)
  <2>1. e = Written(a, x, "COMMITTED", EventOf(a, r, at))
    BY <1>9 DEF RecognitionEffects
  <2>2. RecognitionEffects(o, r, at)
          = {Written(o, y, "COMMITTED", EventOf(a, r, at))}
    BY <1>2, <1>5, <1>9 DEF RecognitionEffects, Present
  <2>. HIDE DEF x, y
  <2>3. OverEffect(e, b, q) = Written(o, y, "COMMITTED", EventOf(a, r, at))
    BY <1>0, <1>7, <2>1, OverWritten
  <2>. QED  BY <2>2, <2>3
<1>. QED  BY <1>8, <1>9

-----------------------------------------------------------------------------
(* Committing late.  A transaction read a, made c of it, and is applied to b *)
(* where nothing it wrote was changed: its guards make that one operation    *)
(* on b.                                                                     *)

Merged(a, c, b) == [d \in Docs |-> IF c[d] # a[d] THEN c[d] ELSE b[d]]

\* b is newer than a, and what c changed of a is unchanged in b.
Unconflicted(a, c, b) ==
  /\ Newer(a, b)
  /\ \A d \in Docs : c[d] # a[d] => b[d] = a[d]

\* Who raised a guard saw everything but the other qualifications as it is.
LEMMA GuardedMerge ==
  ASSUME NEW a, NEW b, NEW c, StoreOK(a), StoreOK(b), Unconflicted(a, c, b),
         NEW q \in Quals \union {None}, Stamp(a) < Stamp(c),
         IsDocs(c), \A p \in Quals : p # q => c[p] = a[p],
         q \in Quals => c[q] # a[q]
  PROVE  Alike(a, b, b, q) /\ Merged(a, c, b) = Over(c, b, q)
<1>0. Ids /\ Stamp(a) \in Nat /\ IsDocs(a) /\ IsDocs(b)
  BY StoreParts, IdFacts DEF SystemDocs, Stamp
<1>1. b[System] = a[System]
  <2>. c[System] # a[System]
    BY <1>0 DEF Stamp
  <2>. QED  BY <1>0 DEF Unconflicted, Ids
<1>2. Stamp(a) = Stamp(b)
  BY <1>1 DEF Stamp
<1>3. /\ \A d \in Docs \ Quals : b[d] = a[d]
      /\ \A p \in Quals : Present(b, p) = Present(a, p)
  <2>1. \A d \in Docs \ Quals : b[d] = a[d]
    BY <1>2 DEF Unconflicted, Newer
  <2>2. \A p \in Quals : Present(b, p) => Present(a, p)
    BY <1>2 DEF Unconflicted, Newer
  <2>3. \A p \in Quals : Present(a, p) => Present(b, p)
    BY DEF Unconflicted, Newer
  <2>4. \A p \in Quals : Present(b, p) = Present(a, p)
    BY <2>2, <2>3 DEF Present
  <2>. QED  BY <2>1, <2>4
<1>4. q \in Quals => b[q] = a[q]
  BY <1>0 DEF Unconflicted, Ids
<1>5. b = Over(a, b, q)
  <2>1. \A d \in Docs : b[d] = Over(a, b, q)[d]
    BY <1>3, <1>4 DEF Over
  <2>2. IsDocs(Over(a, b, q))
    BY OverFacts
  <2>. QED  BY <1>0, <2>1, <2>2, SameDocs
<1>6. Merged(a, c, b) = Over(c, b, q)
  <2>1. ASSUME NEW d \in Docs PROVE Merged(a, c, b)[d] = Over(c, b, q)[d]
    <3>1. CASE d \in Quals /\ d # q
      BY <3>1 DEF Merged, Over
    <3>2. CASE ~(d \in Quals /\ d # q)
      BY <1>3, <1>4, <3>2 DEF Merged, Over
    <3>. QED  BY <3>1, <3>2
  <2>2. IsDocs(Merged(a, c, b)) /\ IsDocs(Over(c, b, q))
    BY OverFacts DEF IsDocs, Merged
  <2>. QED  BY <2>1, <2>2, SameDocs
<1>. QED  BY <1>3, <1>5, <1>6 DEF Alike

\* An update in place saw its qualification and its mapping as they are.
LEMMA InPlaceMerge ==
  ASSUME NEW a, NEW b, NEW c, StoreOK(a), StoreOK(b), Unconflicted(a, c, b),
         NEW r \in UpdateInputs, NEW at, InPlace(a, r, at, c)
  PROVE  \E f \in UpdateEffects(b, r, at) : f.docs = Merged(a, c, b)
<1>. DEFINE q == r.qualification
            from == From(a, r)
            until == Until(a, r)
            u == Updated(b, q, from, until)
<1>0. /\ q \in Quals /\ q \in Docs /\ Ids
      /\ Present(a, q) /\ a[q] \in Qualifications /\ a[q].version \in Nat
      /\ IsDocs(a) /\ IsDocs(b) /\ SlotsAgree(b) /\ SlotsCounted(b)
      /\ b[System] \in SystemDocs
  <2>. a[q] \in Qualifications
    BY StoreParts DEF InPlace, UpdateInputs
  <2>. QED  BY StoreParts, IdFacts DEF InPlace, UpdateInputs, Qualifications, Ids
<1>1. b[q] = a[q]
  <2>. a[q].version < c[q].version
    BY <1>0 DEF InPlace, Managed
  <2>. c[q] # a[q]
    BY <1>0
  <2>. QED  BY <1>0 DEF Unconflicted
<1>2. /\ Present(b, q)
      /\ BoundSlots(a, q) = BoundSlots(b, q)
      /\ \A s \in BoundSlots(a, q) : a[s] = b[s]
  BY <1>0, <1>1 DEF Unconflicted, Newer
<1>3. From(b, r) = from /\ Until(b, r) = until
  BY <1>1 DEF From, Until
<1>4. KeepsFace(b, r)
  <2>1. CASE r.mode = "KEEP"
    BY <2>1 DEF KeepsFace
  <2>2. CASE r.mode = "SET"
    <3>1. PICK s \in BoundSlots(a, q) : s \in SlotsOf(a, r.face)
      BY <2>2 DEF InPlace, KeepsFace
    <3>2. s \in BoundSlots(b, q) /\ s \in SlotsOf(b, r.face)
      BY <1>2, <3>1 DEF SlotsOf, Present
    <3>. QED  BY <2>2, <3>2 DEF KeepsFace
  <2>. QED  BY <2>1, <2>2 DEF InPlace, KeepsFace
<1>5. UpdateEffects(b, r, at) = {Changed(b, u)}
  <2>. UpdateRefusal(b[q], from, until, at) = None
    BY <1>1 DEF InPlace
  <2>. QED  BY <1>2, <1>3, <1>4 DEF UpdateEffects, From, Until, KeepsFace
<1>6. c = Updated(a, q, from, until)
  BY DEF InPlace
<1>. HIDE DEF q, from, until, u
<1>7. /\ IsDocs(u) /\ \A d \in Docs : d # q => u[d] = b[d]
      /\ u[q] = Rewindowed(b[q], from, until)
  BY <1>0, <1>1, UpdatedFacts DEF u
<1>8. /\ \A d \in Docs : d # q => c[d] = a[d]
      /\ c[q] = Rewindowed(a[q], from, until)
  BY <1>0, <1>6, UpdatedFacts
<1>9. SlotsCounted(u)
  <2>. (\A s \in Slots : u[s] = b[s]) /\ u[System] = b[System]
    BY <1>0, <1>7 DEF Ids
  <2>. QED  BY <1>0, SlotFrame
<1>10. Changed(b, u).docs = u
  BY <1>9 DEF Changed, Written, Effect
<1>11. u = Merged(a, c, b)
  <2>1. ASSUME NEW d \in Docs PROVE u[d] = Merged(a, c, b)[d]
    <3>1. CASE d = q
      BY <1>1, <1>7, <1>8, <3>1 DEF Merged
    <3>2. CASE d # q
      BY <1>7, <1>8, <3>2 DEF Merged
    <3>. QED  BY <3>1, <3>2
  <2>2. IsDocs(Merged(a, c, b))
    BY DEF IsDocs, Merged
  <2>. QED  BY <1>7, <2>1, <2>2, SameDocs
<1>. QED  BY <1>5, <1>10, <1>11

\* A commit that meets no conflict leaves the store alone, or is an operation
\* on the store it is applied to, whatever was committed since its snapshot:
\* the guards a write raises cover everything it was decided on.
THEOREM MergeIsEffect ==
  ASSUME NEW a, NEW b, StoreOK(a), StoreOK(b),
         NEW r \in Inputs, NEW at \in Arrivals, Possible(a, r),
         NEW e \in Effects(a, r, at), Unconflicted(a, e.docs, b)
  PROVE  \/ Merged(a, e.docs, b) = b
         \/ /\ Possible(b, r)
            /\ \E f \in Effects(b, r, at) : f.docs = Merged(a, e.docs, b)
<1>. DEFINE c == e.docs
<1>0. /\ at \in Instants /\ IsDocs(a) /\ IsDocs(b) /\ Ids
      /\ None \notin Quals /\ None \notin Qualifications
  BY InputsAssumption, StoreParts, IdFacts, IdsAssumption
<1>1. CASE c = a
  <2>. Merged(a, c, b) = b
    BY <1>0, <1>1 DEF Merged, IsDocs
  <2>. QED  OBVIOUS
<1>3. ASSUME NEW q \in Quals, Guarded(a, c, q)
      PROVE  /\ Alike(a, b, b, q) /\ Merged(a, c, b) = Over(c, b, q)
             /\ OverEffect(e, b, q).docs = Merged(a, c, b)
  <2>1. /\ IsDocs(c) /\ Stamp(a) < Stamp(c)
        /\ \A p \in Quals : p # q => c[p] = a[p]
    BY <1>0, <1>3 DEF Guarded, Managed, Ids
  <2>2. c[q] # a[q]
    <3>1. CASE Present(a, q)
      <4>. a[q].version \in Nat /\ a[q].version < c[q].version
        BY <1>3, <3>1, StoreParts DEF Guarded, Managed, Qualifications
      <4>. QED  OBVIOUS
    <3>2. CASE ~Present(a, q)
      BY <1>0, <1>3, <3>2 DEF Guarded, Managed, Present
    <3>. QED  BY <3>1, <3>2
  <2>. HIDE DEF c
  <2>3. Alike(a, b, b, q) /\ Merged(a, c, b) = Over(c, b, q)
    BY <2>1, <2>2, GuardedMerge DEF c
  <2>. QED  BY <2>3 DEF OverEffect, Effect, c
<1>4. CASE r \in RecognitionInputs /\ r.kind = "RECOGNIZE"
           /\ Effects(a, r, at) = RecognitionEffects(a, r, at)
  <2>. DEFINE q == Attempted(a, r)
              d == Decision(a, r, at)
  <2>1. CASE ~Present(a, KeyOf(r)) /\ c = RecognitionImage(a, r, at)
    <3>1. Recognition(a, c, r, at, q, d)
      BY <1>0, <1>4, <2>1, RecognitionFacts
    <3>2. /\ q \in Quals \union {None}
          /\ q # None => Present(a, q)
          /\ Sound(a[q], d, at)
      BY <1>0, <1>4, AttemptedFacts, DecisionIsSound
    <3>3. q \in Quals => c[q] # a[q]
      <4>. SUFFICES ASSUME q \in Quals PROVE c[q] # a[q]
        OBVIOUS
      <4>. /\ a[q] \in Qualifications /\ LegalQualification(a[q])
           /\ a[q].version \in Nat
        BY <1>0, <3>2, StoreParts DEF Qualifications
      <4>. c[q].version = a[q].version + 1
        BY <1>0, <3>1, <3>2, RecognizedIsLegal DEF Recognition
      <4>. QED  OBVIOUS
    <3>. HIDE DEF c, q, d
    <3>4. Stamp(a) < Stamp(c)
      BY <3>1, <3>2, RecognitionSlots DEF Sound
    <3>5. Alike(a, b, b, q) /\ Merged(a, c, b) = Over(c, b, q)
      BY <3>1, <3>2, <3>3, <3>4, GuardedMerge DEF Recognition, c
    <3>6. OverEffect(e, b, q) \in RecognitionEffects(b, r, at)
      BY <1>0, <1>4, <3>5, OverRecognition DEF q
    <3>7. Effects(b, r, at) = RecognitionEffects(b, r, at)
      BY <1>4 DEF Effects
    <3>8. Possible(b, r)
      BY <1>4 DEF Possible
    <3>9. OverEffect(e, b, q).docs = Merged(a, c, b)
      BY <3>5 DEF OverEffect, Effect, c
    <3>. QED  BY <3>6, <3>7, <3>8, <3>9 DEF c
  <2>2. CASE Present(a, KeyOf(r))
    <3>. e = Replay(a, r)
      BY <1>4, <2>2 DEF RecognitionEffects
    <3>. c = a
      BY DEF Replay, Effect
    <3>. QED  BY <1>1
  <2>3. CASE ~Present(a, KeyOf(r)) /\ c # RecognitionImage(a, r, at)
    <3>. e = Written(a, RecognitionImage(a, r, at), "COMMITTED", EventOf(a, r, at))
      BY <1>4, <2>3 DEF RecognitionEffects
    <3>. c = a
      BY <2>3, WrittenDocs
    <3>. QED  BY <1>1
  <2>. QED  BY <2>1, <2>2, <2>3
<1>5. CASE r \in CreateInputs /\ r.kind = "CREATE"
           /\ Effects(a, r, at) = CreateEffects(a, r, at)
  <2>. DEFINE q == r.qualification
  <2>1. q \in Quals
    BY <1>5 DEF CreateInputs
  <2>2. CASE Guarded(a, c, q)
    <3>1. Alike(a, b, b, q) /\ OverEffect(e, b, q).docs = Merged(a, c, b)
      BY <1>3, <2>1, <2>2
    <3>2. OverEffect(e, b, q) \in CreateEffects(b, r, at)
      BY <1>0, <1>5, <3>1, OverCreate
    <3>3. Effects(b, r, at) = CreateEffects(b, r, at)
      BY <1>5 DEF Effects
    <3>4. Possible(b, r)
      BY <2>1, <3>1 DEF Possible, Alike
    <3>. QED  BY <3>1, <3>2, <3>3, <3>4
  <2>. QED  BY <1>0, <1>1, <1>5, <2>2, CreateKeeps
<1>6. CASE r \in UpdateInputs /\ r.kind = "UPDATE"
           /\ Effects(a, r, at) = UpdateEffects(a, r, at)
  <2>. DEFINE q == r.qualification
  <2>1. /\ q \in Quals
        /\ Effects(b, r, at) = UpdateEffects(b, r, at)
        /\ Possible(b, r)
    BY <1>6 DEF UpdateInputs, Effects, Possible
  <2>2. CASE Guarded(a, c, q)
    <3>1. Alike(a, b, b, q) /\ OverEffect(e, b, q).docs = Merged(a, c, b)
      BY <1>3, <2>1, <2>2
    <3>2. OverEffect(e, b, q) \in UpdateEffects(b, r, at)
      BY <1>0, <1>6, <3>1, OverUpdate
    <3>. QED  BY <2>1, <3>1, <3>2
  <2>3. CASE InPlace(a, r, at, c)
    BY <1>6, <2>1, <2>3, InPlaceMerge
  <2>. QED  BY <1>0, <1>1, <1>6, <2>2, <2>3, UpdateKeeps
<1>7. CASE r \in RevokeInputs /\ r.kind = "REVOKE"
           /\ Effects(a, r, at) = RevokeEffects(a, r, at)
  <2>. DEFINE q == r.qualification
  <2>1. /\ q \in Quals
        /\ Effects(b, r, at) = RevokeEffects(b, r, at)
        /\ Possible(b, r)
    BY <1>7 DEF RevokeInputs, Effects, Possible
  <2>2. CASE Guarded(a, c, q)
    <3>1. Alike(a, b, b, q) /\ OverEffect(e, b, q).docs = Merged(a, c, b)
      BY <1>3, <2>1, <2>2
    <3>2. OverEffect(e, b, q) \in RevokeEffects(b, r, at)
      BY <1>0, <1>7, <3>1, OverRevoke
    <3>. QED  BY <2>1, <3>1, <3>2
  <2>. QED  BY <1>0, <1>1, <1>7, <2>2, RevokeKeeps
<1>. QED  BY <1>4, <1>5, <1>6, <1>7, KindFacts

-----------------------------------------------------------------------------
(* The transactions.                                                         *)

Reading(s) == phase[s] \in {"open", "staged", "indoubt"}
Writing(s) == phase[s] \in {"staged", "indoubt"}

Asked(s) ==
  phase[s] # "idle" => request[s].input \in Inputs /\ request[s].at \in Arrivals

Snapped(s) ==
  Reading(s) => /\ StoreOK(snapshot[s]) /\ Newer(snapshot[s], db)
                /\ Possible(snapshot[s], request[s].input)

\* What is written is an operation on what was read, and what the client is
\* to be told is its answer.
Prepared(s) ==
  Writing(s) =>
    \E e \in Effects(snapshot[s], request[s].input, request[s].at) :
      /\ image[s] = e.docs
      /\ Unconflicted(snapshot[s], image[s], db)
      /\ phase[s] = "staged" => answer[s] = Answer(e.status, e.detail)
      /\ phase[s] = "indoubt" => answer[s].status = "UNKNOWN"

ToldOf(r, told, docs) ==
  /\ told.status \in {"COMMITTED", "REPLAYED"} =>
       /\ docs[KeyOf(r)] = told.detail /\ Present(docs, KeyOf(r))
       /\ docs[KeyOf(r)].credential = r.credential
  /\ told.status = "CONFLICT" =>
       /\ Present(docs, KeyOf(r))
       /\ docs[KeyOf(r)].credential # r.credential

Told(s) ==
  phase[s] = "done" /\ request[s].input.kind = "RECOGNIZE" =>
    ToldOf(request[s].input, answer[s], db)

ScopeOK(s) == Asked(s) /\ Snapped(s) /\ Prepared(s) /\ Told(s)

Shapes ==
  /\ phase \in [Scopes -> Phases]
  /\ submitted \in 0..MaxRequests
  /\ request = [s \in Scopes |-> request[s]]
  /\ snapshot = [s \in Scopes |-> snapshot[s]]
  /\ image = [s \in Scopes |-> image[s]]
  /\ answer = [s \in Scopes |-> answer[s]]

Apart == \A s, t \in Scopes : s # t => Writes(s) \intersect Writes(t) = {}

IInv ==
  /\ Shapes
  /\ StoreOK(db)
  /\ \A s \in Scopes : ScopeOK(s)
  /\ Apart

-----------------------------------------------------------------------------
(* One scope moves, the others stay.                                         *)

OthersStay(s) ==
  \A t \in Scopes : t # s =>
    /\ phase'[t] = phase[t] /\ request'[t] = request[t]
    /\ snapshot'[t] = snapshot[t] /\ image'[t] = image[t]
    /\ answer'[t] = answer[t]

\* The documents move on, and leave alone what the others have written.
DbMoves(s) ==
  /\ StoreOK(db') /\ Newer(db, db')
  /\ \A t \in Scopes : t # s => \A d \in Writes(t) : db'[d] = db[d]

LEMMA ToldStaysTold ==
  ASSUME NEW a, NEW b, Newer(a, b), NEW r \in RecognitionInputs, NEW told,
         ToldOf(r, told, a)
  PROVE  ToldOf(r, told, b)
<1>. KeyOf(r) \in EventKeys
  BY DEF RecognitionInputs, KeyOf, EventKeys
<1>. Present(a, KeyOf(r)) => b[KeyOf(r)] = a[KeyOf(r)]
  BY DEF Newer
<1>. QED  BY DEF ToldOf, Present

LEMMA RecognitionKind ==
  ASSUME NEW r \in Inputs, r.kind = "RECOGNIZE"
  PROVE  r \in RecognitionInputs
  BY KindFacts

LEMMA WritesSame ==
  ASSUME NEW t, phase'[t] = phase[t],
         snapshot'[t] = snapshot[t], image'[t] = image[t]
  PROVE  Writes(t)' = Writes(t)
  BY DEF Writes

LEMMA OtherScope ==
  ASSUME IInv, NEW s \in Scopes, OthersStay(s), DbMoves(s),
         NEW t \in Scopes, t # s
  PROVE  ScopeOK(t)' /\ Writes(t)' = Writes(t)
<1>0. /\ ScopeOK(t) /\ StoreOK(db) /\ StoreOK(db') /\ Newer(db, db')
      /\ phase'[t] = phase[t] /\ request'[t] = request[t]
      /\ snapshot'[t] = snapshot[t] /\ image'[t] = image[t]
      /\ answer'[t] = answer[t]
  BY DEF IInv, OthersStay, DbMoves
<1>1. Asked(t)'
  BY <1>0 DEF ScopeOK, Asked
<1>2. Reading(t) => Newer(snapshot[t], db')
  BY <1>0, NewerTransitive DEF ScopeOK, Snapped
<1>3. Snapped(t)'
  BY <1>0, <1>2 DEF ScopeOK, Snapped, Reading
<1>4. Prepared(t)'
  <2>. SUFFICES ASSUME Writing(t)' PROVE Prepared(t)'
    BY DEF Prepared
  <2>1. Writing(t) /\ Reading(t)
    BY <1>0 DEF Writing, Reading
  <2>2. PICK e \in Effects(snapshot[t], request[t].input, request[t].at) :
          /\ image[t] = e.docs
          /\ Unconflicted(snapshot[t], image[t], db)
          /\ phase[t] = "staged" => answer[t] = Answer(e.status, e.detail)
          /\ phase[t] = "indoubt" => answer[t].status = "UNKNOWN"
    BY <1>0, <2>1 DEF ScopeOK, Prepared
  <2>3. \A d \in Docs : image[t][d] # snapshot[t][d] => db'[d] = db[d]
    BY <2>1 DEF DbMoves, Writes, Writing
  <2>4. Unconflicted(snapshot[t], image[t], db')
    BY <1>2, <2>1, <2>2, <2>3 DEF Unconflicted
  <2>. QED  BY <1>0, <2>2, <2>4 DEF Prepared
<1>5. Told(t)'
  <2>. SUFFICES ASSUME phase[t] = "done", request[t].input.kind = "RECOGNIZE"
                PROVE  ToldOf(request[t].input, answer[t], db')
    BY <1>0 DEF Told
  <2>1. ToldOf(request[t].input, answer[t], db) /\ request[t].input \in Inputs
    BY <1>0 DEF ScopeOK, Told, Asked
  <2>. QED  BY <1>0, <2>1, RecognitionKind, ToldStaysTold
<1>. QED  BY <1>0, <1>1, <1>3, <1>4, <1>5, WritesSame DEF ScopeOK

\* So a step is right if it is right for its own scope.
LEMMA OneScopeMoves ==
  ASSUME IInv, NEW s \in Scopes, OthersStay(s), DbMoves(s), Shapes',
         ScopeOK(s)',
         \A t \in Scopes : t # s => Writes(s)' \intersect Writes(t) = {}
  PROVE  IInv'
<1>1. \A t \in Scopes : t # s => ScopeOK(t)' /\ Writes(t)' = Writes(t)
  BY OtherScope
<1>2. Apart'
  <2>. SUFFICES ASSUME NEW t \in Scopes, NEW u \in Scopes, t # u
                PROVE  Writes(t)' \intersect Writes(u)' = {}
    BY DEF Apart
  <2>1. CASE t = s
    BY <1>1, <2>1
  <2>2. CASE u = s
    BY <1>1, <2>2
  <2>3. CASE t # s /\ u # s
    BY <1>1, <2>3 DEF IInv, Apart
  <2>. QED  BY <2>1, <2>2, <2>3
<1>3. StoreOK(db)' /\ \A t \in Scopes : ScopeOK(t)'
  BY <1>1 DEF DbMoves
<1>. QED  BY <1>2, <1>3 DEF IInv

LEMMA DbStays ==
  ASSUME IInv, UNCHANGED db, NEW s
  PROVE  DbMoves(s)
<1>. StoreOK(db) /\ Newer(db, db)
  BY NewerSelf DEF IInv
<1>. QED  BY DEF DbMoves

-----------------------------------------------------------------------------
(* Ends.                                                                     *)

\* The answers that name a stored event; the scope keeps them.
Definite == {"COMMITTED", "REPLAYED", "CONFLICT"}

LEMMA ScopeEnds ==
  ASSUME IInv, NEW s \in Scopes, NEW result, End(s, result),
         UNCHANGED submitted, DbMoves(s), phase[s] # "idle",
         result.status \in Definite /\ request[s].input.kind = "RECOGNIZE"
           => ToldOf(request[s].input, result, db')
  PROVE  IInv'
<1>. DEFINE kept == result.status \in Definite
<1>0. Shapes /\ ScopeOK(s)
  BY DEF IInv
<1>1. /\ phase' = [phase EXCEPT ![s] = IF kept THEN "done" ELSE "idle"]
      /\ request' = [request EXCEPT ![s] = IF kept THEN request[s] ELSE None]
      /\ snapshot' = [snapshot EXCEPT ![s] = None]
      /\ image' = [image EXCEPT ![s] = None]
      /\ answer' = [answer EXCEPT ![s] = IF kept THEN result ELSE None]
  BY DEF End, Definite
<1>. HIDE DEF kept
<1>2. Shapes'
  BY <1>0, <1>1 DEF Shapes, Phases
<1>3. OthersStay(s)
  BY <1>0, <1>1 DEF Shapes, OthersStay
<1>4. /\ phase'[s] = IF kept THEN "done" ELSE "idle"
      /\ kept => request'[s] = request[s] /\ answer'[s] = result
  BY <1>0, <1>1 DEF Shapes
<1>5. ~Reading(s)' /\ ~Writing(s)' /\ Writes(s)' = {}
  BY <1>4 DEF Reading, Writing, Writes
<1>6. Asked(s)'
  BY <1>0, <1>4 DEF ScopeOK, Asked
<1>7. Told(s)'
  BY <1>4 DEF Told, kept
<1>8. ScopeOK(s)'
  BY <1>5, <1>6, <1>7 DEF ScopeOK, Snapped, Prepared
<1>. QED  BY <1>2, <1>3, <1>5, <1>8, OneScopeMoves

\* A transaction that goes without a trace.
LEMMA ScopeFails ==
  ASSUME IInv, NEW s \in Scopes, NEW result, End(s, result),
         UNCHANGED <<db, submitted>>, phase[s] # "idle",
         result.status \notin Definite
  PROVE  IInv'
  BY ScopeEnds, DbStays

LEMMA ScopeLoses ==
  ASSUME IInv, NEW s \in Scopes, Lose(s), UNCHANGED <<db, submitted>>,
         phase[s] \in {"open", "staged"}
  PROVE  IInv'
<1>0. Shapes /\ ScopeOK(s)
  BY DEF IInv
<1>1. CASE request[s].input.kind = "RECOGNIZE"
  <2>1. /\ phase' = [phase EXCEPT ![s] = "canonical"]
        /\ snapshot' = [snapshot EXCEPT ![s] = None]
        /\ image' = [image EXCEPT ![s] = None]
        /\ UNCHANGED <<request, answer>>
    BY <1>1 DEF Lose
  <2>2. Shapes'
    BY <1>0, <2>1 DEF Shapes, Phases
  <2>3. OthersStay(s)
    BY <1>0, <2>1 DEF Shapes, OthersStay
  <2>4. phase'[s] = "canonical"
    BY <1>0, <2>1 DEF Shapes
  <2>5. ~Reading(s)' /\ ~Writing(s)' /\ Writes(s)' = {} /\ Told(s)'
    BY <2>4 DEF Reading, Writing, Writes, Told
  <2>6. Asked(s)'
    BY <1>0, <2>1 DEF ScopeOK, Asked
  <2>7. ScopeOK(s)'
    BY <2>5, <2>6 DEF ScopeOK, Snapped, Prepared
  <2>. QED  BY <2>2, <2>3, <2>5, <2>7, OneScopeMoves, DbStays
<1>2. CASE request[s].input.kind # "RECOGNIZE"
  <2>. End(s, Answer("FAILED", "WRITE_CONFLICT"))
    BY <1>2 DEF Lose
  <2>. Answer("FAILED", "WRITE_CONFLICT").status \notin Definite
    BY DEF Answer, Definite
  <2>. QED  BY ScopeFails
<1>. QED  BY <1>1, <1>2

\* Applying what a scope has written is an operation on the documents.
LEMMA ApplyFacts ==
  ASSUME IInv, NEW s \in Scopes, Writing(s)
  PROVE  /\ \/ Applied(s) = db
            \/ \E r \in Inputs, at \in Arrivals :
                 /\ Possible(db, r)
                 /\ \E f \in Effects(db, r, at) : f.docs = Applied(s)
         /\ StoreOK(Applied(s)) /\ Newer(db, Applied(s))
         /\ \A t \in Scopes : t # s =>
              \A d \in Writes(t) : Applied(s)[d] = db[d]
         /\ phase[s] = "staged" /\ request[s].input.kind = "RECOGNIZE" =>
              ToldOf(request[s].input, answer[s], Applied(s))
<1>. DEFINE r == request[s].input
            at == request[s].at
            a == snapshot[s]
<1>0. /\ ScopeOK(s) /\ StoreOK(db) /\ Reading(s) /\ phase[s] # "idle"
  BY DEF IInv, Writing, Reading
<1>1. /\ r \in Inputs /\ at \in Arrivals
      /\ StoreOK(a) /\ Newer(a, db) /\ Possible(a, r)
  BY <1>0 DEF ScopeOK, Asked, Snapped
<1>2. PICK e \in Effects(a, r, at) :
        /\ image[s] = e.docs
        /\ Unconflicted(a, image[s], db)
        /\ phase[s] = "staged" => answer[s] = Answer(e.status, e.detail)
        /\ phase[s] = "indoubt" => answer[s].status = "UNKNOWN"
  BY <1>0 DEF ScopeOK, Prepared
<1>3. Applied(s) = Merged(a, e.docs, db)
  <2>. \A d \in Docs : d \in Writes(s) <=> e.docs[d] # a[d]
    BY <1>2 DEF Writes, Writing
  <2>. QED  BY <1>2 DEF Applied, Merged
<1>. HIDE DEF r, at, a
<1>4. \/ Applied(s) = db
      \/ /\ Possible(db, r)
         /\ \E f \in Effects(db, r, at) : f.docs = Applied(s)
  BY <1>0, <1>1, <1>2, <1>3, MergeIsEffect
<1>5. StoreOK(Applied(s)) /\ Newer(db, Applied(s))
  <2>1. CASE Applied(s) = db
    BY <1>0, <2>1, NewerSelf
  <2>2. CASE /\ Possible(db, r)
             /\ \E f \in Effects(db, r, at) : f.docs = Applied(s)
    <3>. PICK f \in Effects(db, r, at) : f.docs = Applied(s)
      BY <2>2
    <3>. Kept(db, f.docs)
      BY <1>0, <1>1, <2>2, EffectsKeep
    <3>. QED  BY DEF Kept
  <2>. QED  BY <1>4, <2>1, <2>2
<1>6. \A t \in Scopes : t # s => \A d \in Writes(t) : Applied(s)[d] = db[d]
  <2>. \A t \in Scopes : Writes(t) \subseteq Docs
    BY DEF Writes
  <2>. QED  BY DEF IInv, Apart, Applied
<1>7. ASSUME phase[s] = "staged", r.kind = "RECOGNIZE"
      PROVE  ToldOf(r, answer[s], Applied(s))
  <2>0. /\ r \in RecognitionInputs /\ at \in Instants
        /\ KeyOf(r) \in EventKeys /\ KeyOf(r) \in Docs
        /\ e \in RecognitionEffects(a, r, at)
    <3>1. r \in RecognitionInputs /\ at \in Instants
      BY <1>1, <1>7, RecognitionKind, InputsAssumption
    <3>2. KeyOf(r) \in EventKeys
      BY <3>1 DEF RecognitionInputs, KeyOf, EventKeys
    <3>3. e \in RecognitionEffects(a, r, at)
      BY <1>1, <1>2, <1>7 DEF Effects
    <3>. QED  BY <3>1, <3>2, <3>3, IdFacts DEF Ids
  <2>. DEFINE K == KeyOf(r)
  <2>1. /\ e.status \in {"COMMITTED", "REPLAYED"} =>
             /\ e.docs[K] = e.detail /\ Present(e.docs, K)
             /\ e.detail.credential = r.credential
        /\ e.status = "CONFLICT" =>
             /\ Present(e.docs, K)
             /\ e.docs[K].credential # r.credential
    BY <1>1, <2>0, ReportedEvents
  <2>2. answer[s].status = e.status /\ answer[s].detail = e.detail
    BY <1>2, <1>7 DEF Answer
  <2>3. Present(e.docs, K) => Applied(s)[K] = e.docs[K]
    <3>. HIDE DEF K
    <3>1. K \in EventKeys /\ K \in Docs
      BY <2>0 DEF K
    <3>2. Present(a, K) => db[K] = a[K]
      BY <1>1, <3>1 DEF Newer
    <3>. QED  BY <1>3, <3>1, <3>2 DEF Merged, Present
  <2>. HIDE DEF K
  <2>4. ToldOf(r, answer[s], Applied(s))
    BY <2>1, <2>2, <2>3 DEF ToldOf, Present, K
  <2>. QED  BY <2>4
<1>. QED  BY <1>1, <1>4, <1>5, <1>6, <1>7 DEF r, at

-----------------------------------------------------------------------------
(* The actions.                                                              *)

LEMMA InitIsRight == Init => IInv
<1>. SUFFICES ASSUME Init PROVE IInv
  OBVIOUS
<1>1. Shapes
  BY ScopesAssumption DEF Init, Shapes, Phases
<1>2. StoreOK(db)
  BY SeedsAssumption DEF Init, StoreOK
<1>3. \A s \in Scopes : phase[s] = "idle"
  BY DEF Init
<1>4. \A s \in Scopes : ScopeOK(s) /\ Writes(s) = {}
  BY <1>3 DEF ScopeOK, Asked, Snapped, Prepared, Told, Reading, Writing, Writes
<1>. QED  BY <1>1, <1>2, <1>4 DEF IInv, Apart

LEMMA OpenKeeps ==
  ASSUME IInv, NEW s \in Scopes, NEW r \in Inputs, NEW at \in Arrivals,
         Open(s, r, at)
  PROVE  IInv'
<1>0. Shapes /\ StoreOK(db)
  BY DEF IInv
<1>1. Shapes'
  <2>. submitted' \in 0..MaxRequests
    BY <1>0, ScopesAssumption DEF Open, Shapes
  <2>. QED  BY <1>0 DEF Open, Shapes, Phases
<1>2. OthersStay(s)
  BY <1>0 DEF Open, Shapes, OthersStay
<1>3. /\ phase'[s] = "open" /\ request'[s] = [input |-> r, at |-> at]
      /\ snapshot'[s] = db /\ db' = db /\ Possible(db, r)
  BY <1>0 DEF Open, Shapes
<1>4. ~Writing(s)' /\ Writes(s)' = {} /\ Told(s)'
  BY <1>3 DEF Writing, Writes, Told
<1>5. Asked(s)' /\ Snapped(s)'
  BY <1>0, <1>3, NewerSelf DEF Asked, Snapped
<1>6. ScopeOK(s)'
  BY <1>4, <1>5 DEF ScopeOK, Prepared
<1>. QED  BY <1>1, <1>2, <1>3, <1>4, <1>6, OneScopeMoves, DbStays

LEMMA StageKeeps == ASSUME IInv, NEW s \in Scopes, Stage(s) PROVE IInv'
<1>0. Shapes /\ ScopeOK(s)
  BY DEF IInv
<1>1. PICK e \in Effects(snapshot[s], request[s].input, request[s].at) :
        /\ ~WriteConflict(s, e.docs)
        /\ image' = [image EXCEPT ![s] = e.docs]
        /\ answer' = [answer EXCEPT ![s] = Answer(e.status, e.detail)]
  BY DEF Stage
<1>2. /\ phase[s] = "open" /\ phase' = [phase EXCEPT ![s] = "staged"]
      /\ UNCHANGED <<db, request, snapshot, submitted>>
  BY DEF Stage
<1>3. Shapes'
  BY <1>0, <1>1, <1>2 DEF Shapes, Phases
<1>4. OthersStay(s)
  BY <1>0, <1>1, <1>2 DEF Shapes, OthersStay
<1>5. /\ phase'[s] = "staged" /\ image'[s] = e.docs
      /\ answer'[s] = Answer(e.status, e.detail)
      /\ snapshot'[s] = snapshot[s] /\ request'[s] = request[s] /\ db' = db
  BY <1>0, <1>1, <1>2 DEF Shapes
<1>6. \A d \in Docs : e.docs[d] # snapshot[s][d] =>
        /\ db[d] = snapshot[s][d]
        /\ \A t \in Scopes : t # s => d \notin Writes(t)
  BY <1>1 DEF WriteConflict
<1>7. Writes(s)' = {d \in Docs : e.docs[d] # snapshot[s][d]}
  BY <1>5 DEF Writes
<1>8. \A t \in Scopes : t # s => Writes(s)' \intersect Writes(t) = {}
  BY <1>6, <1>7
<1>9. Asked(s)' /\ Snapped(s)' /\ Told(s)'
  BY <1>0, <1>2, <1>5 DEF ScopeOK, Asked, Snapped, Told, Reading
<1>10. Prepared(s)'
  <2>. Newer(snapshot[s], db)
    BY <1>0, <1>2 DEF ScopeOK, Snapped, Reading
  <2>. Unconflicted(snapshot[s], e.docs, db)
    BY <1>6 DEF Unconflicted
  <2>. QED  BY <1>5 DEF Prepared
<1>11. ScopeOK(s)'
  BY <1>9, <1>10 DEF ScopeOK
<1>. QED  BY <1>2, <1>3, <1>4, <1>8, <1>11, OneScopeMoves, DbStays

LEMMA RefuseKeeps == ASSUME IInv, NEW s \in Scopes, Refuse(s) PROVE IInv'
<1>1. PICK e \in Effects(snapshot[s], request[s].input, request[s].at) :
        /\ e.status \in {"REFUSED", "FAILED"}
        /\ End(s, Answer(e.status, e.detail))
  BY DEF Refuse
<1>2. Answer(e.status, e.detail).status \notin Definite
  BY <1>1 DEF Answer, Definite
<1>. QED  BY <1>1, <1>2, ScopeFails DEF Refuse

LEMMA ConflictKeeps ==
  ASSUME IInv, NEW s \in Scopes, Conflict(s) \/ CommitConflict(s) PROVE IInv'
  BY ScopeLoses DEF Conflict, CommitConflict

LEMMA CommitKeeps == ASSUME IInv, NEW s \in Scopes, Commit(s) PROVE IInv'
<1>1. Writing(s) /\ phase[s] = "staged" /\ db' = Applied(s)
  BY DEF Commit, Writing
<1>2. DbMoves(s)
  BY <1>1, ApplyFacts DEF DbMoves
<1>3. request[s].input.kind = "RECOGNIZE" =>
        ToldOf(request[s].input, answer[s], db')
  BY <1>1, ApplyFacts
<1>. QED  BY <1>1, <1>2, <1>3, ScopeEnds DEF Commit

LEMMA LoseAnswerKeeps ==
  ASSUME IInv, NEW s \in Scopes, LoseAnswer(s) PROVE IInv'
<1>0. Shapes /\ ScopeOK(s)
  BY DEF IInv
<1>1. /\ phase[s] = "staged" /\ phase' = [phase EXCEPT ![s] = "indoubt"]
      /\ answer' = [answer EXCEPT ![s] = Answer("UNKNOWN", None)]
      /\ UNCHANGED <<db, request, snapshot, image, submitted>>
  BY DEF LoseAnswer
<1>2. Shapes'
  BY <1>0, <1>1 DEF Shapes, Phases
<1>3. OthersStay(s)
  BY <1>0, <1>1 DEF Shapes, OthersStay
<1>4. phase'[s] = "indoubt" /\ answer'[s].status = "UNKNOWN"
  BY <1>0, <1>1 DEF Shapes, Answer
<1>5. Writes(s)' = Writes(s)
  BY <1>1, <1>4 DEF Writes
<1>6. \A t \in Scopes : t # s => Writes(s)' \intersect Writes(t) = {}
  BY <1>5 DEF IInv, Apart
<1>7. Asked(s)' /\ Snapped(s)' /\ Told(s)'
  BY <1>0, <1>1, <1>4 DEF ScopeOK, Asked, Snapped, Told, Reading
<1>8. Prepared(s)'
  <2>. PICK e \in Effects(snapshot[s], request[s].input, request[s].at) :
         image[s] = e.docs /\ Unconflicted(snapshot[s], image[s], db)
    BY <1>0, <1>1 DEF ScopeOK, Prepared, Writing
  <2>. QED  BY <1>1, <1>4 DEF Prepared
<1>9. ScopeOK(s)'
  BY <1>7, <1>8 DEF ScopeOK
<1>. QED  BY <1>1, <1>2, <1>3, <1>6, <1>9, OneScopeMoves, DbStays

LEMMA SettleKeeps == ASSUME IInv, NEW s \in Scopes, Settle(s) PROVE IInv'
<1>1. Writing(s) /\ phase[s] = "indoubt" /\ db' \in {db, Applied(s)}
  BY DEF Settle, Writing
<1>2. DbMoves(s)
  <2>1. CASE db' = db
    BY <2>1, DbStays
  <2>2. CASE db' = Applied(s)
    BY <1>1, <2>2, ApplyFacts DEF DbMoves
  <2>. QED  BY <1>1, <2>1, <2>2
<1>3. answer[s].status \notin Definite
  <2>. ScopeOK(s)
    BY DEF IInv
  <2>. answer[s].status = "UNKNOWN"
    BY <1>1 DEF ScopeOK, Prepared
  <2>. QED  BY DEF Definite
<1>. QED  BY <1>1, <1>2, <1>3, ScopeEnds DEF Settle

LEMMA AbortKeeps == ASSUME IInv, NEW s \in Scopes, Abort(s) PROVE IInv'
<1>. Answer("FAILED", None).status \notin Definite
  BY DEF Answer, Definite
<1>. QED  BY ScopeFails DEF Abort

LEMMA ReadCanonicalKeeps ==
  ASSUME IInv, NEW s \in Scopes, ReadCanonical(s) PROVE IInv'
<1>. DEFINE r == request[s].input
            replay == Replay(db, r)
<1>0. phase[s] = "canonical" /\ UNCHANGED <<db, submitted>>
  BY DEF ReadCanonical
<1>1. CASE Present(db, KeyOf(r))
  <2>1. End(s, Answer(replay.status, replay.detail))
    BY <1>1 DEF ReadCanonical
  <2>2. ToldOf(r, Answer(replay.status, replay.detail), db)
    <3>1. CASE db[KeyOf(r)].credential = r.credential
      <4>. replay = Effect(db, "REPLAYED", db[KeyOf(r)])
        BY <3>1 DEF Replay
      <4>. QED  BY <1>1, <3>1 DEF ToldOf, Effect, Answer
    <3>2. CASE db[KeyOf(r)].credential # r.credential
      <4>. replay = Effect(db, "CONFLICT", None)
        BY <3>2 DEF Replay
      <4>. QED  BY <1>1, <3>2 DEF ToldOf, Effect, Answer
    <3>. QED  BY <3>1, <3>2
  <2>. HIDE DEF replay
  <2>. QED  BY <1>0, <2>1, <2>2, ScopeEnds, DbStays
<1>2. CASE ~Present(db, KeyOf(r))
  <2>. End(s, Answer("UNKNOWN", None))
    BY <1>2 DEF ReadCanonical
  <2>. Answer("UNKNOWN", None).status \notin Definite
    BY DEF Answer, Definite
  <2>. QED  BY <1>0, ScopeFails
<1>. QED  BY <1>1, <1>2

LEMMA CrashKeeps == ASSUME IInv, Crash PROVE IInv'
<1>. DEFINE lost == {s \in Scopes : phase[s] # "indoubt"}
<1>0. Shapes /\ StoreOK(db)
  BY DEF IInv
<1>1. /\ phase' = [s \in Scopes |-> IF s \in lost THEN "idle" ELSE phase[s]]
      /\ request' = [s \in Scopes |-> IF s \in lost THEN None ELSE request[s]]
      /\ snapshot' = [s \in Scopes |-> IF s \in lost THEN None ELSE snapshot[s]]
      /\ image' = [s \in Scopes |-> IF s \in lost THEN None ELSE image[s]]
      /\ answer' = [s \in Scopes |-> IF s \in lost THEN None ELSE answer[s]]
      /\ UNCHANGED <<db, submitted>>
  BY DEF Crash
<1>2. Shapes'
  BY <1>0, <1>1 DEF Shapes, Phases
<1>3. ASSUME NEW s \in Scopes
      PROVE  ScopeOK(s)' /\ Writes(s)' \subseteq Writes(s)
  <2>1. CASE s \in lost
    <3>. phase'[s] = "idle"
      BY <1>1, <2>1
    <3>. QED  BY DEF ScopeOK, Asked, Snapped, Prepared, Told, Reading, Writing,
                     Writes
  <2>2. CASE s \notin lost
    <3>. /\ phase'[s] = phase[s] /\ request'[s] = request[s]
         /\ snapshot'[s] = snapshot[s] /\ image'[s] = image[s]
         /\ answer'[s] = answer[s] /\ db' = db
      BY <1>1, <2>2
    <3>. ScopeOK(s)
      BY DEF IInv
    <3>. QED  BY DEF ScopeOK, Asked, Snapped, Prepared, Told, Reading, Writing,
                     Writes
  <2>. QED  BY <2>1, <2>2
<1>4. Apart'
  BY <1>3 DEF IInv, Apart
<1>. QED  BY <1>0, <1>1, <1>2, <1>3, <1>4 DEF IInv

LEMMA StepIsRight == IInv /\ [Next]_vars => IInv'
<1>. SUFFICES ASSUME IInv, [Next]_vars PROVE IInv'
  OBVIOUS
<1>1. CASE \E s \in Scopes, r \in Inputs, at \in Arrivals : Open(s, r, at)
  BY <1>1, OpenKeeps
<1>2. ASSUME NEW s \in Scopes,
             \/ Stage(s) \/ Refuse(s) \/ Conflict(s) \/ Commit(s)
             \/ CommitConflict(s) \/ LoseAnswer(s) \/ Settle(s) \/ Abort(s)
             \/ ReadCanonical(s)
      PROVE  IInv'
  BY <1>2, StageKeeps, RefuseKeeps, ConflictKeeps, CommitKeeps,
     LoseAnswerKeeps, SettleKeeps, AbortKeeps, ReadCanonicalKeeps
<1>3. CASE Crash
  BY <1>3, CrashKeeps
<1>4. CASE UNCHANGED vars
  BY <1>4 DEF vars, IInv, Shapes, ScopeOK, Asked, Snapped, Prepared, Told,
              Reading, Writing, Apart, Writes
<1>. QED  BY <1>1, <1>2, <1>3, <1>4 DEF Next

LEMMA Invariance == Spec => []IInv
  BY InitIsRight, StepIsRight, PTL DEF Spec

-----------------------------------------------------------------------------
(* What the runs check.                                                      *)

\* Every stored document, and every document a transaction is about to store,
\* keeps its shape and passes its collection's validator, however requests,
\* conflicts, lost answers and crashes interleave.
THEOREM TypeCorrect == Spec => []TypeOK
<1>1. IInv => TypeOK
  <2>. SUFFICES ASSUME IInv PROVE TypeOK
    OBVIOUS
  <2>1. ASSUME NEW s \in Scopes
        PROVE  /\ phase[s] # "idle" =>
                    request[s].input \in Inputs /\ request[s].at \in Arrivals
               /\ phase[s] \in {"open", "staged", "indoubt"} =>
                    DocsOK(snapshot[s])
               /\ phase[s] \in {"staged", "indoubt"} => DocsOK(image[s])
    <3>0. Asked(s) /\ Snapped(s) /\ Prepared(s)
      BY DEF IInv, ScopeOK
    <3>1. ASSUME Writing(s) PROVE DocsOK(image[s])
      <4>1. Reading(s) /\ phase[s] # "idle"
        BY <3>1 DEF Reading, Writing
      <4>2. PICK e \in Effects(snapshot[s], request[s].input, request[s].at) :
              image[s] = e.docs
        BY <3>0, <3>1 DEF Prepared
      <4>3. Kept(snapshot[s], e.docs)
        BY <3>0, <4>1, EffectsKeep DEF Asked, Snapped
      <4>. QED  BY <4>2, <4>3 DEF Kept, StoreOK
    <3>. QED  BY <3>0, <3>1 DEF Asked, Snapped, Reading, Writing, StoreOK
  <2>. QED  BY <2>1 DEF IInv, Shapes, StoreOK, TypeOK
<1>. QED  BY <1>1, Invariance, PTL

\* In particular no document ever gets into a state its readers refuse.
THEOREM DocumentsStayReadable == Spec => []DocumentsAreReadable
<1>1. TypeOK => DocumentsAreReadable
  BY DEF TypeOK, DocumentsAreReadable
<1>. QED  BY <1>1, TypeCorrect, PTL

\* The stored events and the qualifications always tell one story: entered by
\* exactly one accepted event, inside its window, and left by exactly one.
THEOREM EventsAlwaysExplainPresence == Spec => []EventsExplainPresence
<1>1. IInv => EventsExplainPresence
  BY DEF IInv, StoreOK, EventsExplainPresence
<1>. QED  BY <1>1, Invariance, PTL

\* A slot is only ever bound to someone who may still use it, one slot to a
\* qualification and one to a subject, and the slot counter counts them.
THEOREM FacesAlwaysFollow == Spec => []FacesFollowQualifications
<1>1. IInv => FacesFollowQualifications
  BY DEF IInv, StoreOK, FacesFollowQualifications
<1>. QED  BY <1>1, Invariance, PTL

\* What a client was told about its event is, and stays, what is stored.
THEOREM AnswersStayCanonical == Spec => []AnswersAreCanonical
<1>1. IInv => AnswersAreCanonical
  <2>. SUFFICES ASSUME IInv, NEW s \in Scopes, phase[s] = "done",
                       request[s].input.kind = "RECOGNIZE"
                PROVE  LET r == request[s].input
                           stored == db[KeyOf(r)]
                       IN  /\ answer[s].status \in {"COMMITTED", "REPLAYED"} =>
                                /\ stored = answer[s].detail
                                /\ stored.credential = r.credential
                           /\ answer[s].status = "CONFLICT" =>
                                /\ stored # None
                                /\ stored.credential # r.credential
    BY DEF AnswersAreCanonical
  <2>. ToldOf(request[s].input, answer[s], db)
    BY DEF IInv, ScopeOK, Told
  <2>. QED  BY DEF ToldOf, Present
<1>. QED  BY <1>1, Invariance, PTL

LEMMA SerialStart == Init => Serial!StoreInit
  BY DEF Init, Serial!StoreInit

LEMMA SerialStep == IInv /\ [Next]_vars => [Serial!StoreNext]_db
<1>. SUFFICES ASSUME IInv, [Next]_vars PROVE [Serial!StoreNext]_db
  OBVIOUS
<1>1. ASSUME NEW s \in Scopes, Writing(s), db' = Applied(s)
      PROVE  [Serial!StoreNext]_db
  <2>1. CASE db' = db
    BY <2>1
  <2>2. CASE db' # db
    <3>. PICK r \in Inputs, at \in Arrivals :
           /\ Possible(db, r)
           /\ \E f \in Effects(db, r, at) : f.docs = db'
      BY <1>1, <2>2, ApplyFacts
    <3>. QED  BY <2>2 DEF Serial!StoreNext
  <2>. QED  BY <2>1, <2>2
<1>2. ASSUME NEW s \in Scopes, Commit(s) \/ Settle(s)
      PROVE  [Serial!StoreNext]_db
  BY <1>1, <1>2 DEF Commit, Settle, Writing
<1>3. ASSUME NEW s \in Scopes,
             \/ \E r \in Inputs, at \in Arrivals : Open(s, r, at)
             \/ Stage(s) \/ Refuse(s) \/ Conflict(s) \/ CommitConflict(s)
             \/ LoseAnswer(s) \/ Abort(s) \/ ReadCanonical(s)
      PROVE  db' = db
  BY <1>3 DEF Open, Stage, Refuse, Conflict, CommitConflict, LoseAnswer, Abort,
              ReadCanonical
<1>4. CASE Crash \/ UNCHANGED vars
  BY <1>4 DEF Crash, vars
<1>. QED  BY <1>2, <1>3, <1>4 DEF Next

\* Transactions on snapshots, conflicts found late, commits in doubt and
\* crashes implement a store that is changed by one whole operation at a time.
THEOREM TransactionsAreSerial == Spec => OneAtATime
<1>1. Spec => Serial!StoreSpec
  BY SerialStart, SerialStep, Invariance, PTL DEF Spec, Serial!StoreSpec
<1>. QED  BY <1>1 DEF OneAtATime

-----------------------------------------------------------------------------
(* The images by which a commit in doubt is recognised.                      *)

\* A store in agreement: whatever its readers meet, they can read.
LEMMA ViewIsReadable ==
  ASSUME NEW b, StoreOK(b), NEW q \in Quals \union {None}
  PROVE  /\ Readable(View(b, q))
         /\ q # None /\ Present(b, q) =>
              View(b, q).qualification \in Qualifications
         /\ View(b, q).mapping # None =>
              View(b, q).mapping.version \in Nat /\ View(b, q).mapping.of = q
<1>0. /\ \A p \in Quals : Present(b, p) =>
           b[p] \in Qualifications /\ LegalQualification(b[p])
      /\ SlotsAgree(b) /\ None \notin Quals
  BY StoreParts, NoneFacts DEF NoneIsNoName
<1>1. \A x \in Qualifications : x # Unreadable
  BY DEF Qualifications, Unreadable
<1>2. CASE q = None
  BY <1>2, ImageAssumption DEF View, Readable
<1>3. CASE q \in Quals
  <2>1. /\ QualificationView(b, q) = b[q] /\ b[q] # Unreadable
        /\ Present(b, q) => b[q] \in Qualifications
    BY <1>0, <1>1, <1>3, ImageAssumption DEF QualificationView, Present
  <2>2. \/ MappingView(b, q) = None
        \/ \E t \in BoundSlots(b, q) :
             MappingView(b, q) = [slot |-> t, of |-> q, version |-> b[t].version]
    BY <1>0, <1>3 DEF MappingView, SlotsAgree
  <2>3. \A t, v : [slot |-> t, of |-> q, version |-> v] # Unreadable
    BY DEF Unreadable
  <2>4. \A t \in BoundSlots(b, q) : b[t].version \in Nat
    BY <1>0 DEF BoundSlots, SlotsAgree, FaceSlots
  <2>5. /\ MappingView(b, q) # Unreadable
        /\ MappingView(b, q) # None =>
             MappingView(b, q).version \in Nat /\ MappingView(b, q).of = q
    BY <2>2, <2>3, <2>4, ImageAssumption
  <2>6. View(b, q) = [qualification |-> QualificationView(b, q),
                      mapping |-> MappingView(b, q)]
    BY <1>0, <1>3 DEF View
  <2>. QED  BY <2>1, <2>5, <2>6 DEF Readable
<1>. QED  BY <1>2, <1>3

LEMMA SameAsItself == \A view : SameView(view, view)
  BY DEF SameView, SameQualification, SameMapping

\* What s has written is an operation on what it read; nobody changed there
\* what it writes, and it is what s would leave were nothing else committed.
LEMMA WritingFacts ==
  ASSUME IInv, NEW s \in Scopes, Imaged(s)
  PROVE  /\ request[s].input \in Inputs /\ request[s].at \in Arrivals
         /\ StoreOK(snapshot[s]) /\ StoreOK(image[s])
         /\ Possible(snapshot[s], request[s].input)
         /\ image[s] # snapshot[s]
         /\ \A d \in Docs : image[s][d] # snapshot[s][d] =>
                              db[d] = snapshot[s][d]
         /\ \E e \in Effects(snapshot[s], request[s].input, request[s].at) :
              image[s] = e.docs
         /\ db = snapshot[s] => Applied(s) = image[s]
<1>1. /\ Writing(s) /\ Reading(s) /\ phase[s] # "idle"
      /\ Writes(s) = {d \in Docs : image[s][d] # snapshot[s][d]}
      /\ \E d \in Docs : image[s][d] # snapshot[s][d]
  BY DEF Imaged, Writes, Writing, Reading
<1>2. Asked(s) /\ Snapped(s) /\ Prepared(s)
  BY DEF IInv, ScopeOK
<1>3. PICK e \in Effects(snapshot[s], request[s].input, request[s].at) :
        image[s] = e.docs /\ Unconflicted(snapshot[s], image[s], db)
  BY <1>1, <1>2 DEF Prepared
<1>4. /\ request[s].input \in Inputs /\ request[s].at \in Arrivals
      /\ StoreOK(snapshot[s]) /\ Possible(snapshot[s], request[s].input)
  BY <1>1, <1>2 DEF Asked, Snapped
<1>5. StoreOK(image[s])
  BY <1>3, <1>4, EffectsKeep DEF Kept
<1>6. ASSUME db = snapshot[s] PROVE Applied(s) = image[s]
  <2>1. IsDocs(image[s]) /\ IsDocs(Applied(s))
    BY <1>5, StoreParts DEF IsDocs, Applied
  <2>2. \A d \in Docs : Applied(s)[d] = image[s][d]
    BY <1>1, <1>6 DEF Applied
  <2>. QED  BY <2>1, <2>2, SameDocs
<1>. QED  BY <1>1, <1>3, <1>4, <1>5, <1>6 DEF Unconflicted

\* A recognition that writes stores its event, under a key nothing had.
LEMMA RecognitionWrites ==
  ASSUME IInv, NEW s \in Scopes, Imaged(s), Recognizes(s)
  PROVE  LET key == KeyOf(request[s].input)
         IN  /\ key \in EventKeys /\ ~Present(db, key)
             /\ image[s][key] \in Events /\ Present(image[s], key)
<1>. DEFINE a == snapshot[s]
            r == request[s].input
            at == request[s].at
            key == KeyOf(r)
<1>1. /\ r \in RecognitionInputs /\ at \in Instants /\ StoreOK(a)
      /\ Effects(a, r, at) = RecognitionEffects(a, r, at)
  <2>1. r \in Inputs /\ at \in Arrivals /\ StoreOK(a) /\ r.kind = "RECOGNIZE"
    BY WritingFacts DEF Recognizes
  <2>. HIDE DEF a, r, at
  <2>. QED  BY <2>1, KindFacts, InputsAssumption
<1>2. PICK e \in RecognitionEffects(a, r, at) : image[s] = e.docs
  BY <1>1, WritingFacts
<1>3. ~Present(a, key) /\ image[s] = RecognitionImage(a, r, at)
  <2>1. e.docs # a
    BY <1>2, WritingFacts
  <2>2. ~Present(a, key)
    BY <2>1 DEF RecognitionEffects, Replay, Effect
  <2>3. e = Written(a, RecognitionImage(a, r, at), "COMMITTED",
                    EventOf(a, r, at))
    BY <2>2 DEF RecognitionEffects
  <2>. QED  BY <1>2, <2>1, <2>2, <2>3, WrittenDocs
<1>4. image[s][key] = EventOf(a, r, at) /\ EventOf(a, r, at) \in Events
  <2>. HIDE DEF a, r, at
  <2>1. Recognition(a, RecognitionImage(a, r, at), r, at, Attempted(a, r),
                    Decision(a, r, at))
    BY <1>1, RecognitionFacts
  <2>. QED  BY <1>1, <1>3, <2>1, EventIsEvent DEF Recognition, key
<1>5. key \in EventKeys /\ key \in Docs
  BY <1>1, IdFacts DEF RecognitionInputs, KeyOf, EventKeys, Ids
<1>6. image[s][key] # None
  BY <1>4, IdsAssumption
<1>7. db[key] = None
  <2>. \A d \in Docs : image[s][d] # snapshot[s][d] => db[d] = snapshot[s][d]
    BY WritingFacts
  <2>. QED  BY <1>3, <1>5, <1>6 DEF Present
<1>. QED  BY <1>4, <1>5, <1>6, <1>7 DEF Present

\* A management change that writes leaves its qualification there.
LEMMA ManagementWrites ==
  ASSUME IInv, NEW s \in Scopes, Imaged(s), ~Recognizes(s)
  PROVE  LET q == request[s].input.qualification
         IN  q \in Quals /\ Present(image[s], q)
<1>. DEFINE a == snapshot[s]
            r == request[s].input
            at == request[s].at
            q == r.qualification
<1>1. /\ r \in Inputs /\ at \in Arrivals /\ at \in Instants /\ StoreOK(a)
      /\ Possible(a, r) /\ r.kind # "RECOGNIZE" /\ image[s] # a
  BY WritingFacts, InputsAssumption DEF Recognizes
<1>2. PICK e \in Effects(a, r, at) : image[s] = e.docs
  BY WritingFacts
<1>. HIDE DEF a, r, at
<1>3. q \in Quals /\ Managed(a, image[s], q)
  <2>1. CASE r \in CreateInputs /\ Effects(a, r, at) = CreateEffects(a, r, at)
    <3>. e.docs = a \/ Guarded(a, e.docs, q)
      BY <1>1, <1>2, <2>1, CreateKeeps
    <3>. QED  BY <1>1, <1>2, <2>1 DEF Guarded, CreateInputs
  <2>2. CASE r \in UpdateInputs /\ Effects(a, r, at) = UpdateEffects(a, r, at)
    <3>. e.docs = a \/ Guarded(a, e.docs, q) \/ InPlace(a, r, at, e.docs)
      BY <1>1, <1>2, <2>2, UpdateKeeps
    <3>. QED  BY <1>1, <1>2, <2>2 DEF Guarded, InPlace, UpdateInputs
  <2>3. CASE r \in RevokeInputs /\ Effects(a, r, at) = RevokeEffects(a, r, at)
    <3>. e.docs = a \/ Guarded(a, e.docs, q)
      BY <1>1, <1>2, <2>3, RevokeKeeps
    <3>. QED  BY <1>1, <1>2, <2>3 DEF Guarded, RevokeInputs
  <2>. QED  BY <1>1, <2>1, <2>2, <2>3, KindFacts
<1>4. image[s][q] \in Qualifications
  BY <1>3 DEF Managed
<1>. QED  BY <1>3, <1>4, IdsAssumption DEF Present, r

\* Whatever else is stored meanwhile, a commit in doubt is never confirmed
\* while it has not been applied, and is confirmed once it is, for every
\* operation; and no image is one that its own seam would refuse.
THEOREM ImagesTell == Spec => []ReadsTellCommits
<1>1. ASSUME IInv, NEW s \in Scopes, Imaged(s), Recognizes(s)
      PROVE  /\ RecognitionImageAccepted(ExpectedRecognition(s))
             /\ ~Confirms(db, FALSE, s)
             /\ db = snapshot[s] => Confirms(Applied(s), TRUE, s)
  <2>. DEFINE key == KeyOf(request[s].input)
              q == image[s][key].qualification
  <2>1. /\ key \in EventKeys /\ ~Present(db, key)
        /\ image[s][key] \in Events /\ Present(image[s], key)
    BY <1>1, RecognitionWrites
  <2>2. StoreOK(image[s]) /\ (db = snapshot[s] => Applied(s) = image[s])
    BY <1>1, WritingFacts
  <2>3. q \in Quals \union {None} /\ image[s][key].reason \in Reasons
    BY <2>1 DEF Events
  <2>4. Readable(View(image[s], q))
    BY <2>2, <2>3, ViewIsReadable
  <2>5. image[s][System].qr \in Nat /\ image[s][System].face \in Nat
    BY <2>2, StoreParts DEF SystemDocs
  <2>6. RecognitionImageAccepted(ExpectedRecognition(s))
    BY <2>1, <2>3, <2>5
       DEF RecognitionImageAccepted, ExpectedRecognition, EventView,
           ExpectedGuards, GuardVersions, Seen
  <2>7. ~Confirms(db, FALSE, s)
    BY <1>1, <2>1 DEF Confirms, ConfirmsRecognition
  <2>8. ConfirmsRecognition(image[s], s)
    BY <2>1, <2>4, SameAsItself
       DEF ConfirmsRecognition, CanonicalSnapshot, MatchesRecognition,
           ExpectedRecognition, ExpectedGuards, Seen
  <2>. QED  BY <1>1, <2>2, <2>6, <2>7, <2>8 DEF Confirms
<1>2. ASSUME IInv, NEW s \in Scopes, Imaged(s), ~Recognizes(s)
      PROVE  /\ ManagementImageAccepted(ExpectedManagement(s))
             /\ ~Confirms(db, FALSE, s)
             /\ db = snapshot[s] => Confirms(Applied(s), TRUE, s)
  <2>. DEFINE q == request[s].input.qualification
  <2>1. q \in Quals /\ q # None /\ Present(image[s], q)
    BY <1>2, ManagementWrites, NoneFacts DEF NoneIsNoName
  <2>2. StoreOK(image[s]) /\ (db = snapshot[s] => Applied(s) = image[s])
    BY <1>2, WritingFacts
  <2>3. /\ Readable(View(image[s], q))
        /\ View(image[s], q).qualification \in Qualifications
        /\ View(image[s], q).mapping # None =>
             /\ View(image[s], q).mapping.version \in Nat
             /\ View(image[s], q).mapping.of = q
    BY <2>1, <2>2, ViewIsReadable
  <2>4. image[s][System].qr \in Nat /\ image[s][System].face \in Nat
    BY <2>2, StoreParts DEF SystemDocs
  <2>5. Receipt(s).qualification = q /\ Receipt(s).version = image[s][q].version
    BY DEF Receipt, Seen
  <2>6. ManagementImageAccepted(ExpectedManagement(s))
    BY <2>3, <2>4, <2>5
       DEF ManagementImageAccepted, ExpectedManagement, ExpectedGuards,
           GuardVersions, Seen
  <2>7. ~Confirms(db, FALSE, s)
    BY <1>2 DEF Confirms, ConfirmsManagement
  <2>8. ConfirmsManagement(image[s], TRUE, s)
    BY <2>1, <2>3, <2>5, SameAsItself
       DEF ConfirmsManagement, AtVersion, ManagementSnapshot,
           MatchesManagement, ExpectedManagement, ExpectedGuards, Seen
  <2>. QED  BY <1>2, <2>2, <2>6, <2>7, <2>8 DEF Confirms
<1>3. IInv => ReadsTellCommits
  BY <1>1, <1>2 DEF ReadsTellCommits
<1>. QED  BY <1>3, Invariance, PTL

-----------------------------------------------------------------------------
(* Logins, verifications and the requests of the routes.                     *)

\* Nothing is handed out by a capability that is frozen, however many calls
\* were waiting in it when it froze.
THEOREM FrozenIsSilent == AuthSpec => NothingFromTheFrozen
<1>. DEFINE P == /\ authFrozen' /\ UNCHANGED tokens
                 /\ \A c \in AuthCalls : principals'[c] \in {principals[c], NoPrincipal}
            DomainsOK == principals \in [AuthCalls -> {principals[c] : c \in AuthCalls}]
<1>0. AuthInit => DomainsOK
  BY DEF AuthInit
<1>1. ASSUME DomainsOK, [AuthNext]_authVars PROVE DomainsOK'
  <2>1. CASE UNCHANGED authVars
    BY <1>1, <2>1 DEF authVars
  <2>2. CASE UNCHANGED principals
    BY <1>1, <2>2
  <2>3. CASE \E c \in AuthCalls : HandOut(c) \/ Forget(c)
    BY <1>1, <2>3 DEF HandOut, Forget
  <2>. QED  BY <1>1, <2>1, <2>2, <2>3 DEF AuthNext, Login, Verify, Found, Derive,
             IssueToken, StatusRead, CallFails, Freeze, ManageAccount
<1>2. ASSUME DomainsOK, [AuthNext]_authVars PROVE [authFrozen => P]_authVars
  <2>. SUFFICES ASSUME authFrozen, AuthNext PROVE P
    BY <1>2 DEF authVars
  <2>1. ASSUME NEW c \in AuthCalls, Forget(c) PROVE P
    BY <1>2, <2>1 DEF Forget
  <2>2. CASE ~ \E c \in AuthCalls : Forget(c)
    BY <2>2 DEF AuthNext, Login, Verify, Found, Derive, IssueToken, StatusRead,
         HandOut, MayHandOut, CallFails, Freeze, ManageAccount
  <2>. QED  BY <2>1, <2>2
<1>. QED  BY <1>0, <1>1, <1>2, PTL DEF AuthSpec, NothingFromTheFrozen

-----------------------------------------------------------------------------
(* What a request of a route has behind it.                                  *)

Dispositions == {"NONE", "REJECTED", "BUSINESS_RESULT_PERSISTED", "KNOWN_NO_EFFECT",
                 "UNKNOWN_EFFECT"}

RouteEvents ==
    [kind : Kinds, direction : {"ENTRY", "EXIT"}, receivedAt : Seconds,
     outcome : {"ACCEPTED", "REJECTED"}, reason : Rules!Reasons,
     to : {"INSIDE", "EXITED", NoInstant}, qualified : BOOLEAN]

RouteErrors == {"NONE", "REFUSED", "EXPIRED", "CONFLICT", "FAILED"}

RouteEffects == {"NONE", "CHANGED", "EXPIRED", "EARLIER"}

RouteRequests ==
    [at : Validating \cup {"CLAIMED"} \cup AtWork, route : HumanRoutes \cup {"RECOGNITION"},
     received : Seconds, kind : Kinds \cup {"NONE"}, event : RouteEvents \cup {NoInstant},
     open : BOOLEAN, error : RouteErrors, effect : RouteEffects]

RouteCodes == {"AUTH_UNAVAILABLE", "AUTHENTICATION_FAILED", "FORBIDDEN", "INVALID_REQUEST",
          "RESOURCE_NOT_FOUND", "PERSISTENCE_UNAVAILABLE", "UNCONFIRMED", "DONE", "EXPIRED",
          "REFUSED", "CONFLICT"}

RouteAnswers == [at : {"ANSWERED"}, disposition : Dispositions, told : RouteCodes]

People == [sub : Accounts, role : Roles]

RouteCalls ==
    {NoCall} \cup [stage : {"FINDING", "STATUS"}, sub : Accounts]
    \cup [stage : {"FOUND", "DERIVING"}, sub : Accounts, real : BOOLEAN]
    \cup [stage : {"STATUS_READ"}, facts : SUBSET People]

\* What is said of one caller: its request, what was witnessed since it came,
\* the call it waits in, and the principal it holds.
Typed(r, seen, call, principal) ==
    /\ r \in {NoneYet} \cup RouteRequests \cup RouteAnswers
    /\ seen \subseteq People
    /\ call \in RouteCalls
    /\ principal \in People \cup {NoPrincipal}

\* Whatever was read of an account is one of the facts since the request came.
Witnessed(r, seen, call, principal) ==
    r.at \in Validating =>
        /\ UNION {Facts(a) : a \in Accounts} \subseteq seen
        /\ r.at = "VERIFYING" /\ r.route \in HumanRoutes /\ call.stage = "STATUS_READ" =>
             call.facts \subseteq seen
        /\ r.at = "HELD" /\ r.route \in HumanRoutes => principal \in seen

\* The error a use case ends with tells what it has written.
Truthful(r) ==
    /\ r.at \in Validating \cup {"CLAIMED", "READING", "STAGING", "EXPIRING"} =>
         r.effect = "NONE" /\ r.error = "NONE"
    /\ r.at = "EXPIRING" => r.route \in ManagementRoutes
    /\ r.at = "STAGING" => r.route \in Writers
    /\ r.at = "CLOSING" =>
         /\ r.route \in Writers
         /\ r.open => r.effect = "NONE" /\ r.error # "NONE"
         /\ r.error = "NONE" => r.effect \in {"CHANGED", "EARLIER"}
         /\ r.error = "NONE" /\ r.route = "RECOGNITION" /\ r.effect = "CHANGED" =>
              Presentable(r.event, r)
         /\ r.error = "EXPIRED" => r.effect = "EXPIRED" /\ r.route \in ManagementRoutes
         /\ r.error = "REFUSED" => r.effect = "NONE" /\ r.route \in ManagementRoutes
         /\ r.error = "CONFLICT" => r.effect = "NONE" /\ r.route = "RECOGNITION"

CallerOK(r, seen, call, principal) ==
    /\ Typed(r, seen, call, principal)
    /\ Witnessed(r, seen, call, principal)
    /\ Truthful(r)

RouteInv ==
    /\ enabled \subseteq Accounts /\ roles \in [Accounts -> Roles]
    /\ tokens \subseteq [sub : Accounts, iat : Seconds]
    /\ DOMAIN asked = AuthCalls /\ DOMAIN witnessed = AuthCalls
    /\ DOMAIN calls = AuthCalls /\ DOMAIN principals = AuthCalls
    /\ \A c \in AuthCalls : CallerOK(asked[c], witnessed[c], calls[c], principals[c])

\* What the property says of a step of one caller.
Replied(c) ==
    /\ ~IsAt(c, "CLAIMED") /\ IsAt(c, "CLAIMED")' =>
         CurrentActor(asked[c].route, witnessed[c])
    /\ ~IsAt(c, "ANSWERED") /\ IsAt(c, "ANSWERED")' => TrueReply(asked[c], asked'[c])

LEMMA FactsAreOfPeople ==
    ASSUME enabled \subseteq Accounts, roles \in [Accounts -> Roles], NEW a \in Accounts
    PROVE  Facts(a) \subseteq People
  BY DEF Facts, People

\* Every decision makes a sound event: no committed recognition is left
\* unconfirmed because of what it decided.
LEMMA DecidedIsSound ==
    ASSUME NEW kind \in Kinds, NEW direction \in {"ENTRY", "EXIT"}, NEW active \in BOOLEAN,
           NEW resolved \in BOOLEAN, NEW at \in Seconds,
           resolved => active /\ kind # "FACE_UNKNOWN",
           NEW decision, decision = Decides(kind, direction, active, resolved, at),
           NEW e, e = Event(kind, direction, at, resolved, decision)
    PROVE  e \in RouteEvents /\ EventIsSound(e) /\ e.kind = kind /\ e.receivedAt = at
<1>. e = [kind |-> kind, direction |-> direction, receivedAt |-> at,
          outcome |-> decision.outcome, reason |-> decision.reason,
          to |-> decision.to, qualified |-> resolved]
  BY DEF Event
<1>1. CASE ~active
  <2>. decision = Rules!Rejected("SOURCE_INACTIVE") /\ ~resolved
    BY <1>1 DEF Decides
  <2>. QED  BY DEF RouteEvents, EventIsSound, UnqualifiedReasons, Rules!Rejected, Rules!Reasons
<1>2. CASE active /\ ~resolved
  <2>. decision = Rules!Rejected(UnresolvedOf(kind))
    BY <1>2 DEF Decides
  <2>. UnresolvedOf(kind) \in UnqualifiedReasons
    BY DEF UnresolvedOf, UnqualifiedReasons, Kinds
  <2>. QED  BY <1>2 DEF RouteEvents, EventIsSound, UnqualifiedReasons, Rules!Rejected, Rules!Reasons
<1>3. CASE resolved /\ direction = "ENTRY"
  <2>. decision = Rules!EntryDecision(qualification, at)
    BY <1>3 DEF Decides
  <2>. QED  BY <1>3 DEF RouteEvents, EventIsSound, EntryReasons, Rules!EntryDecision, Rules!Rejected,
                        Rules!Reasons
<1>4. CASE resolved /\ direction = "EXIT"
  <2>. decision = Rules!ExitDecision(qualification)
    BY <1>4 DEF Decides
  <2>. QED  BY <1>4 DEF RouteEvents, EventIsSound, ExitReasons, Rules!ExitDecision, Rules!Rejected,
                        Rules!Reasons
<1>. QED  BY <1>1, <1>2, <1>3, <1>4

LEMMA EarlierIsEvent ==
    ASSUME NEW kind \in Kinds, NEW at \in Seconds
    PROVE  Earlier(kind, at) \in RouteEvents
<1>. UnresolvedOf(kind) \in Rules!Reasons
  BY DEF UnresolvedOf, Kinds, Rules!Reasons
<1>. QED  BY DEF Earlier, Event, RouteEvents, Rules!Rejected

-----------------------------------------------------------------------------
(* Steps of one caller.                                                      *)

Mine(c) == CallerOK(asked[c], witnessed[c], calls[c], principals[c])

\* A step of c: it keeps what is said of c, leaves the others alone, and the
\* reply it may give is true.
Row(c) ==
    /\ UNCHANGED <<enabled, roles>>
    /\ tokens' \subseteq [sub : Accounts, iat : Seconds]
    /\ DOMAIN asked' = AuthCalls /\ DOMAIN witnessed' = AuthCalls
    /\ DOMAIN calls' = AuthCalls /\ DOMAIN principals' = AuthCalls
    /\ \A d \in AuthCalls \ {c} :
         /\ asked'[d] = asked[d] /\ witnessed'[d] = witnessed[d]
         /\ calls'[d] = calls[d] /\ principals'[d] = principals[d]
    /\ CallerOK(asked'[c], witnessed'[c], calls'[c], principals'[c])
    /\ Replied(c)

\* Work on a request that has been claimed.
LEMMA WorkRow ==
    ASSUME RouteInv, NEW c \in AuthCalls, UNCHANGED authVars, UNCHANGED witnessed,
           NEW r \in RouteRequests, asked' = [asked EXCEPT ![c] = r],
           r.at \in AtWork, Truthful(r)
    PROVE  Row(c)
<1>1. asked'[c] = r /\ DOMAIN asked' = AuthCalls
  BY DEF RouteInv
<1>2. CallerOK(r, witnessed[c], calls[c], principals[c])
  BY DEF RouteInv, CallerOK, Typed, Witnessed, AtWork, Validating
<1>3. Replied(c)
  BY <1>1 DEF Replied, IsAt, AtWork
<1>. QED  BY <1>1, <1>2, <1>3 DEF Row, RouteInv, authVars

\* An answer: the principal is forgotten, and the call, if any, has ended.
LEMMA AnswerRow ==
    ASSUME RouteInv, NEW c \in AuthCalls, NEW disposition \in Dispositions,
           NEW told \in RouteCodes, AnswersWith(c, disposition, told),
           UNCHANGED <<enabled, roles, tokens>>,
           \/ principals' = [principals EXCEPT ![c] = NoPrincipal] /\ calls' = calls
           \/ principals' = principals /\ calls' = [calls EXCEPT ![c] = NoCall],
           TrueReply(asked[c], [at |-> "ANSWERED", disposition |-> disposition, told |-> told])
    PROVE  Row(c)
<1>. DEFINE r == [at |-> "ANSWERED", disposition |-> disposition, told |-> told]
<1>1. asked'[c] = r /\ witnessed'[c] = {} /\ DOMAIN asked' = AuthCalls
      /\ DOMAIN witnessed' = AuthCalls
  BY DEF AnswersWith, RouteInv
<1>2. CallerOK(r, {}, calls'[c], principals'[c])
  <2>1. r \in RouteAnswers
    BY DEF RouteAnswers
  <2>2. Typed(r, {}, calls'[c], principals'[c])
    BY <2>1 DEF RouteInv, CallerOK, Typed, RouteCalls
  <2>3. Witnessed(r, {}, calls'[c], principals'[c]) /\ Truthful(r)
    BY DEF Witnessed, Truthful, Validating
  <2>. QED  BY <2>2, <2>3 DEF CallerOK
<1>3. Replied(c)
  BY <1>1 DEF Replied, IsAt
<1>4. \A d \in AuthCalls \ {c} :
         /\ asked'[d] = asked[d] /\ witnessed'[d] = witnessed[d]
         /\ calls'[d] = calls[d] /\ principals'[d] = principals[d]
  BY DEF AnswersWith, RouteInv
<1>. QED  BY <1>1, <1>2, <1>3, <1>4 DEF Row, RouteInv

\* A refusal before any work: nothing was written.
LEMMA RefuseRow ==
    ASSUME RouteInv, NEW c \in AuthCalls, NEW code \in RouteCodes,
           code \notin {"DONE", "EXPIRED"},
           asked[c].at \in Validating, Refuses(c, code)
    PROVE  Row(c)
<1>1. asked[c].effect = "NONE"
  BY DEF RouteInv, CallerOK, Truthful
<1>. QED  BY <1>1, AnswerRow DEF Refuses, Forget, TrueReply, Dispositions

LEMMA ClaimRow ==
    ASSUME RouteInv, NEW c \in AuthCalls, asked[c].at = "HELD", Claims(c),
           CurrentActor(asked[c].route, witnessed[c])
    PROVE  Row(c)
<1>. DEFINE r == [asked[c] EXCEPT !.at = "CLAIMED"]
<1>1. asked[c] \in RouteRequests /\ Mine(c)
  BY DEF RouteInv, CallerOK, Typed, RouteAnswers, NoneYet, Mine
<1>2. r \in RouteRequests /\ r.at = "CLAIMED" /\ r.effect = asked[c].effect
      /\ r.error = asked[c].error
  BY <1>1 DEF RouteRequests
<1>3. asked'[c] = r /\ witnessed'[c] = {} /\ DOMAIN asked' = AuthCalls
      /\ DOMAIN witnessed' = AuthCalls /\ DOMAIN principals' = AuthCalls
      /\ calls' = calls /\ principals'[c] = NoPrincipal
  BY DEF Claims, Forget, RouteInv
<1>4. CallerOK(r, {}, calls[c], NoPrincipal)
  BY <1>1, <1>2 DEF CallerOK, Typed, Witnessed, Truthful, Validating, Mine
<1>5. Replied(c)
  BY <1>2, <1>3 DEF Replied, IsAt
<1>. QED  BY <1>3, <1>4, <1>5 DEF Row, RouteInv, Claims, Forget

\* What a request is while it is validated or at work.
LEMMA AtRequest ==
    ASSUME RouteInv, NEW c \in AuthCalls,
           asked[c].at \in Validating \cup {"CLAIMED"} \cup AtWork
    PROVE  asked[c] \in RouteRequests /\ Mine(c)
  BY DEF RouteInv, CallerOK, Typed, RouteAnswers, NoneYet, Mine, Validating, AtWork

\* Logins, arrivals and the reads of an account.
LEMMA LoginStep ==
    ASSUME RouteInv, NEW c \in AuthCalls, LogsIn(c)
    PROVE  Row(c)
<1>. USE DEF LogsIn, IsAt
<1>0. Mine(c) /\ UNCHANGED <<asked, witnessed, enabled, roles, principals>>
  BY DEF Mine, RouteInv, workVars, Login, Found, Derive, IssueToken, CallFails
<1>1. /\ calls'[c] \in RouteCalls /\ DOMAIN calls' = AuthCalls
      /\ \A d \in AuthCalls \ {c} : calls'[d] = calls[d]
      /\ tokens' \subseteq [sub : Accounts, iat : Seconds]
  <2>. calls[c] \in RouteCalls /\ DOMAIN calls = AuthCalls
    BY <1>0 DEF Mine, CallerOK, Typed, RouteInv
  <2>1. CASE \E a \in Accounts : Login(c, a)
    BY <2>1 DEF Login, RouteCalls, RouteInv
  <2>2. CASE Found(c)
    BY <2>2 DEF Found, RouteCalls, RouteInv, Enters, NoCall
  <2>3. CASE Derive(c)
    BY <2>3 DEF Derive, RouteCalls, RouteInv, Enters, NoCall
  <2>4. CASE IssueToken(c)
    BY <2>4 DEF IssueToken, RouteCalls, RouteInv, Enters, NoCall
  <2>5. CASE CallFails(c)
    BY <2>5 DEF CallFails, RouteCalls, RouteInv
  <2>. QED  BY <2>1, <2>2, <2>3, <2>4, <2>5
<1>2. CallerOK(asked[c], witnessed[c], calls'[c], principals[c])
  BY <1>0, <1>1 DEF Mine, CallerOK, Typed, Witnessed, Validating
<1>3. Replied(c)
  BY <1>0 DEF Replied
<1>. QED  BY <1>0, <1>1, <1>2, <1>3 DEF Row, RouteInv

LEMMA ArriveStep ==
    ASSUME RouteInv, NEW c \in AuthCalls, Arrive(c)
    PROVE  Row(c)
<1>1. PICK route \in HumanRoutes \cup {"RECOGNITION"} : asked' = [asked EXCEPT ![c] = New(route)]
  BY DEF Arrive
<1>. DEFINE seen == UNION {Facts(a) : a \in Accounts}
<1>2. New(route) \in RouteRequests /\ Truthful(New(route))
  <2>. 0 \in Seconds
    BY AuthAssumption DEF Seconds
  <2>. QED  BY DEF New, RouteRequests, Truthful, Validating, RouteErrors, RouteEffects
<1>3. seen \subseteq People
  BY FactsAreOfPeople DEF RouteInv
<1>4. CallerOK(New(route), seen, calls[c], principals[c])
  BY <1>2, <1>3 DEF CallerOK, Typed, Witnessed, RouteInv, New
<1>5. /\ asked'[c] = New(route) /\ witnessed'[c] = seen /\ DOMAIN asked' = AuthCalls
      /\ DOMAIN witnessed' = AuthCalls /\ UNCHANGED authVars
      /\ \A d \in AuthCalls \ {c} : asked'[d] = asked[d] /\ witnessed'[d] = witnessed[d]
  BY <1>1 DEF Arrive, RouteInv
<1>6. Replied(c)
  BY <1>5 DEF Replied, IsAt, New
<1>. QED  BY <1>4, <1>5, <1>6 DEF Row, RouteInv, authVars

LEMMA AsksStep ==
    ASSUME RouteInv, NEW c \in AuthCalls, NEW token \in tokens, Asks(c, token)
    PROVE  Row(c)
<1>. DEFINE r == [asked[c] EXCEPT !.at = "VERIFYING"]
            call == [stage |-> "STATUS", sub |-> token.sub]
<1>1. asked[c] \in RouteRequests /\ Mine(c) /\ asked[c].at = "ARRIVED"
  BY AtRequest DEF Asks, Human, IsAt, Validating
<1>2. /\ asked'[c] = r /\ DOMAIN asked' = AuthCalls /\ calls'[c] = call
      /\ DOMAIN calls' = AuthCalls
      /\ \A d \in AuthCalls \ {c} : asked'[d] = asked[d] /\ calls'[d] = calls[d]
      /\ UNCHANGED <<witnessed, enabled, roles, tokens, principals>>
  BY DEF Asks, Moves, Verify, RouteInv
<1>3. /\ r \in RouteRequests /\ r.at = "VERIFYING" /\ r.effect = asked[c].effect
      /\ r.error = asked[c].error
  BY <1>1 DEF RouteRequests, Validating
<1>4. call \in RouteCalls
  BY DEF RouteCalls, RouteInv
<1>5. CallerOK(r, witnessed[c], call, principals[c])
  BY <1>1, <1>3, <1>4 DEF CallerOK, Typed, Witnessed, Truthful, Validating, Mine
<1>6. Replied(c)
  BY <1>2, <1>3 DEF Replied, IsAt
<1>. QED  BY <1>2, <1>5, <1>6 DEF Row, RouteInv

LEMMA StatusReadStep ==
    ASSUME RouteInv, NEW c \in AuthCalls, StatusRead(c), UNCHANGED workVars
    PROVE  Row(c)
<1>. DEFINE call == [stage |-> "STATUS_READ", facts |-> Facts(calls[c].sub)]
<1>1. /\ Mine(c) /\ calls'[c] = call /\ DOMAIN calls' = AuthCalls
      /\ \A d \in AuthCalls \ {c} : calls'[d] = calls[d]
      /\ UNCHANGED <<asked, witnessed, enabled, roles, tokens, principals>>
  BY DEF StatusRead, RouteInv, workVars, Mine
<1>2. calls[c].sub \in Accounts
  BY <1>1 DEF Mine, CallerOK, Typed, RouteCalls, NoCall, StatusRead, Enters
<1>3. Facts(calls[c].sub) \subseteq People
  BY <1>2, FactsAreOfPeople DEF RouteInv
<1>4. call \in RouteCalls
  BY <1>3 DEF RouteCalls
<1>5. CallerOK(asked[c], witnessed[c], call, principals[c])
  BY <1>1, <1>2, <1>4 DEF CallerOK, Typed, Witnessed, Truthful, Mine
<1>6. Replied(c)
  BY <1>1 DEF Replied, IsAt
<1>. QED  BY <1>1, <1>5, <1>6 DEF Row, RouteInv

LEMMA VerifiedStep ==
    ASSUME RouteInv, NEW c \in AuthCalls, Verified(c)
    PROVE  Row(c)
<1>. DEFINE r == [asked[c] EXCEPT !.at = "HELD"]
<1>1. asked[c] \in RouteRequests /\ Mine(c) /\ asked[c].at = "VERIFYING"
  BY AtRequest DEF Verified, IsAt, Validating
<1>2. PICK facts \in calls[c].facts : principals' = [principals EXCEPT ![c] = facts]
  BY DEF Verified, HandOut
<1>3. /\ asked'[c] = r /\ DOMAIN asked' = AuthCalls /\ calls'[c] = NoCall
      /\ DOMAIN calls' = AuthCalls /\ principals'[c] = facts /\ DOMAIN principals' = AuthCalls
      /\ \A d \in AuthCalls \ {c} : /\ asked'[d] = asked[d] /\ calls'[d] = calls[d]
                                    /\ principals'[d] = principals[d]
      /\ UNCHANGED <<witnessed, enabled, roles, tokens>>
  BY <1>2 DEF Verified, HandOut, Moves, RouteInv
<1>4. /\ r \in RouteRequests /\ r.at = "HELD" /\ r.effect = asked[c].effect
      /\ r.error = asked[c].error /\ r.route = asked[c].route
  BY <1>1 DEF RouteRequests, Validating
<1>5. calls[c].stage = "STATUS_READ" /\ calls[c].facts \subseteq People
  BY <1>1 DEF Mine, CallerOK, Typed, RouteCalls, NoCall, Verified, HandOut, MayHandOut, Enters
<1>6. CallerOK(r, witnessed[c], NoCall, facts)
  <2>1. NoCall \in RouteCalls /\ facts \in People
    BY <1>2, <1>5 DEF RouteCalls
  <2>2. r.route \in HumanRoutes => facts \in witnessed[c]
    BY <1>1, <1>2, <1>4, <1>5 DEF Mine, CallerOK, Witnessed, Validating
  <2>. QED  BY <1>1, <1>4, <2>1, <2>2 DEF CallerOK, Typed, Witnessed, Truthful, Validating, Mine
<1>7. Replied(c)
  BY <1>3, <1>4 DEF Replied, IsAt
<1>. QED  BY <1>3, <1>6, <1>7 DEF Row, RouteInv

LEMMA NotVerifiedStep ==
    ASSUME RouteInv, NEW c \in AuthCalls, NotVerified(c)
    PROVE  Row(c)
<1>1. asked[c].effect = "NONE"
  BY AtRequest DEF NotVerified, IsAt, Validating, Mine, CallerOK, Truthful
<1>2. PICK code \in {"AUTH_UNAVAILABLE", "AUTHENTICATION_FAILED"} :
        AnswersWith(c, "REJECTED", code)
  BY DEF NotVerified
<1>3. code \in RouteCodes /\ code \notin {"DONE", "EXPIRED"} /\ "REJECTED" \in Dispositions
  BY DEF Dispositions, RouteCodes
<1>4. TrueReply(asked[c], [at |-> "ANSWERED", disposition |-> "REJECTED", told |-> code])
  BY <1>1, <1>3 DEF TrueReply
<1>. QED  BY <1>2, <1>3, <1>4, AnswerRow DEF NotVerified, CallFails

\* The role of the principal was the account's when it was read.
LEMMA ValidatedStep ==
    ASSUME RouteInv, NEW c \in AuthCalls, Validated(c)
    PROVE  Row(c)
<1>1. /\ asked[c] \in RouteRequests /\ Mine(c) /\ asked[c].at = "HELD"
      /\ asked[c].at \in Validating /\ asked[c].route \in HumanRoutes
  BY AtRequest DEF Validated, IsAt, Validating
<1>2. principals[c] \in witnessed[c]
  BY <1>1 DEF Mine, CallerOK, Witnessed
<1>3. ASSUME RoleSuffices(asked[c].route, principals[c].role)
      PROVE  CurrentActor(asked[c].route, witnessed[c])
  BY <1>2, <1>3 DEF RoleSuffices, CurrentActor, ManagementRoutes
<1>4. \/ \E code \in {"AUTH_UNAVAILABLE", "FORBIDDEN", "INVALID_REQUEST"} : Refuses(c, code)
      \/ Claims(c) /\ RoleSuffices(asked[c].route, principals[c].role)
  BY DEF Validated
<1>5. ASSUME NEW code \in {"AUTH_UNAVAILABLE", "FORBIDDEN", "INVALID_REQUEST"},
             Refuses(c, code)
      PROVE  Row(c)
  <2>. code \in RouteCodes /\ code \notin {"DONE", "EXPIRED"}
    BY DEF RouteCodes
  <2>. QED  BY <1>1, <1>5, RefuseRow
<1>. QED  BY <1>1, <1>3, <1>4, <1>5, ClaimRow

LEMMA SourceStep ==
    ASSUME RouteInv, NEW c \in AuthCalls, AsksSource(c) \/ SourceVerified(c) \/ SourceValidated(c)
    PROVE  Row(c)
<1>1. /\ asked[c].at \in {"ARRIVED", "VERIFYING", "HELD"} /\ asked[c].route = "RECOGNITION"
      /\ asked[c] \in RouteRequests /\ Mine(c)
  BY AtRequest DEF AsksSource, SourceVerified, SourceValidated, SourceMoves, IsAt, Validating
<1>2. ASSUME NEW at \in {"VERIFYING", "HELD"}, Moves(c, at), UNCHANGED authVars
      PROVE  Row(c)
  <2>. DEFINE r == [asked[c] EXCEPT !.at = at]
  <2>1. /\ asked'[c] = r /\ DOMAIN asked' = AuthCalls /\ witnessed' = witnessed
        /\ \A d \in AuthCalls \ {c} : asked'[d] = asked[d]
    BY <1>2 DEF Moves, RouteInv
  <2>2. /\ r \in RouteRequests /\ r.at = at /\ r.effect = asked[c].effect
        /\ r.error = asked[c].error /\ r.route = "RECOGNITION"
    BY <1>1 DEF RouteRequests, Validating
  <2>3. CallerOK(r, witnessed[c], calls[c], principals[c])
    BY <1>1, <2>2 DEF CallerOK, Typed, Witnessed, Truthful, Validating, Mine, HumanRoutes,
         ManagementRoutes
  <2>4. Replied(c)
    BY <2>1, <2>2 DEF Replied, IsAt
  <2>. QED  BY <1>2, <2>1, <2>3, <2>4 DEF Row, RouteInv, authVars
<1>3. ASSUME asked[c].at = "HELD", Claims(c)  PROVE Row(c)
  BY <1>1, <1>3, ClaimRow DEF CurrentActor, ManagementRoutes
<1>4. ASSUME NEW code \in {"AUTH_UNAVAILABLE", "AUTHENTICATION_FAILED", "INVALID_REQUEST"},
             Refuses(c, code)
      PROVE  Row(c)
  <2>. code \in RouteCodes /\ code \notin {"DONE", "EXPIRED"} /\ asked[c].at \in Validating
    BY <1>1 DEF Validating, RouteCodes
  <2>. QED  BY <1>4, RefuseRow
<1>. QED  BY <1>2, <1>3, <1>4 DEF AsksSource, SourceVerified, SourceValidated, SourceMoves, IsAt

-----------------------------------------------------------------------------
(* Work.                                                                     *)

\* A step of a use case changes some fields of its request.
LEMMA BecomesStep ==
    ASSUME RouteInv, NEW c \in AuthCalls, asked[c].at \in {"READING"},
           NEW at \in {"STAGING", "EXPIRING", "CLOSING"}, NEW error \in RouteErrors,
           Becomes(c, at, TRUE, error),
           asked[c].route \in Writers,
           at = "EXPIRING" => asked[c].route \in ManagementRoutes,
           at = "CLOSING" => \/ error = "REFUSED" /\ asked[c].route \in ManagementRoutes
                             \/ error = "FAILED",
           at # "CLOSING" => error = "NONE"
    PROVE  Row(c)
<1>. DEFINE r == [asked[c] EXCEPT !.at = at, !.open = TRUE, !.error = error]
<1>1. asked[c] \in RouteRequests /\ Truthful(asked[c])
  BY AtRequest DEF AtWork, Mine, CallerOK
<1>2. /\ r \in RouteRequests /\ r.at = at /\ r.effect = asked[c].effect /\ r.open = TRUE
      /\ r.error = error /\ r.route = asked[c].route
  BY <1>1 DEF RouteRequests, AtWork
<1>3. Truthful(r) /\ r.at \in AtWork
  BY <1>1, <1>2 DEF Truthful, Validating, AtWork
<1>4. asked' = [asked EXCEPT ![c] = r] /\ UNCHANGED authVars /\ UNCHANGED witnessed
  BY DEF Becomes
<1>. HIDE DEF r
<1>. QED  BY <1>2, <1>3, <1>4, WorkRow

LEMMA BeginsStep ==
    ASSUME RouteInv, NEW c \in AuthCalls, asked[c].at = "CLAIMED",
           NEW at \in {"READING", "STAGING", "CLOSING"}, NEW received \in Seconds,
           NEW open \in BOOLEAN, NEW error \in {"NONE", "REFUSED"},
           Begins(c, at, received, open, error),
           at = "READING" => error = "NONE",
           at = "STAGING" => error = "NONE" /\ asked[c].route \in Writers,
           at = "CLOSING" => error = "REFUSED" /\ asked[c].route \in ManagementRoutes
    PROVE  Row(c)
<1>. DEFINE r == [asked[c] EXCEPT !.at = at, !.received = received, !.open = open,
                                  !.error = error]
<1>1. asked[c] \in RouteRequests /\ Truthful(asked[c])
  BY AtRequest DEF Mine, CallerOK
<1>2. /\ r \in RouteRequests /\ r.at = at /\ r.effect = asked[c].effect /\ r.open = open
      /\ r.error = error /\ r.route = asked[c].route
  BY <1>1 DEF RouteRequests, AtWork, RouteErrors
<1>3. Truthful(r) /\ r.at \in AtWork
  BY <1>1, <1>2 DEF Truthful, Validating, AtWork, Writers
<1>4. asked' = [asked EXCEPT ![c] = r] /\ UNCHANGED authVars /\ UNCHANGED witnessed
  BY DEF Begins
<1>. HIDE DEF r
<1>. QED  BY <1>2, <1>3, <1>4, WorkRow

\* The end of the work on a request: what it wrote, and the error it ends with.
LEMMA StagesStep ==
    ASSUME RouteInv, NEW c \in AuthCalls, asked[c].at \in {"STAGING", "EXPIRING"},
           NEW effect \in RouteEffects, NEW error \in RouteErrors, Stages(c, effect, error),
           error = "NONE" => effect = "CHANGED" /\ asked[c].route \in ManagementRoutes,
           error = "EXPIRED" => effect = "EXPIRED" /\ asked[c].route \in ManagementRoutes,
           error = "REFUSED" => effect = "NONE" /\ asked[c].route \in ManagementRoutes,
           error # "CONFLICT"
    PROVE  Row(c)
<1>. DEFINE r == [asked[c] EXCEPT !.at = "CLOSING", !.open = FALSE, !.effect = effect,
                                  !.error = error]
<1>1. asked[c] \in RouteRequests /\ Truthful(asked[c])
  BY AtRequest DEF Mine, CallerOK, AtWork
<1>2. /\ r \in RouteRequests /\ r.at = "CLOSING" /\ r.effect = effect /\ r.open = FALSE
      /\ r.error = error /\ r.route = asked[c].route
  BY <1>1 DEF RouteRequests, AtWork
<1>3. asked[c].route \in Writers
  BY <1>1 DEF Truthful, Writers
<1>4. Truthful(r) /\ r.at \in AtWork
  BY <1>2, <1>3 DEF Truthful, Validating, AtWork, ManagementRoutes
<1>5. asked' = [asked EXCEPT ![c] = r] /\ UNCHANGED authVars /\ UNCHANGED witnessed
  BY DEF Stages
<1>. HIDE DEF r
<1>. QED  BY <1>2, <1>4, <1>5, WorkRow

LEMMA StagesEventStep ==
    ASSUME RouteInv, NEW c \in AuthCalls, asked[c].at = "STAGING",
           asked[c].route = "RECOGNITION", NEW kind \in Kinds,
           NEW event \in RouteEvents \cup {NoInstant},
           NEW effect \in RouteEffects, NEW error \in {"NONE", "CONFLICT"},
           StagesEvent(c, kind, event, effect, error),
           error = "NONE" => \/ effect = "EARLIER"
                             \/ /\ effect = "CHANGED" /\ EventIsSound(event)
                                /\ event.kind = kind /\ event.receivedAt = asked[c].received,
           error = "CONFLICT" => effect = "NONE"
    PROVE  Row(c)
<1>. DEFINE r == [asked[c] EXCEPT !.at = "CLOSING", !.open = FALSE, !.kind = kind,
                                  !.event = event, !.effect = effect, !.error = error]
<1>1. asked[c] \in RouteRequests
  BY AtRequest DEF AtWork
<1>2. /\ r \in RouteRequests /\ r.at = "CLOSING" /\ r.effect = effect /\ r.open = FALSE
      /\ r.error = error /\ r.route = "RECOGNITION" /\ r.kind = kind /\ r.event = event
      /\ r.received = asked[c].received
  BY <1>1 DEF RouteRequests, AtWork, RouteErrors
<1>3. Truthful(r) /\ r.at \in AtWork
  BY <1>2 DEF Truthful, Validating, AtWork, Writers, Presentable
<1>4. asked' = [asked EXCEPT ![c] = r] /\ UNCHANGED authVars /\ UNCHANGED witnessed
  BY DEF StagesEvent
<1>. HIDE DEF r
<1>. QED  BY <1>2, <1>3, <1>4, WorkRow

LEMMA BeginStep ==
    ASSUME RouteInv, NEW c \in AuthCalls, BeginsFrozen(c) \/ BeginsCreate(c) \/ BeginsReading(c)
    PROVE  Row(c)
<1>. 0 \in Seconds
  BY AuthAssumption DEF Seconds
<1>1. asked[c].at = "CLAIMED"
  BY DEF BeginsFrozen, BeginsCreate, BeginsReading, MayBegin, IsAt
<1>2. CASE BeginsFrozen(c)
  <2>1. TrueReply(asked[c],
           [at |-> "ANSWERED", disposition |-> "UNKNOWN_EFFECT", told |-> "UNCONFIRMED"])
    BY <1>1, AtRequest DEF TrueReply, Mine, CallerOK, Truthful
  <2>2. "UNKNOWN_EFFECT" \in Dispositions /\ "UNCONFIRMED" \in RouteCodes
    BY DEF Dispositions, RouteCodes
  <2>. QED  BY <1>2, <2>1, <2>2, AnswerRow DEF BeginsFrozen, Forget
<1>3. CASE BeginsCreate(c)
  <2>1. asked[c].route \in ManagementRoutes /\ asked[c].route \in Writers
    BY <1>3 DEF BeginsCreate, MayBegin, ManagementRoutes, Writers
  <2>2. Begins(c, "CLOSING", 0, FALSE, "REFUSED") \/ Begins(c, "STAGING", 0, FALSE, "NONE")
    BY <1>3 DEF BeginsCreate
  <2>. QED  BY <1>1, <2>1, <2>2, BeginsStep
<1>4. CASE BeginsReading(c)
  <2>1. PICK at \in Seconds : Begins(c, "READING", at, asked[c].route # "QUERY", "NONE")
    BY <1>4 DEF BeginsReading
  <2>. QED  BY <1>1, <2>1, BeginsStep
<1>. QED  BY <1>2, <1>3, <1>4

LEMMA ReadStep ==
    ASSUME RouteInv, NEW c \in AuthCalls,
           ReadsManaged(c) \/ ReadsRecognized(c) \/ ReadFails(c)
    PROVE  Row(c)
<1>1. asked[c].at = "READING" /\ asked[c].route \in Writers
  BY DEF ReadsManaged, ReadsRecognized, ReadFails, IsAt, Writers
<1>2. CASE ReadsManaged(c)
  <2>1. asked[c].route \in ManagementRoutes
    BY <1>2 DEF ReadsManaged
  <2>2. \/ Becomes(c, "CLOSING", TRUE, "REFUSED") \/ Becomes(c, "STAGING", TRUE, "NONE")
        \/ Becomes(c, "EXPIRING", TRUE, "NONE")
    BY <1>2 DEF ReadsManaged
  <2>. QED  BY <1>1, <2>1, <2>2, BecomesStep DEF RouteErrors
<1>3. CASE ReadsRecognized(c) \/ ReadFails(c)
  <2>1. Becomes(c, "STAGING", TRUE, "NONE") \/ Becomes(c, "CLOSING", TRUE, "FAILED")
    BY <1>3 DEF ReadsRecognized, ReadFails
  <2>. QED  BY <1>1, <2>1, BecomesStep DEF RouteErrors
<1>. QED  BY <1>2, <1>3

LEMMA StageStep ==
    ASSUME RouteInv, NEW c \in AuthCalls,
           \/ StageCommits(c) \/ StageRecognized(c) \/ StageExpires(c) \/ StageRefused(c)
           \/ StageReplays(c)
    PROVE  Row(c)
<1>. USE DEF IsAt
<1>1. CASE StageCommits(c)
  <2>1. PICK error \in {"NONE", "FAILED"} : Stages(c, "CHANGED", error)
    BY <1>1 DEF StageCommits
  <2>. QED  BY <1>1, <2>1, StagesStep DEF StageCommits, RouteErrors, RouteEffects
<1>2. CASE StageExpires(c)
  <2>1. PICK error \in {"EXPIRED", "FAILED"} : Stages(c, "EXPIRED", error)
    BY <1>2 DEF StageExpires
  <2>2. asked[c].at = "EXPIRING" /\ asked[c].route \in ManagementRoutes
    BY <1>2, AtRequest DEF StageExpires, AtWork, Mine, CallerOK, Truthful
  <2>. QED  BY <2>1, <2>2, StagesStep DEF RouteErrors, RouteEffects
<1>3. CASE StageRefused(c)
  <2>1. PICK error \in {"REFUSED", "FAILED"} :
          /\ error = "REFUSED" => IsAt(c, "STAGING") /\ asked[c].route \in {"CREATE", "UPDATE"}
          /\ Stages(c, "NONE", error)
    BY <1>3 DEF StageRefused
  <2>. QED  BY <1>3, <2>1, StagesStep DEF StageRefused, RouteErrors, RouteEffects, ManagementRoutes
<1>4. CASE StageRecognized(c)
  <2>1. PICK kind \in Kinds, direction \in {"ENTRY", "EXIT"}, active \in BOOLEAN,
             resolved \in BOOLEAN :
          LET at == asked[c].received
              decision == Decides(kind, direction, active, resolved, at)
          IN  /\ resolved => active /\ kind # "FACE_UNKNOWN"
              /\ \/ StagesEvent(c, kind, Event(kind, direction, at, resolved, decision),
                                "CHANGED", "NONE")
                 \/ Stages(c, "CHANGED", "FAILED")
    BY <1>4 DEF StageRecognized
  <2>. DEFINE at == asked[c].received
              decision == Decides(kind, direction, active, resolved, at)
              e == Event(kind, direction, at, resolved, decision)
  <2>2. asked[c].at = "STAGING" /\ asked[c].route = "RECOGNITION" /\ at \in Seconds
    BY <1>4, AtRequest DEF StageRecognized, AtWork, RouteRequests
  <2>3. e \in RouteEvents /\ EventIsSound(e) /\ e.kind = kind /\ e.receivedAt = at
    BY <2>1, <2>2, DecidedIsSound
  <2>4. CASE StagesEvent(c, kind, e, "CHANGED", "NONE")
    <3>. HIDE DEF e
    <3>. QED  BY <2>2, <2>3, <2>4, StagesEventStep DEF RouteEffects
  <2>5. CASE Stages(c, "CHANGED", "FAILED")
    BY <2>2, <2>5, StagesStep DEF RouteErrors, RouteEffects
  <2>. QED  BY <2>1, <2>4, <2>5
<1>5. CASE StageReplays(c)
  <2>1. asked[c].at = "STAGING" /\ asked[c].route = "RECOGNITION"
    BY <1>5 DEF StageReplays
  <2>2. PICK kind \in Kinds, stored \in Kinds, at \in Seconds :
          \/ kind = stored /\ StagesEvent(c, kind, Earlier(stored, at), "EARLIER", "NONE")
          \/ kind # stored /\ StagesEvent(c, kind, NoInstant, "NONE", "CONFLICT")
    BY <1>5 DEF StageReplays
  <2>3. Earlier(stored, at) \in RouteEvents
    BY EarlierIsEvent
  <2>. QED  BY <2>1, <2>2, <2>3, StagesEventStep DEF RouteEffects
<1>. QED  BY <1>1, <1>2, <1>3, <1>4, <1>5

\* The answer is true of what was written.
LEMMA ConcludeStep ==
    ASSUME RouteInv, NEW c \in AuthCalls, Concludes(c) \/ QueryAnswers(c)
    PROVE  Row(c)
<1>1. CASE Concludes(c)
  <2>1. /\ asked[c] \in RouteRequests /\ Truthful(asked[c]) /\ asked[c].at = "CLOSING"
        /\ asked[c].route \in Writers
    BY <1>1, AtRequest DEF Concludes, IsAt, AtWork, Mine, CallerOK, Truthful
  <2>2. PICK error \in {asked[c].error} \cup (IF asked[c].open THEN {"FAILED"} ELSE {}) :
          LET verdict == IF asked[c].route = "RECOGNITION"
                         THEN Mapped([asked[c] EXCEPT !.error = error])
                         ELSE Classified(error)
          IN  Forget(c) /\ AnswersWith(c, verdict[1], verdict[2])
    BY <1>1 DEF Concludes
  <2>. DEFINE r == [asked[c] EXCEPT !.error = error]
              verdict == IF asked[c].route = "RECOGNITION" THEN Mapped(r)
                         ELSE Classified(error)
  <2>3. /\ r.error = error /\ r.event = asked[c].event /\ r.kind = asked[c].kind
        /\ r.received = asked[c].received
    BY <2>1 DEF RouteRequests
  <2>4. error \in RouteErrors /\ (error # asked[c].error => error = "FAILED" /\ asked[c].open)
    BY <2>1, <2>2 DEF RouteErrors, RouteRequests
  <2>5. verdict[1] \in Dispositions /\ verdict[2] \in RouteCodes
    BY <2>4 DEF Mapped, Classified, Dispositions, RouteCodes, RouteErrors
  <2>6. TrueReply(asked[c], [at |-> "ANSWERED", disposition |-> verdict[1], told |-> verdict[2]])
    <3>1. CASE asked[c].route = "RECOGNITION"
      <4>1. Presentable(r.event, r) <=> Presentable(asked[c].event, asked[c])
        BY <2>3 DEF Presentable
      <4>. HIDE DEF r
      <4>. QED  BY <2>1, <2>3, <2>4, <3>1, <4>1 DEF Mapped, TrueReply, Truthful, RouteErrors,
                  ManagementRoutes
    <3>2. CASE asked[c].route # "RECOGNITION"
      BY <2>1, <2>4, <3>2 DEF Classified, TrueReply, Truthful, RouteErrors
    <3>. QED  BY <3>1, <3>2
  <2>. HIDE DEF verdict
  <2>7. Forget(c) /\ AnswersWith(c, verdict[1], verdict[2])
    BY <2>2 DEF verdict
  <2>. QED  BY <2>5, <2>6, <2>7, AnswerRow DEF Forget
<1>2. CASE QueryAnswers(c)
  <2>1. asked[c].effect = "NONE" /\ asked[c].route = "QUERY"
    BY <1>2, AtRequest DEF QueryAnswers, IsAt, AtWork, Mine, CallerOK, Truthful
  <2>2. PICK told \in {"DONE", "RESOURCE_NOT_FOUND", "PERSISTENCE_UNAVAILABLE"} :
          Forget(c) /\ AnswersWith(c, "NONE", told)
    BY <1>2 DEF QueryAnswers
  <2>3. told \in RouteCodes /\ "NONE" \in Dispositions
    BY DEF RouteCodes, Dispositions
  <2>4. TrueReply(asked[c], [at |-> "ANSWERED", disposition |-> "NONE", told |-> told])
    BY <2>1, <2>2 DEF TrueReply, Writers, ManagementRoutes
  <2>. QED  BY <2>2, <2>3, <2>4, AnswerRow DEF Forget
<1>. QED  BY <1>1, <1>2

-----------------------------------------------------------------------------
(* The whole.                                                                *)

CallerStep(c) ==
    \/ LogsIn(c) \/ Arrive(c)
    \/ Malformed(c) \/ Verified(c) \/ NotVerified(c) \/ Validated(c)
    \/ \E token \in tokens : Asks(c, token) \/ AskRefused(c, token)
    \/ StatusRead(c) /\ UNCHANGED workVars
    \/ AsksSource(c) \/ SourceVerified(c) \/ SourceValidated(c)
    \/ BeginsFrozen(c) \/ BeginsCreate(c) \/ BeginsReading(c)
    \/ ReadsManaged(c) \/ ReadsRecognized(c) \/ ReadFails(c)
    \/ StageCommits(c) \/ StageRecognized(c) \/ StageExpires(c) \/ StageRefused(c)
    \/ StageReplays(c)
    \/ Concludes(c) \/ QueryAnswers(c)

LEMMA CallerSteps ==
    ASSUME RouteInv, NEW c \in AuthCalls, CallerStep(c)
    PROVE  Row(c)
<1>1. CASE Malformed(c) \/ \E token \in tokens : AskRefused(c, token)
  <2>1. PICK code \in {"INVALID_REQUEST", "AUTH_UNAVAILABLE", "AUTHENTICATION_FAILED"} :
          Refuses(c, code)
    BY <1>1 DEF Malformed, AskRefused
  <2>2. asked[c].at \in Validating
    BY <1>1 DEF Malformed, AskRefused, Human, IsAt, Validating
  <2>3. code \in RouteCodes /\ code \notin {"DONE", "EXPIRED"}
    BY DEF RouteCodes
  <2>. QED  BY <2>1, <2>2, <2>3, RefuseRow
<1>. QED  BY <1>1, LoginStep, ArriveStep, VerifiedStep, NotVerifiedStep, ValidatedStep, AsksStep,
             StatusReadStep, SourceStep, BeginStep, ReadStep, StageStep, ConcludeStep
          DEF CallerStep

\* A step of one caller keeps the invariant of all.
LEMMA RowKeeps ==
    ASSUME RouteInv, NEW c \in AuthCalls, Row(c)
    PROVE  RouteInv' /\ \A d \in AuthCalls : Replied(d)
<1>1. \A a : Facts(a)' = Facts(a)
  BY DEF Facts, Row
<1>2. ASSUME NEW d \in AuthCalls
      PROVE  CallerOK(asked[d], witnessed[d], calls[d], principals[d])'
  BY <1>1 DEF RouteInv, Row, CallerOK, Typed, Witnessed, Truthful
<1>3. \A d \in AuthCalls \ {c} : Replied(d)
  BY DEF Row, Replied, IsAt
<1>. QED  BY <1>2, <1>3 DEF RouteInv, Row

LEMMA AccountsKeep ==
    ASSUME RouteInv, AccountsChange
    PROVE  RouteInv' /\ \A d \in AuthCalls : Replied(d)
<1>1. PICK a \in Accounts : ManageAccount(a)
  BY DEF AccountsChange
<1>2. /\ enabled' \subseteq Accounts /\ roles' \in [Accounts -> Roles]
      /\ UNCHANGED <<calls, tokens, principals, asked>>
  BY <1>1 DEF ManageAccount, RouteInv, AccountsChange
<1>3. \A b \in Accounts : Facts(b)' \subseteq People
  BY <1>2 DEF Facts, People
<1>4. ASSUME NEW c \in AuthCalls
      PROVE  CallerOK(asked[c], witnessed[c], calls[c], principals[c])'
  <2>. DEFINE new == UNION {Facts(b)' : b \in Accounts}
  <2>1. /\ witnessed'[c] \subseteq People
        /\ asked[c].at \in Validating =>
             witnessed[c] \subseteq witnessed'[c] /\ new \subseteq witnessed'[c]
    BY <1>3 DEF AccountsChange, RouteInv, CallerOK, Typed
  <2>2. Typed(asked[c], witnessed[c], calls[c], principals[c])'
    BY <1>2, <2>1 DEF RouteInv, CallerOK, Typed
  <2>3. Witnessed(asked[c], witnessed[c], calls[c], principals[c])'
    <3>1. Witnessed(asked[c], witnessed[c], calls[c], principals[c])
      BY DEF RouteInv, CallerOK
    <3>2. SUFFICES ASSUME asked[c].at \in Validating
                   PROVE  Witnessed(asked[c], witnessed[c], calls[c], principals[c])'
      BY <1>2 DEF Witnessed
    <3>. QED  BY <1>2, <2>1, <3>1, <3>2 DEF Witnessed
  <2>4. Truthful(asked[c])'
    BY <1>2 DEF RouteInv, CallerOK, Truthful, Presentable, EventIsSound
  <2>. QED  BY <2>2, <2>3, <2>4 DEF CallerOK
<1>5. \A c \in AuthCalls : Replied(c)
  BY <1>2 DEF Replied, IsAt
<1>. QED  BY <1>2, <1>4, <1>5 DEF RouteInv, AccountsChange

LEMMA RouteInitially == RouteInit => RouteInv
<1>. SUFFICES ASSUME RouteInit PROVE RouteInv
  OBVIOUS
<1>1. \A c \in AuthCalls : CallerOK(NoneYet, {}, NoCall, NoPrincipal)
  BY DEF CallerOK, Typed, Witnessed, Truthful, NoneYet, RouteCalls, Validating
<1>. QED  BY <1>1 DEF RouteInit, AuthInit, RouteInv, Roles

LEMMA RouteKeeps ==
    ASSUME RouteInv, [RouteNext]_routeVars
    PROVE  RouteInv' /\ [\A c \in AuthCalls : Replied(c)]_routeVars
<1>1. CASE \E c \in AuthCalls : CallerStep(c)
  BY <1>1, CallerSteps, RowKeeps
<1>2. CASE AccountsChange
  BY <1>2, AccountsKeep
<1>3. CASE UNCHANGED <<enabled, roles, calls, tokens, principals, asked, witnessed>>
  <2>1. \A a : Facts(a)' = Facts(a)
    BY <1>3 DEF Facts
  <2>. QED  BY <1>3, <2>1 DEF RouteInv, CallerOK, Typed, Witnessed, Truthful, Replied, IsAt
<1>. QED  BY <1>1, <1>2, <1>3 DEF RouteNext, CallerStep, Freeze, FreezeSource, workVars,
             routeVars, authVars

\* Whoever is let to work was what it takes at some instant since the request
\* came, and every reply is true of what was written, for any number of
\* callers, accounts and requests and any order of their awaits.
THEOREM RepliesHold == RouteSpec => RepliesAreTrue
<1>1. ASSUME RouteInv, [RouteNext]_routeVars
      PROVE  [\A c \in AuthCalls :
                /\ ~IsAt(c, "CLAIMED") /\ IsAt(c, "CLAIMED")' =>
                     CurrentActor(asked[c].route, witnessed[c])
                /\ ~IsAt(c, "ANSWERED") /\ IsAt(c, "ANSWERED")' =>
                     TrueReply(asked[c], asked'[c])]_routeVars
  BY <1>1, RouteKeeps DEF Replied
<1>2. ASSUME RouteInv, [RouteNext]_routeVars PROVE RouteInv'
  BY <1>2, RouteKeeps
<1>. QED  BY <1>1, <1>2, RouteInitially, PTL DEF RouteSpec, RepliesAreTrue
=============================================================================
