----------------------------- MODULE ResultImage -----------------------------
(* How a commit without an answer is recognised later (G10c).  Before it     *)
(* commits, an attached transaction reads back what it wrote and leaves this *)
(* image with the hand-off; a management change also inserts a receipt, under *)
(* an id nobody else uses.  The recovery then reads the stored documents in  *)
(* one snapshot, by the event's key or the receipt's id, and takes the       *)
(* commit for applied when what it reads is the image.  The transactions and *)
(* everything that runs beside them are AccessPersistence's.                 *)
EXTENDS AccessPersistence

-----------------------------------------------------------------------------
(* What a reader makes of the documents.  Unreadable: the reader throws.     *)

Unreadable == [unreadable |-> TRUE]

ASSUME ImageAssumption == None # Unreadable

QualificationView(docs, q) ==
  IF ~Present(docs, q) \/ LegalQualification(docs[q]) THEN docs[q]
  ELSE Unreadable

\* A qualification has at most one slot, which carries its own identity.
MappingView(docs, q) ==
  IF BoundSlots(docs, q) = {} THEN None
  ELSE IF \E s, t \in BoundSlots(docs, q) : s # t THEN Unreadable
  ELSE LET s == CHOOSE t \in BoundSlots(docs, q) : TRUE
       IN  [slot |-> s, of |-> q, version |-> docs[s].version]

GuardVersions(docs) == [qr |-> docs[System].qr, face |-> docs[System].face]

\* The stored event without the credential's digest.
EventView(docs, key) ==
  LET event == docs[key]
  IN  [source |-> key[1], direction |-> docs[key[1]].direction,
       kind |-> event.credential.media, outcome |-> event.outcome,
       reason |-> event.reason, receivedAt |-> event.receivedAt,
       qualification |-> event.qualification, to |-> event.to]

View(docs, q) ==
  IF q = None THEN [qualification |-> None, mapping |-> None]
  ELSE [qualification |-> QualificationView(docs, q),
        mapping |-> MappingView(docs, q)]

Readable(view) == Unreadable \notin {view.qualification, view.mapping}

-----------------------------------------------------------------------------
(* The image, read back inside the transaction just before its commit.       *)

\* Only what was written has an image: the replay of a stored event has none.
Imaged(s) == Writes(s) # {}

Recognizes(s) == request[s].input.kind = "RECOGNIZE"

\* The transaction sees its own writes.
Seen(s) == image[s]

\* Mutant of ExpectedGuards: the guards are read before they are bumped.
ExpectedGuardsBefore(s) == GuardVersions(snapshot[s])
ExpectedGuards(s) == GuardVersions(Seen(s))

ExpectedRecognition(s) ==
  LET key == KeyOf(request[s].input)
  IN  [key |-> key, event |-> EventView(Seen(s), key),
       view |-> View(Seen(s), Seen(s)[key].qualification),
       guards |-> ExpectedGuards(s)]

\* A refused change that expires its qualification leaves EXPIRE.
Receipt(s) ==
  LET q == request[s].input.qualification
  IN  [operation |-> IF Seen(s)[q].expiredAt # None THEN "EXPIRE"
                     ELSE request[s].input.kind,
       qualification |-> q, version |-> Seen(s)[q].version]

ExpectedManagement(s) ==
  [receipt |-> Receipt(s),
   view |-> View(Seen(s), Receipt(s).qualification),
   guards |-> ExpectedGuards(s)]

\* The seam that keeps the image refuses a malformed one, and the write fails.
RecognitionImageAccepted(expected) ==
  /\ expected.key \in EventKeys /\ expected.event.reason \in Reasons
  /\ expected.guards.qr \in Nat /\ expected.guards.face \in Nat

ManagementImageAccepted(expected) ==
  /\ expected.view.qualification \in Qualifications
  /\ expected.guards.qr \in Nat /\ expected.guards.face \in Nat
  /\ expected.view.mapping # None =>
       /\ expected.view.mapping.version \in Nat
       /\ expected.view.mapping.of = expected.receipt.qualification

-----------------------------------------------------------------------------
(* The canonical read, of what is stored.                                    *)

CanonicalSnapshot(docs, key) ==
  [event |-> EventView(docs, key), view |-> View(docs, docs[key].qualification),
   guards |-> GuardVersions(docs)]

\* The receipt says which version of the qualification to look for.
AtVersion(docs, receipt) ==
  /\ Present(docs, receipt.qualification)
  /\ docs[receipt.qualification].version = receipt.version

ManagementSnapshot(docs, receipt) ==
  [receipt |-> receipt, view |-> View(docs, receipt.qualification),
   guards |-> GuardVersions(docs)]

SameQualification(left, right) ==
  IF None \in {left, right} THEN left = right
  ELSE \A field \in DOMAIN left : left[field] = right[field]

SameMapping(left, right) ==
  IF None \in {left, right} THEN left = right
  ELSE /\ left.of = right.of /\ left.slot = right.slot
       /\ left.version = right.version

SameView(left, right) ==
  /\ SameQualification(left.qualification, right.qualification)
  /\ SameMapping(left.mapping, right.mapping)

MatchesRecognition(found, expected) ==
  /\ found.event = expected.event
  /\ SameView(found.view, expected.view)
  /\ found.guards = expected.guards

MatchesManagement(found, expected) ==
  /\ found.receipt = expected.receipt
  /\ SameView(found.view, expected.view)
  /\ found.guards = expected.guards

\* What a read of docs, which hold the receipt or do not, says of s's commit.
\* A reader that throws confirms nothing, like one that finds something else.
ConfirmsRecognition(docs, s) ==
  LET key == KeyOf(request[s].input)
      found == CanonicalSnapshot(docs, key)
  IN  /\ Present(docs, key)
      /\ Readable(found.view) /\ MatchesRecognition(found, ExpectedRecognition(s))

ConfirmsManagement(docs, applied, s) ==
  LET found == ManagementSnapshot(docs, Receipt(s))
  IN  /\ applied /\ AtVersion(docs, Receipt(s))
      /\ Readable(found.view) /\ MatchesManagement(found, ExpectedManagement(s))

Confirms(docs, applied, s) ==
  IF Recognizes(s) THEN ConfirmsRecognition(docs, s)
  ELSE ConfirmsManagement(docs, applied, s)

-----------------------------------------------------------------------------
(* Properties.                                                               *)

\* The image tells a commit that was applied from one that was not.  As long
\* as a commit is in doubt a read does not confirm it, whatever other scopes
\* stored meanwhile, the same event id included; and once it is applied on
\* what its transaction read, the read confirms it, for every operation: had
\* the image been captured in another order than the writes, or compared what
\* a reader redacts, the recovery would never confirm and the writer stay
\* blocked (prepareG10cRecognitionExpectedImage, confirmG10c...Result).
ReadsTellCommits ==
  \A s \in Scopes : Imaged(s) =>
    /\ IF Recognizes(s)
       THEN RecognitionImageAccepted(ExpectedRecognition(s))
       ELSE ManagementImageAccepted(ExpectedManagement(s))
    /\ ~Confirms(db, FALSE, s)
    /\ db = snapshot[s] => Confirms(Applied(s), TRUE, s)
=============================================================================
