-------------------------- MODULE AccessPersistence --------------------------
(* Access scopes over MongoDB (G04bMongoPersistenceAdapter): each request    *)
(* opens a scope, the scope's first read opens one transaction with a        *)
(* snapshot, and everything the use case reads until it stages comes from    *)
(* that snapshot, whatever others commit meanwhile.  Staging writes the      *)
(* decision and the guards, and a write to a document that somebody else     *)
(* committed since the snapshot, or holds written and uncommitted, fails     *)
(* the transaction at once.  A commit may be applied, refused, or left       *)
(* without an answer, to be applied later or never; the process may stop at  *)
(* any moment; clients repeat requests under the event id they chose.        *)
EXTENDS AccessRules

CONSTANTS
  Scopes,                   \* scopes that may be open at once
  MaxRequests               \* bound: requests submitted in a behaviour

ASSUME ScopesAssumption == MaxRequests \in Nat

VARIABLES
  db,          \* the committed documents
  phase,       \* [Scopes -> Phases]
  request,     \* [Scopes -> the input and its receivedAt, or None]
  snapshot,    \* [Scopes -> the documents the transaction reads, or None]
  image,       \* [Scopes -> the documents its writes make of them, or None]
  answer,      \* [Scopes -> what the client is, or is to be, told, or None]
  submitted    \* requests so far (bounds the model)

vars == <<db, phase, request, snapshot, image, answer, submitted>>

\* canonical: a recognition lost a conflict and looks for the stored event.
\* indoubt: the commit was sent, the client was told UNKNOWN, and the server
\* has yet to apply or drop it.  done: the client was told a stored event, or
\* that its event id is taken; other answers leave the scope idle.
Phases == {"idle", "open", "staged", "canonical", "indoubt", "done"}

Answer(status, detail) == [status |-> status, detail |-> detail]

-----------------------------------------------------------------------------
(* Transactions.                                                             *)

Writes(s) == IF phase[s] \in {"staged", "indoubt"}
             THEN {d \in Docs : image[s][d] # snapshot[s][d]} ELSE {}

\* Mutant of WriteConflict: what was committed since the snapshot is missed.
WriteConflictUncommitted(s, after) ==
  \E d \in Docs : /\ after[d] # snapshot[s][d]
                  /\ \E t \in Scopes \ {s} : d \in Writes(t)

\* WiredTiger refuses a write to a document changed since the snapshot or
\* written by a transaction that is not over.
WriteConflict(s, after) ==
  \E d \in Docs :
    /\ after[d] # snapshot[s][d]
    /\ \/ db[d] # snapshot[s][d]
       \/ \E t \in Scopes \ {s} : d \in Writes(t)

Applied(s) == [d \in Docs |-> IF d \in Writes(s) THEN image[s][d] ELSE db[d]]

\* The scope ends: its transaction is gone, its client has its answer.
End(s, result) ==
  LET kept == result.status \in {"COMMITTED", "REPLAYED", "CONFLICT"}
  IN  /\ phase' = [phase EXCEPT ![s] = IF kept THEN "done" ELSE "idle"]
      /\ request' = [request EXCEPT ![s] = IF kept THEN @ ELSE None]
      /\ snapshot' = [snapshot EXCEPT ![s] = None]
      /\ image' = [image EXCEPT ![s] = None]
      /\ answer' = [answer EXCEPT ![s] = IF kept THEN result ELSE None]

\* A conflict ends a management change; a recognition then looks for the
\* event its competitor may have stored, outside the transaction.
Lose(s) ==
  IF request[s].input.kind = "RECOGNIZE"
  THEN /\ phase' = [phase EXCEPT ![s] = "canonical"]
       /\ snapshot' = [snapshot EXCEPT ![s] = None]
       /\ image' = [image EXCEPT ![s] = None]
       /\ UNCHANGED <<request, answer>>
  ELSE End(s, Answer("FAILED", "WRITE_CONFLICT"))

-----------------------------------------------------------------------------
Init ==
  /\ db \in InitialDocs
  /\ phase = [s \in Scopes |-> "idle"]
  /\ request = [s \in Scopes |-> None]
  /\ snapshot = [s \in Scopes |-> None]
  /\ image = [s \in Scopes |-> None]
  /\ answer = [s \in Scopes |-> None]
  /\ submitted = 0

Creating(q) ==
  \E s \in Scopes : /\ phase[s] \notin {"idle", "done"}
                    /\ request[s].input.kind = "CREATE"
                    /\ request[s].input.qualification = q

\* A request opens a scope, and the scope's first read begins its
\* transaction.  receivedAt was stamped when the request was admitted, by a
\* clock that may be stepped, so it tells nothing of the order of the scopes.
Open(s, r, at) ==
  /\ phase[s] \in {"idle", "done"}
  /\ submitted < MaxRequests
  /\ Possible(db, r)
  /\ r.kind = "CREATE" => ~Creating(r.qualification)
  /\ submitted' = submitted + 1
  /\ phase' = [phase EXCEPT ![s] = "open"]
  /\ request' = [request EXCEPT ![s] = [input |-> r, at |-> at]]
  /\ snapshot' = [snapshot EXCEPT ![s] = db]
  /\ answer' = [answer EXCEPT ![s] = None]
  /\ UNCHANGED <<db, image>>

\* The use case decides on its snapshot and stages: its writes are made, or
\* there are none (a replay) and only the commit is left.
Stage(s) ==
  /\ phase[s] = "open"
  /\ \E effect \in Effects(snapshot[s], request[s].input, request[s].at) :
       /\ effect.status \notin {"REFUSED", "FAILED"}
       /\ ~WriteConflict(s, effect.docs)
       /\ image' = [image EXCEPT ![s] = effect.docs]
       /\ answer' = [answer EXCEPT ![s] = Answer(effect.status, effect.detail)]
  /\ phase' = [phase EXCEPT ![s] = "staged"]
  /\ UNCHANGED <<db, request, snapshot, submitted>>

\* The use case refuses, or the adapter does: the transaction is discarded.
Refuse(s) ==
  /\ phase[s] = "open"
  /\ \E effect \in Effects(snapshot[s], request[s].input, request[s].at) :
       /\ effect.status \in {"REFUSED", "FAILED"}
       /\ End(s, Answer(effect.status, effect.detail))
  /\ UNCHANGED <<db, submitted>>

\* A staged write conflicts.
Conflict(s) ==
  /\ phase[s] = "open"
  /\ \E effect \in Effects(snapshot[s], request[s].input, request[s].at) :
       WriteConflict(s, effect.docs)
  /\ Lose(s)
  /\ UNCHANGED <<db, submitted>>

Commit(s) ==
  /\ phase[s] = "staged"
  /\ db' = Applied(s)
  /\ End(s, answer[s])
  /\ UNCHANGED submitted

\* The server refuses the commit as a conflict: nothing is applied.
CommitConflict(s) ==
  /\ phase[s] = "staged"
  /\ Lose(s)
  /\ UNCHANGED <<db, submitted>>

\* The commit was sent and no answer came back.
LoseAnswer(s) ==
  /\ phase[s] = "staged"
  /\ phase' = [phase EXCEPT ![s] = "indoubt"]
  /\ answer' = [answer EXCEPT ![s] = Answer("UNKNOWN", None)]
  /\ UNCHANGED <<db, request, snapshot, image, submitted>>

\* The server applies the commit in doubt, or drops it.
Settle(s) ==
  /\ phase[s] = "indoubt"
  /\ db' \in {db, Applied(s)}
  /\ End(s, answer[s])
  /\ UNCHANGED submitted

\* A command fails before the commit is sent: the transaction is aborted.
Abort(s) ==
  /\ phase[s] \in {"open", "staged", "canonical"}
  /\ End(s, Answer("FAILED", None))
  /\ UNCHANGED <<db, submitted>>

\* After a conflict: the stored event answers, or nothing is known.
ReadCanonical(s) ==
  /\ phase[s] = "canonical"
  /\ LET r == request[s].input
         replay == Replay(db, r)
     IN  IF Present(db, KeyOf(r))
         THEN End(s, Answer(replay.status, replay.detail))
         ELSE End(s, Answer("UNKNOWN", None))
  /\ UNCHANGED <<db, submitted>>

\* The process stops.  What it had not committed is rolled back; a commit in
\* doubt is the server's to settle.
Crash ==
  /\ \E s \in Scopes : phase[s] \notin {"idle", "indoubt"}
  /\ LET lost == {s \in Scopes : phase[s] # "indoubt"}
         cleared(f) == [s \in Scopes |-> IF s \in lost THEN None ELSE f[s]]
     IN  /\ phase' = [s \in Scopes |-> IF s \in lost THEN "idle" ELSE phase[s]]
         /\ request' = cleared(request)
         /\ snapshot' = cleared(snapshot)
         /\ image' = cleared(image)
         /\ answer' = cleared(answer)
  /\ UNCHANGED <<db, submitted>>

Next ==
  \/ \E s \in Scopes, r \in Inputs, at \in Arrivals : Open(s, r, at)
  \/ \E s \in Scopes :
       \/ Stage(s) \/ Refuse(s) \/ Conflict(s) \/ Commit(s)
       \/ CommitConflict(s) \/ LoseAnswer(s) \/ Settle(s) \/ Abort(s)
       \/ ReadCanonical(s)
  \/ Crash

Spec == Init /\ [][Next]_vars

-----------------------------------------------------------------------------
(* Properties.                                                               *)

\* Types.  Every stored document, and every document a transaction is about
\* to store, has its collection's shape and passes its validator.
TypeOK ==
  /\ DocsOK(db)
  /\ submitted \in 0..MaxRequests
  /\ phase \in [Scopes -> Phases]
  /\ \A s \in Scopes :
       /\ phase[s] # "idle" =>
            request[s].input \in Inputs /\ request[s].at \in Arrivals
       /\ phase[s] \in {"open", "staged", "indoubt"} => DocsOK(snapshot[s])
       /\ phase[s] \in {"staged", "indoubt"} => DocsOK(image[s])

\* No order of entries, exits, updates, revocations and expiries reaches a
\* document that its own readers refuse: what is stored, read or about to be
\* stored passes the validators, so that no later request runs into it.
DocumentsAreReadable ==
  /\ DocsOK(db)
  /\ \A s \in Scopes :
       /\ phase[s] \in {"open", "staged", "indoubt"} => DocsOK(snapshot[s])
       /\ phase[s] \in {"staged", "indoubt"} => DocsOK(image[s])

\* The events and the qualifications tell one story: a qualification was
\* entered by exactly one accepted event, received inside its window, and
\* left by exactly one, and nothing but an event moves it
\* (applyRecognitionResult writes both in one transaction, two gates and a
\* manager race for it, and requests are repeated).
EventsExplainPresence == PresenceExplained(db)

\* Face slots and qualifications agree: a slot is bound only to a
\* qualification that may still use it, a qualification has one slot, a
\* subject has one slot, and the counter that guards the capacity counts them
\* (four paths release a slot, two bind one, under different guards).
FacesFollowQualifications == FacesAgree(db)

\* What a client was told about its event is what is stored and stays stored:
\* a decision it was given, first or replayed, is the one event of its key,
\* caused by the very credential it sent, and it was refused as a conflict
\* only because another credential holds the key
\* (stageRecognitionResultWithResult and its canonical re-read).
AnswersAreCanonical ==
  \A s \in Scopes :
    phase[s] = "done" /\ request[s].input.kind = "RECOGNIZE" =>
      LET r == request[s].input
          stored == db[KeyOf(r)]
      IN  /\ answer[s].status \in {"COMMITTED", "REPLAYED"} =>
               stored = answer[s].detail /\ stored.credential = r.credential
          /\ answer[s].status = "CONFLICT" =>
               stored # None /\ stored.credential # r.credential

\* Although decided on snapshots and written concurrently, every change of the
\* documents is one whole operation decided on the documents as they were
\* when it was committed.
Serial == INSTANCE AccessStore WITH docs <- db
OneAtATime == Serial!StoreSpec
=============================================================================
