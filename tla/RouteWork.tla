------------------------------- MODULE RouteWork -------------------------------
(***************************************************************************)
(* What the routes make of a request: who may ask (validate), the work     *)
(* token that carries the request over to its turn, the use case, and the  *)
(* answer with the disposition that settles its write                      *)
(* (g08a-management-composition.ts, g08b-recognition-composition.ts,       *)
(* g09a-query-composition.ts over human-auth.ts, source-auth.ts and        *)
(* use-cases.ts).                                                          *)
(*                                                                         *)
(* Accounts change, and either authentication may freeze, at every await.  *)
(* A writer works alone, as WriteCoordinator has it; the transaction below *)
(* a use case is ScopedTransaction, here one step that commits or not.     *)
(***************************************************************************)
EXTENDS HumanAuth

CONSTANT NoInstant   \* null

VARIABLES asked,       \* caller -> its request
          witnessed,     \* history: facts of accounts since a request came
          sourceFrozen,  \* the freeze of source-auth.ts
          qualification  \* the qualification the requests are about

workVars == <<asked, witnessed, sourceFrozen, qualification>>
routeVars == <<authVars, workVars>>

Rules == INSTANCE AccessDecision WITH None <- NoInstant, Instants <- Seconds

ManagementRoutes == {"CREATE", "UPDATE", "REVOKE"}
HumanRoutes == ManagementRoutes \cup {"QUERY"}
Writers == ManagementRoutes \cup {"RECOGNITION"}
Kinds == {"QR_SCANNED", "FACE_MATCHED", "FACE_UNKNOWN"}

NoneYet == [at |-> "NONE"]

IsAt(c, at) == asked[c].at = at

Validating == {"ARRIVED", "VERIFYING", "HELD"}

-----------------------------------------------------------------------------
(* Events of recognitions. *)

UnresolvedOf(kind) ==
    CASE kind = "QR_SCANNED" -> "INVALID_QR_CREDENTIAL"
      [] kind = "FACE_MATCHED" -> "FACE_SUBJECT_NOT_MAPPED"
      [] kind = "FACE_UNKNOWN" -> "FACE_UNKNOWN"

UnqualifiedReasons == {"SOURCE_INACTIVE", "INVALID_QR_CREDENTIAL", "FACE_UNKNOWN",
                       "FACE_SUBJECT_NOT_MAPPED"}
EntryReasons == {"QUALIFICATION_REVOKED", "ALREADY_INSIDE", "QUALIFICATION_ALREADY_USED",
                 "QUALIFICATION_NOT_YET_VALID", "QUALIFICATION_EXPIRED"}
ExitReasons == {"NOT_INSIDE", "ALREADY_EXITED"}

Event(kind, direction, at, resolved, decision) ==
    [kind |-> kind, direction |-> direction, receivedAt |-> at,
     outcome |-> decision.outcome, reason |-> decision.reason,
     to |-> decision.to, qualified |-> resolved]

\* The event an earlier request of the same id left: nobody was resolved.
Earlier(kind, at) ==
    Event(kind, "ENTRY", at, FALSE, Rules!Rejected(UnresolvedOf(kind)))

\* The matrix of reasons, directions and transitions.
EventIsSound(e) ==
    IF e.outcome = "ACCEPTED"
    THEN /\ e.qualified
         /\ <<e.reason, e.direction, e.to>> \in
              {<<"ENTRY_GRANTED", "ENTRY", "INSIDE">>, <<"EXIT_RECORDED", "EXIT", "EXITED">>}
    ELSE /\ e.to = NoInstant
         /\ \/ e.reason \in UnqualifiedReasons /\ ~e.qualified
            \/ e.reason \in EntryReasons /\ e.qualified /\ e.direction = "ENTRY"
            \/ e.reason \in ExitReasons /\ e.qualified /\ e.direction = "EXIT"

\* Only an event of this very request is presented, to the millisecond.
Presentable(e, r) ==
    EventIsSound(e) /\ e.kind = r.kind /\ e.receivedAt = r.received

-----------------------------------------------------------------------------
(* Arrival and answer.  What a request says is chosen where it is first read. *)

Moves(c, at) ==
    /\ asked' = [asked EXCEPT ![c].at = at]
    /\ UNCHANGED <<witnessed, sourceFrozen, qualification>>

\* The principal of a request is forgotten with it.
AnswersWith(c, disposition, told) ==
    /\ asked' = [asked EXCEPT ![c] =
         [at |-> "ANSWERED", disposition |-> disposition, told |-> told]]
    /\ witnessed' = [witnessed EXCEPT ![c] = {}]
    /\ UNCHANGED <<sourceFrozen, qualification>>

\* A claimed work token: what is left of validation is its payload.
Claims(c) ==
    /\ Forget(c)
    /\ asked' = [asked EXCEPT ![c].at = "CLAIMED"]
    /\ witnessed' = [witnessed EXCEPT ![c] = {}]
    /\ UNCHANGED <<sourceFrozen, qualification>>

\* A rejection before any work.
Refuses(c, code) == Forget(c) /\ AnswersWith(c, "REJECTED", code)

AtRest(c) ==
    \/ IsAt(c, "NONE")
    \/ IsAt(c, "ANSWERED") /\ asked[c].disposition # "UNKNOWN_EFFECT"

New(route) ==
    [at |-> "ARRIVED", route |-> route, received |-> 0, kind |-> "NONE",
     event |-> NoInstant, open |-> FALSE, error |-> "NONE", effect |-> "NONE"]

Arrive(c) ==
    /\ AtRest(c) /\ Enters(c, "NONE")
    /\ \E route \in HumanRoutes \cup {"RECOGNITION"} :
         asked' = [asked EXCEPT ![c] = New(route)]
    /\ witnessed' = [witnessed EXCEPT ![c] = UNION {Facts(a) : a \in Accounts}]
    /\ UNCHANGED <<authVars, sourceFrozen, qualification>>

-----------------------------------------------------------------------------
(* validate: who asks, and is the request well formed.                       *)

Human(c) == IsAt(c, "ARRIVED") /\ asked[c].route \in HumanRoutes

\* Path, retry mode and query come before the credential, bodies after it.
Malformed(c) == IsAt(c, "ARRIVED") /\ Refuses(c, "INVALID_REQUEST")

Asks(c, token) ==
    /\ Human(c)
    /\ Verify(c, token)
    /\ Moves(c, "VERIFYING")

AskRefused(c, token) ==
    /\ Human(c)
    /\ authFrozen \/ \E now \in Seconds : Expired(token, now)
    /\ Refuses(c, IF authFrozen THEN "AUTH_UNAVAILABLE" ELSE "AUTHENTICATION_FAILED")

Verified(c) == IsAt(c, "VERIFYING") /\ HandOut(c) /\ Moves(c, "HELD")

\* The read of the account rejects, or the account is gone or disabled.
NotVerified(c) ==
    /\ IsAt(c, "VERIFYING")
    /\ CallFails(c)
    /\ \/ /\ Enters(c, "STATUS") \/ authFrozen
          /\ AnswersWith(c, "REJECTED", "AUTH_UNAVAILABLE")
       \/ /\ Enters(c, "STATUS_READ") /\ ~authFrozen /\ calls[c].facts = {}
          /\ AnswersWith(c, "REJECTED", "AUTHENTICATION_FAILED")

\* assertRole.
RoleSuffices(route, role) == role = "OPERATOR" \/ (route = "QUERY" /\ role \in Roles)

\* Back from the await: facts and assertRole ask again whether it is frozen.
\* Then the body, the work token and, by the handler, its claim for the route.
Validated(c) ==
    /\ IsAt(c, "HELD") /\ asked[c].route \in HumanRoutes
    /\ IF authFrozen THEN Refuses(c, "AUTH_UNAVAILABLE")
       ELSE IF ~RoleSuffices(asked[c].route, principals[c].role)
       THEN Refuses(c, "FORBIDDEN")
       ELSE \/ Claims(c)
            \/ asked[c].route # "QUERY" /\ Refuses(c, "INVALID_REQUEST")

\* A source has its own authentication, and its own freeze; the credential is
\* looked at first.
SourceMoves(c, from, codes, move) ==
    /\ IsAt(c, from) /\ asked[c].route = "RECOGNITION"
    /\ \/ sourceFrozen /\ Refuses(c, "AUTH_UNAVAILABLE")
       \/ ~sourceFrozen /\ \E code \in codes : Refuses(c, code)
       \/ ~sourceFrozen /\ move

AsksSource(c) ==
    SourceMoves(c, "ARRIVED", {"AUTHENTICATION_FAILED"}, Moves(c, "VERIFYING") /\ UNCHANGED authVars)

\* verify() answers a source, or none, or rejects.
SourceVerified(c) ==
    SourceMoves(c, "VERIFYING", {"AUTHENTICATION_FAILED", "AUTH_UNAVAILABLE"},
                Moves(c, "HELD") /\ UNCHANGED authVars)

\* The facts, the body, the executor bound to the source, key and work token.
SourceValidated(c) == SourceMoves(c, "HELD", {"INVALID_REQUEST"}, Claims(c))

FreezeSource ==
    /\ ~sourceFrozen
    /\ sourceFrozen' = TRUE
    /\ UNCHANGED <<authVars, asked, witnessed, qualification>>

-----------------------------------------------------------------------------
(* The use cases. *)

AtWork == {"READING", "STAGING", "EXPIRING", "CLOSING"}

\* One writer at a time, and none after one whose effect is unknown.
NoWriterBefore ==
    \A d \in AuthCalls :
        /\ ~(asked[d].at \in AtWork /\ asked[d].route \in Writers)
        /\ IsAt(d, "ANSWERED") => asked[d].disposition # "UNKNOWN_EFFECT"

Becomes(c, at, open, error) ==
    /\ asked' = [asked EXCEPT ![c].at = at, ![c].open = open, ![c].error = error]
    /\ UNCHANGED <<authVars, witnessed, sourceFrozen, qualification>>

\* Taken out of the payloads at its turn.
MayBegin(c, routes) ==
    /\ IsAt(c, "CLAIMED") /\ asked[c].route \in routes
    /\ asked[c].route \in Writers => NoWriterBefore

Begins(c, at, received, open, error) ==
    /\ asked' = [asked EXCEPT ![c].at = at, ![c].received = received, ![c].open = open,
                                  ![c].error = error]
    /\ UNCHANGED <<authVars, witnessed, sourceFrozen, qualification>>

\* A manager's facts are read once more: frozen meanwhile?
BeginsFrozen(c) ==
    /\ MayBegin(c, ManagementRoutes) /\ authFrozen
    /\ Forget(c) /\ AnswersWith(c, "UNKNOWN_EFFECT", "UNCONFIRMED")

\* create refuses a window before it opens a scope.
BeginsCreate(c) ==
    /\ MayBegin(c, {"CREATE"}) /\ ~authFrozen
    /\ \E from, until, at \in Seconds :
         IF Rules!WindowRefusal(from, until, at) # NoInstant
         THEN Begins(c, "CLOSING", 0, FALSE, "REFUSED")
         ELSE Begins(c, "STAGING", 0, FALSE, "NONE")

BeginsReading(c) ==
    /\ \/ MayBegin(c, {"UPDATE", "REVOKE"}) /\ ~authFrozen
       \/ MayBegin(c, {"QUERY", "RECOGNITION"})
    /\ \E at \in Seconds :
         Begins(c, "READING", at, asked[c].route # "QUERY", "NONE")

Refusal(r, until) ==
    IF r.route = "UPDATE"
    THEN Rules!UpdateRefusal(qualification, qualification.validFrom, until, r.received)
    ELSE Rules!RevocationRefusal(qualification, "given", r.received)

\* The qualification is read: there is none of that id, the change is refused,
\* refused with an expiry that is still to be written, or free to be made.
ReadsManaged(c) ==
    /\ IsAt(c, "READING") /\ asked[c].route \in ManagementRoutes
    /\ \/ Becomes(c, "CLOSING", TRUE, "REFUSED")
       \/ \E until \in Seconds :
            LET refusal == Refusal(asked[c], until)
            IN  IF refusal = NoInstant THEN Becomes(c, "STAGING", TRUE, "NONE")
                ELSE IF /\ refusal = "QUALIFICATION_ALREADY_EXPIRED"
                        /\ Rules!NeedsTerminalExpiry(qualification, asked[c].received)
                THEN Becomes(c, "EXPIRING", TRUE, "NONE")
                ELSE Becomes(c, "CLOSING", TRUE, "REFUSED")

\* The facts of the source, the resolution, the qualification, the decision.
Decides(kind, direction, active, resolved, at) ==
    IF ~active THEN Rules!Rejected("SOURCE_INACTIVE")
    ELSE IF ~resolved THEN Rules!Rejected(UnresolvedOf(kind))
    ELSE IF direction = "ENTRY" THEN Rules!EntryDecision(qualification, at)
    ELSE Rules!ExitDecision(qualification)

ReadsRecognized(c) ==
    /\ IsAt(c, "READING") /\ asked[c].route = "RECOGNITION"
    /\ Becomes(c, "STAGING", TRUE, "NONE")

ReadFails(c) ==
    /\ IsAt(c, "READING") /\ asked[c].route \in Writers
    /\ Becomes(c, "CLOSING", TRUE, "FAILED")

Stages(c, effect, error) ==
    /\ asked' = [asked EXCEPT ![c].at = "CLOSING", ![c].open = FALSE,
                                  ![c].effect = effect, ![c].error = error]
    /\ UNCHANGED <<authVars, witnessed, sourceFrozen>>

StagesEvent(c, kind, event, effect, error) ==
    /\ asked' = [asked EXCEPT ![c].at = "CLOSING", ![c].open = FALSE, ![c].kind = kind,
                       ![c].event = event, ![c].effect = effect, ![c].error = error]
    /\ UNCHANGED <<authVars, witnessed, sourceFrozen>>

\* What a committed change leaves: a new qualification is another one.
AfterChange(r, until) ==
    CASE r.route = "CREATE" -> qualification
      [] r.route = "UPDATE" -> [qualification EXCEPT !.validUntil = until]
      [] r.route = "REVOKE" -> [qualification EXCEPT !.revokedAt = r.received]

\* Committed; the answer of the commit may be lost.
StageCommits(c) ==
    /\ IsAt(c, "STAGING") /\ asked[c].route \in ManagementRoutes
    /\ \E until \in Seconds :
         /\ asked[c].route = "UPDATE" => Refusal(asked[c], until) = NoInstant
         /\ qualification' = AfterChange(asked[c], until)
    /\ \E error \in {"NONE", "FAILED"} : Stages(c, "CHANGED", error)

\* Nothing has changed since the reads: the writer is alone.
StageRecognized(c) ==
    /\ IsAt(c, "STAGING") /\ asked[c].route = "RECOGNITION"
    /\ \E kind \in Kinds, direction \in {"ENTRY", "EXIT"}, active, resolved \in BOOLEAN :
         LET at == asked[c].received
             decision == Decides(kind, direction, active, resolved, at)
         IN  /\ resolved => active /\ kind # "FACE_UNKNOWN"
             /\ qualification' =
                  IF resolved THEN [Rules!Recognized(qualification, decision, at) EXCEPT !.version = 0]
                  ELSE qualification
             /\ \/ StagesEvent(c, kind, Event(kind, direction, at, resolved, decision), "CHANGED", "NONE")
                \/ Stages(c, "CHANGED", "FAILED")

\* stageExpiry; then the refusal is thrown, with what it wrote.
StageExpires(c) ==
    /\ IsAt(c, "EXPIRING")
    /\ qualification' = [qualification EXCEPT !.expiredAt = asked[c].received]
    /\ \E error \in {"EXPIRED", "FAILED"} : Stages(c, "EXPIRED", error)

\* The face subject is taken, or every slot is; or nothing is known, and
\* nothing was written.
StageRefused(c) ==
    /\ asked[c].at \in {"STAGING", "EXPIRING"}
    /\ \E error \in {"REFUSED", "FAILED"} :
         /\ error = "REFUSED" => IsAt(c, "STAGING") /\ asked[c].route \in {"CREATE", "UPDATE"}
         /\ Stages(c, "NONE", error)
    /\ UNCHANGED qualification

\* An earlier event is stored under the same id: REPLAYED if it is of the same
\* input, otherwise the id is in conflict.
StageReplays(c) ==
    /\ IsAt(c, "STAGING") /\ asked[c].route = "RECOGNITION"
    /\ \E kind, stored \in Kinds, at \in Seconds :
         \/ kind = stored /\ StagesEvent(c, kind, Earlier(stored, at), "EARLIER", "NONE")
         \/ kind # stored /\ StagesEvent(c, kind, NoInstant, "NONE", "CONFLICT")
    /\ UNCHANGED qualification

-----------------------------------------------------------------------------
(* The answers. *)

\* Mutant of Classified: a refusal has no effect.
ClassifiedByKind(error) ==
    CASE error = "NONE" -> <<"BUSINESS_RESULT_PERSISTED", "DONE">>
      [] error \in {"EXPIRED", "REFUSED"} -> <<"KNOWN_NO_EFFECT", error>>
      [] OTHER -> <<"UNKNOWN_EFFECT", "UNCONFIRMED">>

\* classifyManagementFailure.
Classified(error) ==
    CASE error = "NONE" -> <<"BUSINESS_RESULT_PERSISTED", "DONE">>
      [] error = "EXPIRED" -> <<"BUSINESS_RESULT_PERSISTED", "EXPIRED">>
      [] error = "REFUSED" -> <<"KNOWN_NO_EFFECT", "REFUSED">>
      [] OTHER -> <<"UNKNOWN_EFFECT", "UNCONFIRMED">>

\* mapRecognitionResult.
Mapped(r) ==
    IF r.error = "NONE" /\ Presentable(r.event, r)
      THEN <<"BUSINESS_RESULT_PERSISTED", "DONE">>
    ELSE IF r.error = "CONFLICT" THEN <<"KNOWN_NO_EFFECT", "CONFLICT">>
    ELSE <<"UNKNOWN_EFFECT", "UNCONFIRMED">>

\* closeAsync, in finally: a discard that throws takes the place of whatever
\* the use case had to say.  settleWriterOutcome then tells the client no more
\* than the write settles as.
Concludes(c) ==
    /\ IsAt(c, "CLOSING")
    /\ \E error \in {asked[c].error} \cup (IF asked[c].open THEN {"FAILED"} ELSE {}) :
         LET verdict == IF asked[c].route = "RECOGNITION"
                        THEN Mapped([asked[c] EXCEPT !.error = error])
                        ELSE Classified(error)
         IN  Forget(c) /\ AnswersWith(c, verdict[1], verdict[2])

\* A query reads no account again: what its principal said holds.
QueryAnswers(c) ==
    /\ IsAt(c, "READING") /\ asked[c].route = "QUERY"
    /\ \E told \in {"DONE", "RESOURCE_NOT_FOUND", "PERSISTENCE_UNAVAILABLE"} :
         Forget(c) /\ AnswersWith(c, "NONE", told)

-----------------------------------------------------------------------------

RouteInit ==
    /\ AuthInit
    /\ asked = [c \in AuthCalls |-> NoneYet]
    /\ witnessed = [c \in AuthCalls |-> {}]
    /\ sourceFrozen = FALSE
    /\ qualification = Rules!NewQualification(0, LastSecond)

\* A login is a request of its own, and comes before.
LogsIn(c) ==
    /\ IsAt(c, "NONE")
    /\ \/ \E a \in Accounts : Login(c, a)
       \/ Found(c) \/ Derive(c) \/ IssueToken(c) \/ CallFails(c)
    /\ UNCHANGED workVars

AccountsChange ==
    /\ \E a \in Accounts : ManageAccount(a)
    /\ witnessed' = [c \in AuthCalls |->
         IF asked[c].at \in Validating THEN witnessed[c] \cup UNION {Facts(a)' : a \in Accounts} ELSE {}]
    /\ UNCHANGED <<asked, sourceFrozen, qualification>>

RouteNext ==
    \/ \E c \in AuthCalls :
         \/ LogsIn(c) \/ Arrive(c)
         \/ Malformed(c) \/ Verified(c) \/ NotVerified(c) \/ Validated(c)
         \/ \E token \in tokens : Asks(c, token) \/ AskRefused(c, token)
         \/ StatusRead(c) /\ UNCHANGED workVars
         \/ AsksSource(c) \/ SourceVerified(c) \/ SourceValidated(c)
         \/ BeginsFrozen(c) \/ BeginsCreate(c) \/ BeginsReading(c)
         \/ ReadsManaged(c) \/ ReadsRecognized(c) \/ ReadFails(c)
         \/ StageCommits(c) \/ StageRecognized(c) \/ StageExpires(c) \/ StageRefused(c) \/ StageReplays(c)
         \/ Concludes(c) \/ QueryAnswers(c)
    \/ Freeze /\ UNCHANGED workVars
    \/ FreezeSource
    \/ AccountsChange

RouteSpec == RouteInit /\ [][RouteNext]_routeVars

-----------------------------------------------------------------------------
(* Properties. *)

\* Whoever is let to work was what it takes at some instant since the request
\* came: an enabled OPERATOR to manage, an enabled account to list (the account
\* is read after the token came, whatever changes and waits in between).
CurrentActor(route, seen) ==
    /\ route \in ManagementRoutes => \E f \in seen : f.role = "OPERATOR"
    /\ route = "QUERY" => seen # {}

\* The disposition a write settles with, and what its client is told, are true
\* of the database: no effect is called none, none is called an effect, and a
\* recognition that was committed and answered is never left unconfirmed
\* because its own event would not pass for sound (classifyManagementFailure,
\* mapRecognitionResult, the use cases and the event invariants together).
TrueReply(r, reply) ==
    /\ reply.disposition = "BUSINESS_RESULT_PERSISTED" => r.effect # "NONE"
    /\ reply.disposition \in {"KNOWN_NO_EFFECT", "REJECTED"} => r.effect = "NONE"
    /\ reply.told = "DONE" /\ r.route \in Writers => r.effect \in {"CHANGED", "EARLIER"}
    /\ reply.told = "EXPIRED" => r.effect = "EXPIRED"
    /\ r.effect = "CHANGED" /\ r.error = "NONE" => reply.told = "DONE"

\* Every reply is true, and only those who may act do.
RepliesAreTrue ==
    [][\A c \in AuthCalls :
         /\ ~IsAt(c, "CLAIMED") /\ IsAt(c, "CLAIMED")' =>
              CurrentActor(asked[c].route, witnessed[c])
         /\ ~IsAt(c, "ANSWERED") /\ IsAt(c, "ANSWERED")' => TrueReply(asked[c], asked'[c])
      ]_routeVars
=============================================================================
