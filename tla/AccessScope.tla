----------------------------- MODULE AccessScope -----------------------------
(***************************************************************************)
(* The scopes a use case works through (access-scopes.ts,                  *)
(* resolution-handle.ts, internal-plans.ts): what a caller may stage, with *)
(* which handle, and when.                                                 *)
(*                                                                         *)
(* Every call of a scope waits for the persistence port, which is external *)
(* here and may answer with what has become current in the meantime, and a *)
(* scope may be closed while a call of it is waiting.  The callers keep    *)
(* the last handle of each scope and pass any of them to any scope, with a *)
(* plan made from any of them.  A call that throws and changes nothing has *)
(* no action; discarding what a closed scope staged is the adapter's       *)
(* (ScopedTransaction).                                                    *)
(***************************************************************************)
EXTENDS Naturals

CONSTANTS
    RecognitionScopes, ManagementScopes,
    MaxVersions     \* bound: versions of the qualification

ASSUME AccessScopesAssumption ==
    RecognitionScopes \cap ManagementScopes = {} /\ MaxVersions \in Nat \ {0}

VARIABLES
    current,     \* the one qualification and its face mapping (external)
    open,       \* scopes not yet closed
    sourceFacts,\* #sourceActive of a recognition scope
    handles,    \* the last handle of a recognition scope: its claims
    call,       \* what the scope waits for
    lived,      \* history: what was current since a stage was called
    staged      \* history: the plan the port was given last

scopeVars == <<current, open, sourceFacts, handles, call, lived, staged>>

AccessScopes == RecognitionScopes \cup ManagementScopes

\* A version, 0 if there is none.  A change of the mapping is one of the
\* qualification too, in the same transaction.
Snapshots == [qualification : 0..MaxVersions, mapping : 0..MaxVersions]
Nobody == [qualification |-> 0, mapping |-> 0]
Media == {"QR", "FACE_MATCHED", "FACE_UNKNOWN"}

\* Nothing staged yet, no handle yet, no call.
Nothing == [op |-> "NONE", scope |-> "NONE"]
Calls(op) == [op |-> op]

ScopesInit ==
    /\ current \in {[qualification |-> 1, mapping |-> m] : m \in {0, 1}}
    /\ open = AccessScopes
    /\ sourceFacts = [s \in RecognitionScopes |-> "UNREAD"]
    /\ handles = [s \in RecognitionScopes |-> Nothing]
    /\ call = [s \in AccessScopes |-> Nothing]
    /\ lived = [s \in AccessScopes |-> {}]
    /\ staged = Nothing

\* Bound: one scope waits at a time.  Scopes share nothing but the handles
\* their callers hold, and those change when no call is waiting.
Idle(s) == s \in open /\ \A t \in AccessScopes : call[t] = Nothing
Waiting(s, op) == call[s].op = op
Waits(s, op) == call' = [call EXCEPT ![s] = Calls(op)]
Returns(s) == call' = [call EXCEPT ![s] = Nothing]

\* A stage is over, and its history with it.
StageOver(s) == Returns(s) /\ lived' = [lived EXCEPT ![s] = {}]

-----------------------------------------------------------------------------
(* Source facts and handles *)

ReadSourceFacts(s) ==
    /\ Idle(s)
    /\ Waits(s, "SOURCE")
    /\ UNCHANGED <<current, open, sourceFacts, handles, lived, staged>>

\* assertOpen, again, before the answer is kept
SourceFactsRead(s) ==
    /\ Waiting(s, "SOURCE")
    /\ \/ s \in open /\ \E active \in {"ACTIVE", "INACTIVE"} :
                            sourceFacts' = [sourceFacts EXCEPT ![s] = active]
       \/ s \notin open /\ UNCHANGED sourceFacts
    /\ Returns(s)
    /\ UNCHANGED <<current, open, handles, lived, staged>>

Resolution(media, resolved) ==
    CASE resolved.qualification # 0 -> "RESOLVED"
      [] media = "QR"               -> "INVALID_QR_CREDENTIAL"
      [] media = "FACE_UNKNOWN"     -> "FACE_UNKNOWN"
      [] OTHER                      -> "FACE_SUBJECT_NOT_MAPPED"

\* A face without a mapping resolves to nobody.
Normalized(media, resolved) ==
    IF media = "FACE_MATCHED" /\ resolved.mapping = 0 THEN Nobody ELSE resolved

Claims(s, media, resolved, resolution) ==
    [op |-> "HANDLE", scope |-> s, media |-> media, resolution |-> resolution,
     of |-> resolved]

MakeHandle(s, media, resolved) ==
    LET normalized == Normalized(media, resolved)
    IN  Claims(s, media, normalized, Resolution(media, normalized))

\* The identity is asked for only while the source is known to be active; an
\* unknown face is not asked for at all.
Resolve(s, media) ==
    /\ Idle(s) /\ sourceFacts[s] # "UNREAD"
    /\ IF sourceFacts[s] = "INACTIVE" \/ media = "FACE_UNKNOWN"
       THEN /\ handles' = [handles EXCEPT ![s] =
                  IF sourceFacts[s] = "INACTIVE"
                  THEN Claims(s, media, Nobody, "SOURCE_INACTIVE")
                  ELSE MakeHandle(s, media, Nobody)]
            /\ UNCHANGED call
       ELSE Waits(s, media) /\ UNCHANGED handles
    /\ UNCHANGED <<current, open, sourceFacts, lived, staged>>

Resolved(s, media) ==
    /\ Waiting(s, media)
    /\ \/ /\ s \in open
          /\ \E resolved \in {current, Nobody} :
                handles' = [handles EXCEPT ![s] = MakeHandle(s, media, resolved)]
       \/ s \notin open /\ UNCHANGED handles
    /\ Returns(s)
    /\ UNCHANGED <<current, open, sourceFacts, lived, staged>>

-----------------------------------------------------------------------------
(* Staging a recognition *)

Issued == {h \in {handles[s] : s \in RecognitionScopes} : h # Nothing}

\* createRecognitionResultPlan copies the claims, all but whose they are
SameIdentity(plan, claims) ==
    /\ plan.media = claims.media /\ plan.resolution = claims.resolution
    /\ plan.of = claims.of

Given(s, claims, effects) ==
    staged' = [op |-> "PLAN", scope |-> s, by |-> claims, effects |-> effects,
               open |-> s \in open, lived |-> lived'[s]]

\* assertHandle, the plan against the claims, and no effects on nobody
StageRecognitionResult(s, claims, plan, effects) ==
    /\ Idle(s)
    /\ claims.scope = s
    /\ SameIdentity(plan, claims)
    /\ claims.of.qualification = 0 => ~effects
    /\ lived' = [lived EXCEPT ![s] = {current}]
    /\ IF claims.of.qualification = 0
       THEN Given(s, claims, effects) /\ Waits(s, "STAGE")
       ELSE /\ call' = [call EXCEPT ![s] =
                          [op |-> "FRESH", by |-> claims, effects |-> effects]]
            /\ UNCHANGED staged
    /\ UNCHANGED <<current, open, sourceFacts, handles>>

\* Mutant of QualificationIsFresh: the version is not compared.
QualificationStillThere(s) == current.qualification # 0
\* assertQualificationIdentity
QualificationIsFresh(s) == current.qualification = call[s].by.of.qualification

\* assertResolutionFreshness, first half
QualificationReread(s) ==
    /\ Waiting(s, "FRESH")
    /\ IF s \in open /\ QualificationIsFresh(s)
       THEN call' = [call EXCEPT ![s].op = "FRESH_MAPPING"] /\ UNCHANGED lived
       ELSE StageOver(s)
    /\ UNCHANGED <<current, open, sourceFacts, handles, staged>>

\* Its second half; the port is given the plan at once.
MappingReread(s) ==
    /\ Waiting(s, "FRESH_MAPPING")
    /\ IF s \in open /\ current.mapping = call[s].by.of.mapping
       THEN UNCHANGED lived /\ Given(s, call[s].by, call[s].effects) /\ Waits(s, "STAGE")
       ELSE StageOver(s) /\ UNCHANGED staged
    /\ UNCHANGED <<current, open, sourceFacts, handles>>

Staged(s) ==
    /\ Waiting(s, "STAGE")
    /\ StageOver(s)
    /\ staged' = IF staged.scope = s THEN Nothing ELSE staged
    /\ UNCHANGED <<current, open, sourceFacts, handles>>

-----------------------------------------------------------------------------
(* A management scope; closing; the world *)

\* stageManagementChange of a trusted plan; its reads change nothing.
StageManagementChange(s) ==
    /\ Idle(s)
    /\ staged' = [op |-> "CHANGE", scope |-> s, open |-> s \in open]
    /\ Waits(s, "STAGE")
    /\ UNCHANGED <<current, open, sourceFacts, handles, lived>>

\* closeAsync: at any time, whatever the scope is waiting for.
CloseAsync(s) ==
    /\ s \in open
    /\ open' = open \ {s}
    /\ UNCHANGED <<current, sourceFacts, handles, call, lived, staged>>

\* Somebody else's change becomes current: the mapping is kept, removed, or set.
Change ==
    /\ current.qualification < MaxVersions
    /\ \E mapping \in {current.mapping, 0, current.qualification + 1} :
          current' = [qualification |-> current.qualification + 1, mapping |-> mapping]
    /\ lived' = [s \in AccessScopes |->
                    IF call[s].op \in {"FRESH", "FRESH_MAPPING"}
                    THEN lived[s] \cup {current'} ELSE {}]
    /\ UNCHANGED <<open, sourceFacts, handles, call, staged>>

ScopesNext ==
    \/ \E s \in RecognitionScopes :
          \/ ReadSourceFacts(s) \/ SourceFactsRead(s)
          \/ \E media \in Media : Resolve(s, media) \/ Resolved(s, media)
          \/ \E claims, plan \in Issued, effects \in BOOLEAN :
                StageRecognitionResult(s, claims, plan, effects)
          \/ QualificationReread(s) \/ MappingReread(s)
    \/ \E s \in ManagementScopes : StageManagementChange(s)
    \/ \E s \in AccessScopes : Staged(s) \/ CloseAsync(s)
    \/ Change

ScopesSpec == ScopesInit /\ [][ScopesNext]_scopeVars

\* Property.  What the port is asked to stage comes from a scope that is open
\* at that moment and issued the handle itself after it read its source; it
\* changes nobody who was not identified; and the qualification and mapping it
\* was decided on were both current, together, at an instant since the stage
\* was called, for all that changed while the scope was waiting.
PlansAreFresh ==
    staged # Nothing =>
        /\ staged.open
        /\ staged.op = "PLAN" =>
              /\ staged.by.scope = staged.scope
              /\ sourceFacts[staged.scope] # "UNREAD"
              /\ IF staged.by.of = Nobody THEN ~staged.effects
                 ELSE staged.by.of \in staged.lived
=============================================================================
