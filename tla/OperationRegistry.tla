------------------------- MODULE OperationRegistry -------------------------
(***************************************************************************)
(* The process-local idempotency registry of recognition events:           *)
(* operation-registry.ts.  Every operation of the registry is one          *)
(* synchronous transition; what interleaves are the calls of its holders,  *)
(* who keep leases, permits and reservations and may present any of them   *)
(* at any time, late or twice.  A call that throws without changing state  *)
(* is a stuttering step and has no action.                                 *)
(*                                                                         *)
(* Bounds: Keys, Reservations and Evidence are the event keys, reservation *)
(* tokens and evidence objects that ever exist.                            *)
(***************************************************************************)
EXTENDS Naturals, Sequences, FiniteSets

CONSTANTS
    Keys,           \* (source ID, external event ID)
    Artifacts,      \* contents, up to the sameArtifact verifier
    Results,        \* result references
    Evidence,       \* continuation evidence objects
    Reservations,   \* reservation tokens
    NoArtifact,
    NoResult,       \* `resultReference === null'
    Capacity

ASSUME CapacityAssumption == Capacity \in Nat \ {0}
ASSUME NoResultAssumption == NoResult \notin Results
ASSUME NoArtifactAssumption == NoArtifact \notin Artifacts

VARIABLES
    entry,          \* entriesBySource
    lease,          \* [Keys -> Seq(LeaseState)], in the order they were minted
    permit,         \* [Keys -> Seq(PermitState)]
    consumed,       \* consumedEvidence
    reservation,
    size,
    reserved,
    frozen,
    replayed        \* [Keys -> SUBSET Replay], the results given to callers

vars == <<entry, lease, permit, consumed, reservation, size, reserved, frozen, replayed>>

Terminal == {"CANONICAL", "SAFE_TECHNICAL_TERMINAL"}

Entry ==
    [state      : {"ABSENT", "IN_FLIGHT", "UNKNOWN"} \cup Terminal,
     generation : Nat,
     artifact   : Artifacts \cup {NoArtifact},
     result     : Results \cup {NoResult},
     authorized : BOOLEAN]

LeaseState == [kind : {"EXECUTION", "CONFIRMATION"}, generation : Nat, active : BOOLEAN]

PermitState == [generation : Nat, active : BOOLEAN]

Replay == [artifact : Artifacts, result : Results]

NoEntry ==
    [state |-> "ABSENT", generation |-> 0, artifact |-> NoArtifact,
     result |-> NoResult, authorized |-> FALSE]

Init ==
    /\ entry = [k \in Keys |-> NoEntry]
    /\ lease = [k \in Keys |-> << >>]
    /\ permit = [k \in Keys |-> << >>]
    /\ consumed = {}
    /\ reservation = [v \in Reservations |-> "UNISSUED"]
    /\ size = 0
    /\ reserved = 0
    /\ frozen = FALSE
    /\ replayed = [k \in Keys |-> {}]

-----------------------------------------------------------------------------
(* Registration: a new entry, or the replay of an existing one *)

Present(k) == entry[k].state # "ABSENT"

Mint(kind, generation) == [kind |-> kind, generation |-> generation, active |-> TRUE]

\* addEntry
AddEntry(k, artifact) ==
    /\ entry' = [entry EXCEPT ![k] =
                    [state |-> "IN_FLIGHT", generation |-> 1, artifact |-> artifact,
                     result |-> NoResult, authorized |-> FALSE]]
    /\ lease' = [lease EXCEPT ![k] = Append(@, Mint("EXECUTION", 1))]
    /\ size' = size + 1

\* existingResult after compareArtifact: a caller with the same content is
\* joined to the operation, or told its result when it has one; a caller with
\* other content gets IDEMPOTENCY_CONFLICT
Tell(k, artifact) ==
    replayed' = IF entry[k].artifact = artifact /\ entry[k].state \in Terminal
                THEN [replayed EXCEPT
                        ![k] = @ \cup {[artifact |-> artifact, result |-> entry[k].result]}]
                ELSE replayed

\* register of a key that is not there
Register(k, artifact) ==
    /\ ~frozen /\ ~Present(k)
    /\ size + reserved < Capacity
    /\ AddEntry(k, artifact)
    /\ UNCHANGED <<permit, consumed, reservation, reserved, frozen, replayed>>

\* register and lookupExisting of a key that is there
LookupExisting(k, artifact) ==
    /\ ~frozen /\ Present(k)
    /\ Tell(k, artifact)
    /\ UNCHANGED <<entry, lease, permit, consumed, reservation, size, reserved, frozen>>

ReserveCandidate(v) ==
    /\ ~frozen /\ reservation[v] = "UNISSUED"
    /\ size + reserved < Capacity
    /\ reservation' = [reservation EXCEPT ![v] = "ACTIVE"]
    /\ reserved' = reserved + 1
    /\ UNCHANGED <<entry, lease, permit, consumed, size, frozen, replayed>>

ConsumeReservation(v) ==
    /\ ~frozen /\ reservation[v] = "ACTIVE"
    /\ reservation' = [reservation EXCEPT ![v] = "USED"]
    /\ reserved' = reserved - 1

ReleaseReservation(v) ==
    /\ ConsumeReservation(v)
    /\ UNCHANGED <<entry, lease, permit, consumed, size, frozen, replayed>>

RegisterReserved(v, k, artifact) ==
    /\ ConsumeReservation(v)
    /\ \/ /\ ~Present(k)
          /\ AddEntry(k, artifact)
          /\ UNCHANGED replayed
       \/ /\ Present(k)
          /\ Tell(k, artifact)
          /\ UNCHANGED <<entry, lease, size>>
    /\ UNCHANGED <<permit, consumed, frozen>>

-----------------------------------------------------------------------------
(* Callbacks of lease holders *)

\* requireLease.  Its STALE_LEASE branch has no action: LeasesFollowTheEntry
\* shows that an active lease is never stale.
UsableLease(k, i, kinds) ==
    /\ ~frozen
    /\ i \in DOMAIN lease[k]
    /\ lease[k][i].active
    /\ lease[k][i].generation = entry[k].generation
    /\ lease[k][i].kind \in kinds

\* Mutant of Spend: the lease or permit stays active.
SpendNothing(s, i) == s

Spend(s, i) == [s EXCEPT ![i] = [@ EXCEPT !.active = FALSE]]

\* markUnknown
MarkUnknown(k, i) ==
    /\ UsableLease(k, i, {"EXECUTION"})
    /\ entry[k].state = "IN_FLIGHT"
    /\ entry' = [entry EXCEPT ![k] = [@ EXCEPT !.state = "UNKNOWN", !.authorized = FALSE]]
    /\ lease' = [lease EXCEPT ![k] =
                    Append(Spend(@, i), Mint("CONFIRMATION", entry[k].generation))]
    /\ UNCHANGED <<permit, consumed, reservation, size, reserved, frozen, replayed>>

\* Mutant of Complete: any lease of the current generation completes.
CompleteWithSpentLease(k, i, state, result) ==
    /\ ~frozen
    /\ lease[k][i].generation = entry[k].generation
    /\ entry' = [entry EXCEPT ![k] = [@ EXCEPT !.state = state, !.result = result,
                                               !.authorized = FALSE]]
    /\ lease' = [lease EXCEPT ![k] = Spend(@, i)]
    /\ UNCHANGED <<permit, consumed, reservation, size, reserved, frozen, replayed>>

\* finishTerminal, for completeCanonical and completeSafeTechnicalTerminal
Complete(k, i, state, result) ==
    /\ UsableLease(k, i, {"EXECUTION", "CONFIRMATION"})
    /\ entry[k].state = IF lease[k][i].kind = "EXECUTION" THEN "IN_FLIGHT" ELSE "UNKNOWN"
    /\ entry' = [entry EXCEPT ![k] = [@ EXCEPT !.state = state, !.result = result,
                                               !.authorized = FALSE]]
    /\ lease' = [lease EXCEPT ![k] = Spend(@, i)]
    /\ UNCHANGED <<permit, consumed, reservation, size, reserved, frozen, replayed>>

\* Mutant of AuthorizeContinuation: an authorized entry can be authorized again.
AuthorizeContinuationTwice(k, i, e) ==
    /\ UsableLease(k, i, {"CONFIRMATION"})
    /\ entry[k].state = "UNKNOWN"
    /\ e \notin consumed
    /\ consumed' = consumed \cup {e}
    /\ entry' = [entry EXCEPT ![k] = [@ EXCEPT !.authorized = TRUE]]
    /\ permit' = [permit EXCEPT ![k] =
                    Append(@, [generation |-> entry[k].generation, active |-> TRUE])]
    /\ UNCHANGED <<lease, reservation, size, reserved, frozen, replayed>>

\* authorizeContinuation
AuthorizeContinuation(k, i, e) ==
    /\ UsableLease(k, i, {"CONFIRMATION"})
    /\ entry[k].state = "UNKNOWN" /\ ~entry[k].authorized
    /\ e \notin consumed
    /\ consumed' = consumed \cup {e}
    /\ entry' = [entry EXCEPT ![k] = [@ EXCEPT !.authorized = TRUE]]
    /\ permit' = [permit EXCEPT ![k] =
                    Append(@, [generation |-> entry[k].generation, active |-> TRUE])]
    /\ UNCHANGED <<lease, reservation, size, reserved, frozen, replayed>>

\* resumeUnknown with the permit of this entry and generation
ResumeUnknown(k, i, p) ==
    /\ UsableLease(k, i, {"CONFIRMATION"})
    /\ p \in DOMAIN permit[k]
    /\ permit[k][p].active /\ permit[k][p].generation = lease[k][i].generation
    /\ entry[k].state = "UNKNOWN" /\ entry[k].authorized
    /\ LET next == entry[k].generation + 1 IN
          /\ entry' = [entry EXCEPT ![k] = [@ EXCEPT !.state = "IN_FLIGHT",
                                                     !.generation = next,
                                                     !.authorized = FALSE]]
          /\ lease' = [lease EXCEPT ![k] = Append(Spend(@, i), Mint("EXECUTION", next))]
    /\ permit' = [permit EXCEPT ![k] = Spend(@, p)]
    /\ UNCHANGED <<consumed, reservation, size, reserved, frozen, replayed>>

\* resumeUnknown with an active permit of another entry: STALE_PERMIT spends it
ResumeStalePermit(k, i, other, p) ==
    /\ UsableLease(k, i, {"CONFIRMATION"})
    /\ p \in DOMAIN permit[other] /\ permit[other][p].active
    /\ other # k \/ permit[other][p].generation # lease[k][i].generation
    /\ permit' = [permit EXCEPT ![other] = Spend(@, p)]
    /\ UNCHANGED <<entry, lease, consumed, reservation, size, reserved, frozen, replayed>>

\* A trusted callback (owner fence, artifact verifier, evidence verifier)
\* throws, answers wrongly or reenters.  Every operation calls it before its
\* first assignment, so nothing else changes: a reservation stays held.
Freeze ==
    /\ ~frozen
    /\ frozen' = TRUE
    /\ UNCHANGED <<entry, lease, permit, consumed, reservation, size, reserved, replayed>>

-----------------------------------------------------------------------------

HolderCalls(k) ==
    \E i \in DOMAIN lease[k] :
        \/ MarkUnknown(k, i)
        \/ \E state \in Terminal, result \in Results : Complete(k, i, state, result)
        \/ \E e \in Evidence : AuthorizeContinuation(k, i, e)
        \/ \E p \in DOMAIN permit[k] : ResumeUnknown(k, i, p)
        \/ \E other \in Keys : \E p \in DOMAIN permit[other] :
              ResumeStalePermit(k, i, other, p)

Next ==
    \/ \E k \in Keys, artifact \in Artifacts :
          Register(k, artifact) \/ LookupExisting(k, artifact)
    \/ \E v \in Reservations : ReserveCandidate(v) \/ ReleaseReservation(v)
    \/ \E v \in Reservations, k \in Keys, artifact \in Artifacts :
          RegisterReserved(v, k, artifact)
    \/ \E k \in Keys : HolderCalls(k)
    \/ Freeze

Spec == Init /\ [][Next]_vars

-----------------------------------------------------------------------------
(* Properties *)

TypeOK ==
    /\ entry \in [Keys -> Entry]
    /\ lease \in [Keys -> Seq(LeaseState)]
    /\ permit \in [Keys -> Seq(PermitState)]
    /\ consumed \subseteq Evidence
    /\ reservation \in [Reservations -> {"UNISSUED", "ACTIVE", "USED"}]
    /\ size \in Nat
    /\ reserved \in Nat
    /\ frozen \in BOOLEAN
    /\ replayed \in [Keys -> SUBSET Replay]

\* Every live entry has exactly one active lease, of its generation and of the
\* kind its state calls for, and a terminal entry has none: whatever leases the
\* callers still hold, one of them can move the entry, and a late callback of an
\* earlier generation or of the other kind finds its lease spent.
LeasesFollowTheEntry ==
    \A k \in Keys :
        /\ \A i \in DOMAIN lease[k] : lease[k][i].active =>
              /\ lease[k][i].generation = entry[k].generation
              /\ entry[k].state =
                    IF lease[k][i].kind = "EXECUTION" THEN "IN_FLIGHT" ELSE "UNKNOWN"
              /\ \A j \in DOMAIN lease[k] : lease[k][j].active => i = j
        /\ entry[k].state \in {"IN_FLIGHT", "UNKNOWN"} =>
              \E i \in DOMAIN lease[k] : lease[k][i].active

\* The counters are the truth and admission by size + reserved never lets the
\* registry outgrow its capacity, even though a reservation is counted at one
\* moment and turned into an entry at a later one.
CapacityHolds ==
    /\ size = Cardinality({k \in Keys : Present(k)})
    /\ reserved = Cardinality({v \in Reservations : reservation[v] = "ACTIVE"})
    /\ size + reserved <= Capacity

\* Every generation after the first was paid for: each earlier generation has
\* its own spent permit, no generation has two permits, and an entry counts as
\* authorized exactly when the permit of its generation was issued and it is
\* still unknown.
ContinuationIsPaidFor ==
    \A k \in Keys :
        /\ \A g \in 1..(entry[k].generation - 1) :
              \E p \in DOMAIN permit[k] :
                  permit[k][p].generation = g /\ ~permit[k][p].active
        /\ \A p, q \in DOMAIN permit[k] :
              p < q => permit[k][p].generation < permit[k][q].generation
        /\ \A p \in DOMAIN permit[k] : permit[k][p].generation <= entry[k].generation
        /\ entry[k].authorized =>
              /\ entry[k].state = "UNKNOWN"
              /\ \E p \in DOMAIN permit[k] : permit[k][p].generation = entry[k].generation

\* All callers that are told a result are told the same one, and each of them
\* presented the content the operation was registered with.
ReplaysAgree ==
    \A k \in Keys : \A answer \in replayed[k] :
        /\ entry[k].state \in Terminal
        /\ answer.result = entry[k].result
        /\ answer.artifact = entry[k].artifact

\* What callers rely on at any time: one lease can move an entry, the counters
\* are exact and within the capacity, and repetitions hear one result, for one
\* content.
EntriesAreConsistent == LeasesFollowTheEntry /\ CapacityHolds /\ ReplaysAgree

\* The registry implements OnceStore: a key is begun only below the capacity,
\* answered once by whichever lease is the active one, and never reopened,
\* although it may go through any number of unknown outcomes and continuations.
Outcome ==
    [k \in Keys |->
        [state  |-> IF entry[k].state \in {"IN_FLIGHT", "UNKNOWN"} THEN "PENDING"
                    ELSE entry[k].state,
         result |-> entry[k].result]]

Abstract == INSTANCE OnceStore WITH outcome <- Outcome

ImplementsOnceStore == Abstract!Spec
=============================================================================
