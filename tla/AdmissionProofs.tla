--------------------------- MODULE AdmissionProofs ---------------------------
(***************************************************************************)
(* The admission handler, proved for every set of requests, of kinds they  *)
(* may be of, of limits, of artifacts and of control commands.             *)
(*                                                                         *)
(* Almost everything the properties say is about one request at a time, so *)
(* the invariant is a predicate of one request, RequestInv, and a step is  *)
(* shown to touch one request only (OnlyTouches), to touch those the       *)
(* coordinator drops when it fails closed, or to settle those a drain      *)
(* finds ready.  What relates requests to each other is little: that one   *)
(* recognition at most may have an effect and that the entry of the        *)
(* registry is about that one (EffectInv), the limits of the pools         *)
(* (InLimit) and the order of the control commands (ControlInv).           *)
(***************************************************************************)
EXTENDS Admission, FiniteSetTheorems, SequenceTheorems, TLAPS

Ended == {"OVER", "BLOCKED", "UNBOUND"}

\* Where a request may be, and with which kind and input.
PhaseOf(r) ==
    /\ at[r] = "ABSENT" => kind[r] = "NONE" /\ answer[r] = "NONE"
    /\ at[r] # "ABSENT" => kind[r] \in Kinds
    /\ at[r] = "WORKING" => kind[r] # "EXISTING_ONLY"
    /\ at[r] \notin {"ABSENT", "VALIDATING", "WORKING", "OVER"} => kind[r] \in Writers
    /\ Queued(r) => at[r] \in {"VALIDATING", "READY"} /\ kind[r] \in Writers
    /\ at[r] = "READY" => Queued(r)
    /\ at[r] \in {"READY", "WORKING", "PAUSED", "ABANDONED"} /\ kind[r] = "NORMAL_RECOGNITION" =>
          artifact[r] \in Artifacts

\* What a request holds.
HoldsOf(r) ==
    /\ HeldBy(r) = HeldIn(at[r], kind[r]) \cup (IF Open(r) THEN {HttpPool(kind[r])} ELSE {})
    /\ r \in reads <=> at[r] = "WORKING" /\ kind[r] = "QUERY"
    /\ r \in persistence <=> Alive(r)
    /\ r \in reserved =>
          /\ kind[r] = "NORMAL_RECOGNITION"
          /\ at[r] \in {"VALIDATING", "READY", "BLOCKED"} \/ registry = "FROZEN"
    /\ at[r] \in {"VALIDATING", "READY"} /\ kind[r] = "NORMAL_RECOGNITION" => r \in reserved

\* What a request was told, and what is in the database for it.  An answer that
\* claims something is the last thing that happens to a request.
ToldOf(r) ==
    /\ answer[r] \in {"NO_EFFECT", "RESULT", "REPLAY"} => at[r] \in Ended
    /\ answer[r] = "NO_EFFECT" => r \notin committed
    /\ answer[r] = "RESULT" /\ kind[r] \in Writers =>
          r \in committed \/ (kind[r] = "NORMAL_RECOGNITION" /\ event = artifact[r]
                              /\ event \in Artifacts)
    /\ answer[r] = "REPLAY" => event = artifact[r] /\ event \in Artifacts
    /\ r \in committed =>
          /\ kind[r] \in Writers
          /\ at[r] \in {"WORKING", "PAUSED", "ABANDONED", "UNKNOWN", "OVER"}
          /\ kind[r] = "NORMAL_RECOGNITION" => event = artifact[r] /\ event \in Artifacts

RequestInv(r) == PhaseOf(r) /\ HoldsOf(r) /\ ToldOf(r)

\* No pool is over its limit.
InLimit ==
    \A pool \in Pools :
        IsFiniteSet(leases[pool]) /\ Cardinality(leases[pool]) <= Limit[pool]

\* A recognition that may still have an effect in the database, or has one.
HasEffect(r) == kind[r] = "NORMAL_RECOGNITION" /\ (Alive(r) \/ r \in committed)

\* One recognition has an effect at most, for it found no entry; the entry it
\* made stays and is about it until that effect is excluded.
EffectInv ==
    /\ entry.state = "NONE" => entry = NoEntry
    /\ entry.state # "NONE" => entry.artifact \in Artifacts
    /\ entry.state = "CANONICAL" => event = entry.artifact
    /\ \A q, r \in Requests : HasEffect(q) /\ HasEffect(r) => q = r
    /\ \A r \in Requests : HasEffect(r) =>
          entry.state \notin {"NONE", "SAFE"} /\ entry.artifact = artifact[r]

\* The nth command that was applied expected revision n - 1, and what a drained
\* runtime gave up does not come back.
ControlInv ==
    /\ applied \in Seq(Commands)
    /\ revision = Len(applied)
    /\ \A i \in 1..Len(applied) : applied[i].expected = i - 1
    /\ outcome # "NONE" => maintenance # 0
    /\ outcome = "DRAINED" => Quiet

AdmissionInv ==
    /\ TypeOK
    /\ \A r \in Requests : RequestInv(r)
    /\ InLimit
    /\ EffectInv
    /\ ControlInv

USE DEF controlVars, replayVars, holdVars, leaseVars, requestVars, queueVars, fifoVars,
        registryVars, databaseVars, dependencyVars

-----------------------------------------------------------------------------
(* Answers and leases. *)

Plans == {"EPOCH", "BUSY", "UNAVAILABLE", "REJECTED", "RATE_LIMITED", "CONFLICT", "LOST",
          "PROGRESS", "NO_EFFECT", "UNCONFIRMED", "RESULT", "REPLAY"}

\* Every plan says something.
LEMMA SaysSomething ==
    ASSUME NEW plan \in Plans
    PROVE  /\ Says(plan) \in Answers \ {"NONE"}
           /\ plan \in {"RESULT", "REPLAY", "UNCONFIRMED"} => Says(plan) = plan
           /\ plan \in {"LOST", "PROGRESS"} => Says(plan) = "UNCONFIRMED"
           /\ plan \notin {"RESULT", "REPLAY", "UNCONFIRMED", "LOST", "PROGRESS"} =>
                 Says(plan) = "NO_EFFECT"
  BY DEF Plans, Says, Answers

\* The first answer of a request is its only one.
LEMMA AnswersOnce ==
    ASSUME TypeOK, NEW r \in Requests, NEW plan \in Plans, answer' = Answered(r, plan)
    PROVE  /\ answer' \in [Requests -> Answers]
           /\ \A q \in Requests \ {r} : answer'[q] = answer[q]
           /\ answer'[r] # "NONE"
           /\ answer'[r] = IF answer[r] = "NONE" THEN Says(plan) ELSE answer[r]
  BY SaysSomething DEF Answered, TypeOK

\* Who gives leases back and takes others is the only one whose leases change.
LEMMA MovesLeases ==
    ASSUME TypeOK, NEW r \in Requests, NEW back \in SUBSET Pools, NEW taken \in SUBSET Pools,
           leases' = Moved(r, back, taken)
    PROVE  /\ leases' \in [Pools -> SUBSET Requests]
           /\ \A q \in Requests \ {r} : HeldBy(q)' = HeldBy(q)
           /\ HeldBy(r)' = (HeldBy(r) \ back) \cup taken
<1>1. leases' \in [Pools -> SUBSET Requests]
  BY DEF Moved, TypeOK
<1>2. \A q \in Requests \ {r} : HeldBy(q)' = HeldBy(q)
  BY DEF Moved, TypeOK, HeldBy
<1>3. HeldBy(r)' = (HeldBy(r) \ back) \cup taken
  BY DEF Moved, TypeOK, HeldBy
<1>. QED  BY <1>1, <1>2, <1>3

\* A lease is taken only where there is room.
LEMMA LimitsHold ==
    ASSUME TypeOK, InLimit, NEW r \in Requests, NEW back \in SUBSET Pools,
           NEW taken \in SUBSET Pools, \A pool \in taken : HasRoom(pool),
           leases' = Moved(r, back, taken)
    PROVE  InLimit'
<1>. SUFFICES ASSUME NEW pool \in Pools
              PROVE  IsFiniteSet(leases'[pool]) /\ Cardinality(leases'[pool]) <= Limit[pool]
  BY DEF InLimit
<1>1. IsFiniteSet(leases[pool]) /\ Cardinality(leases[pool]) <= Limit[pool]
      /\ Limit[pool] \in Nat /\ Cardinality(leases[pool]) \in Nat
  BY FS_CardinalityType, LimitAssumption DEF InLimit
<1>2. CASE pool \in taken
  <2>1. leases'[pool] = leases[pool] \cup {r} /\ Cardinality(leases[pool]) < Limit[pool]
    BY <1>2 DEF Moved, HasRoom
  <2>2. IsFiniteSet(leases'[pool])
        /\ Cardinality(leases'[pool]) \in {Cardinality(leases[pool]), Cardinality(leases[pool]) + 1}
    BY <1>1, <2>1, FS_AddElement
  <2>. QED  BY <1>1, <2>1, <2>2
<1>3. CASE pool \notin taken
  <2>1. leases'[pool] \subseteq leases[pool]
    BY <1>3 DEF Moved
  <2>. QED  BY <1>1, <2>1, FS_Subset, FS_CardinalityType
<1>. QED  BY <1>2, <1>3

LEMMA FewerLeases ==
    ASSUME InLimit, \A pool \in Pools : leases'[pool] \subseteq leases[pool]
    PROVE  InLimit'
<1>. SUFFICES ASSUME NEW pool \in Pools
              PROVE  IsFiniteSet(leases'[pool]) /\ Cardinality(leases'[pool]) <= Limit[pool]
  BY DEF InLimit
<1>1. IsFiniteSet(leases[pool]) /\ Cardinality(leases[pool]) <= Limit[pool]
      /\ Limit[pool] \in Nat /\ Cardinality(leases[pool]) \in Nat
  BY FS_CardinalityType, LimitAssumption DEF InLimit
<1>. QED  BY <1>1, FS_Subset, FS_CardinalityType

\* Which pools a kind of request needs.
LEMMA PoolsOfKinds ==
    ASSUME NEW k \in Kinds
    PROVE  /\ HttpPool(k) \in HttpPools /\ ValidationPool(k) \in ValidationPools
           /\ OriginPool(k) = IF k \in Writers THEN {"origin"} ELSE {}
           /\ Bundle(k) \subseteq Pools
  BY DEF Kinds, HttpPool, HttpPools, ValidationPool, ValidationPools, OriginPool, Writers,
         Bundle, Pools

\* What an answer does to the request that gets it, and to the others.
LEMMA Replies ==
    ASSUME TypeOK, InLimit, NEW r \in Requests, NEW plan \in Plans, NEW back \in SUBSET Pools,
           Reply(r, plan, back)
    PROVE  /\ leases' \in [Pools -> SUBSET Requests] /\ answer' \in [Requests -> Answers]
           /\ \A q \in Requests \ {r} : HeldBy(q)' = HeldBy(q) /\ answer'[q] = answer[q]
           /\ HeldBy(r)' = HeldBy(r) \ (back \cup HttpPools)
           /\ answer'[r] # "NONE"
           /\ answer'[r] = IF answer[r] = "NONE" THEN Says(plan) ELSE answer[r]
           /\ InLimit'
<1>1. /\ answer' = Answered(r, plan) /\ leases' = Moved(r, back \cup HttpPools, {})
      /\ back \cup HttpPools \in SUBSET Pools
  BY DEF Reply, Pools
<1>2. \A pool \in Pools : leases'[pool] \subseteq leases[pool]
  BY <1>1 DEF Moved
<1>3. InLimit'
  BY <1>2, FewerLeases
<1>4. HeldBy(r)' = (HeldBy(r) \ (back \cup HttpPools)) \cup {}
      /\ leases' \in [Pools -> SUBSET Requests]
      /\ \A q \in Requests \ {r} : HeldBy(q)' = HeldBy(q)
  <2>1. {} \in SUBSET Pools
    OBVIOUS
  <2>. QED  BY <1>1, <2>1, MovesLeases
<1>. QED  BY <1>1, <1>3, <1>4, AnswersOnce

-----------------------------------------------------------------------------
(* Frames. *)

\* Nothing of q changes.
Untouched(q) ==
    /\ at'[q] = at[q] /\ kind'[q] = kind[q] /\ answer'[q] = answer[q]
    /\ artifact'[q] = artifact[q]
    /\ HeldBy(q)' = HeldBy(q)
    /\ q \in queued' <=> q \in queued
    /\ q \in reads' <=> q \in reads
    /\ q \in persistence' <=> q \in persistence
    /\ q \in reserved' <=> q \in reserved
    /\ q \in committed' <=> q \in committed

OnlyTouches(r) == \A q \in Requests \ {r} : Untouched(q)

\* A persisted event stays, and so does a frozen registry.
Persistent ==
    /\ event' = event \/ event \notin Artifacts
    /\ registry' = registry \/ registry' = "FROZEN"

LEMMA UntouchedStays ==
    ASSUME NEW q \in Requests, RequestInv(q), Untouched(q), Persistent
    PROVE  RequestInv(q)'
<1>1. PhaseOf(q)'
  BY DEF RequestInv, PhaseOf, Untouched, Queued
<1>2. HoldsOf(q)'
  <2>1. Open(q)' <=> Open(q)
    BY DEF Untouched, Open
  <2>2. Alive(q)' <=> Alive(q)
    BY DEF Untouched, Alive
  <2>. QED  BY <2>1, <2>2 DEF RequestInv, HoldsOf, Untouched, Persistent
<1>3. ToldOf(q)'
  BY DEF RequestInv, ToldOf, Untouched, Persistent
<1>. QED  BY <1>1, <1>2, <1>3 DEF RequestInv

LEMMA StepOfOne ==
    ASSUME AdmissionInv, NEW r \in Requests, OnlyTouches(r), Persistent,
           TypeOK', PhaseOf(r)', HoldsOf(r)', ToldOf(r)', InLimit', EffectInv', ControlInv'
    PROVE  AdmissionInv'
<1>1. ASSUME NEW q \in Requests PROVE RequestInv(q)'
  <2>1. CASE q = r
    BY <2>1 DEF RequestInv
  <2>2. CASE q # r
    BY <2>2, UntouchedStays DEF AdmissionInv, OnlyTouches
  <2>. QED  BY <2>1, <2>2
<1>. QED  BY <1>1 DEF AdmissionInv

LEMMA EffectStays ==
    ASSUME EffectInv, UNCHANGED <<entry, event>>,
           \A q \in Requests : HasEffect(q)' => HasEffect(q) /\ artifact'[q] = artifact[q]
    PROVE  EffectInv'
  BY DEF EffectInv

\* The entry follows the recognition that has an effect.
LEMMA EntryMoves ==
    ASSUME EffectInv, NEW r \in Requests, NEW state \in {"UNKNOWN", "CANONICAL", "SAFE"},
           EntryGoes(r, state), UNCHANGED event,
           \A q \in Requests : HasEffect(q)' => HasEffect(q) /\ artifact'[q] = artifact[q],
           kind[r] = "NORMAL_RECOGNITION" =>
               /\ HasEffect(r) /\ artifact[r] \in Artifacts
               /\ state = "SAFE" => ~HasEffect(r)'
               /\ state = "CANONICAL" => event = artifact[r]
    PROVE  EffectInv'
<1>1. CASE entry' = entry
  BY <1>1, EffectStays
<1>2. CASE kind[r] = "NORMAL_RECOGNITION" /\ entry' = [state |-> state, artifact |-> artifact[r]]
  <2>1. \A q \in Requests : HasEffect(q)' => q = r
    BY <1>2 DEF EffectInv
  <2>. QED  BY <1>2, <2>1 DEF EffectInv, NoEntry
<1>. QED  BY <1>1, <1>2 DEF EntryGoes

LEMMA ControlStays ==
    ASSUME ControlInv, UNCHANGED <<replayVars, holdVars>>,
           maintenance = 0 \/ (reads' \subseteq reads /\ persistence' \subseteq persistence)
    PROVE  ControlInv'
  BY DEF ControlInv, replayVars, holdVars, Quiet

-----------------------------------------------------------------------------
(* The steps of a request before its work. *)

LEMMA ValidationFailsKeeps ==
    ASSUME AdmissionInv, NEW r \in Requests, ValidationFails(r)
    PROVE  AdmissionInv'
<1>. /\ TypeOK /\ PhaseOf(r) /\ HoldsOf(r) /\ ToldOf(r)
     /\ InLimit /\ EffectInv /\ ControlInv
  BY DEF AdmissionInv, RequestInv
<1>. DEFINE back == ValidationPools \cup {"scrypt"} \cup OriginOf(r)
<1>1. PICK plan \in {"REJECTED", "UNCONFIRMED"} : Reply(r, plan, back)
  BY DEF ValidationFails
<1>2. plan \in Plans /\ back \in SUBSET Pools
  BY DEF Plans, Pools, OriginOf, AncillaryPools
<1>. HIDE DEF back
<1>3. /\ at[r] = "VALIDATING" /\ kind'[r] = kind[r] /\ artifact'[r] = artifact[r]
      /\ at'[r] = IF kind[r] \in Writers /\ ~Queued(r) THEN "BLOCKED" ELSE "OVER"
      /\ kind[r] \in Kinds /\ ~Queued(r)'
  BY DEF ValidationFails, TypeOK, Goes, Queued, Leave, ValidatedAs
<1>4. TypeOK' /\ Persistent
  BY <1>1, <1>2, Replies, ZenonT(60) DEF ValidationFails, TypeOK, ControlTypeOK, Goes, Phases, Leave,
     Unreserved, Persistent, ValidatedAs, Freezes, Fails
<1>5. OnlyTouches(r)
  BY <1>1, <1>2, Replies DEF OnlyTouches, Untouched, ValidationFails, Goes, Leave, Unreserved
<1>6. PhaseOf(r)'
  BY <1>1, <1>2, <1>3, Replies DEF PhaseOf, Queued, ValidationFails
<1>7. HoldsOf(r)'
  <2>1. HeldBy(r)' = HeldIn(at'[r], kind'[r]) /\ ~Open(r)'
    BY <1>1, <1>2, <1>3, Replies, PoolsOfKinds DEF back, HoldsOf, HeldIn, HttpPools,
       ValidationPools, Open, OriginOf
  <2>. QED BY <2>1, <1>3 DEF HoldsOf, ValidationFails, Alive, Unreserved, TypeOK, Writers,
       ValidatedAs, Freezes, Fails
<1>8. ToldOf(r)'
  BY <1>1, <1>2, <1>3, Replies, SaysSomething DEF ToldOf, Ended, ValidationFails
<1>9. EffectInv'
  BY <1>3, <1>5, EffectStays DEF ValidationFails, HasEffect, Alive, OnlyTouches, Untouched
<1>10. ControlInv'
  BY ControlStays DEF ValidationFails
<1>. QED  BY <1>1, <1>2, <1>4, <1>5, <1>6, <1>7, <1>8, <1>9, <1>10, Replies, StepOfOne

LEMMA ValidationCanceledKeeps ==
    ASSUME AdmissionInv, NEW r \in Requests, ValidationCanceled(r)
    PROVE  AdmissionInv'
<1>. /\ TypeOK /\ PhaseOf(r) /\ HoldsOf(r) /\ ToldOf(r)
     /\ InLimit /\ EffectInv /\ ControlInv
  BY DEF AdmissionInv, RequestInv
<1>. DEFINE back == ValidationPools \cup OriginOf(r)
<1>1. PICK plan \in {"BUSY", "UNAVAILABLE"} : Reply(r, plan, back)
  BY DEF ValidationCanceled
<1>2. plan \in Plans /\ back \in SUBSET Pools
  BY DEF Plans, Pools, OriginOf, AncillaryPools
<1>. HIDE DEF back
<1>3. /\ at[r] = "VALIDATING" /\ kind'[r] = kind[r] /\ artifact'[r] = artifact[r]
      /\ at'[r] = IF Queued(r) THEN "OVER" ELSE "BLOCKED"
      /\ kind[r] \in Kinds /\ kind[r] \in Writers /\ ~Queued(r)'
  BY DEF ValidationCanceled, PhaseOf, TypeOK, Goes, Queued, Leave, Writers, Kinds, ValidatedAs
<1>4. TypeOK' /\ Persistent
  BY <1>1, <1>2, Replies DEF ValidationCanceled, TypeOK, ControlTypeOK, Goes, Phases, Leave,
     Unreserved, Persistent
<1>5. OnlyTouches(r)
  BY <1>1, <1>2, Replies DEF OnlyTouches, Untouched, ValidationCanceled, Goes, Leave, Unreserved
<1>6. PhaseOf(r)'
  BY <1>1, <1>2, <1>3, Replies DEF PhaseOf, Queued, ValidationCanceled
<1>7. HoldsOf(r)'
  <2>1. HeldBy(r)' = HeldIn(at'[r], kind'[r]) /\ ~Open(r)'
    BY <1>1, <1>2, <1>3, Replies, PoolsOfKinds DEF back, HoldsOf, HeldIn, HttpPools,
       ValidationPools, Open, Writers, OriginOf
  <2>. QED BY <2>1, <1>3 DEF HoldsOf, ValidationCanceled, Alive, Unreserved, TypeOK, Writers,
       ValidatedAs
<1>8. ToldOf(r)'
  BY <1>1, <1>2, <1>3, Replies, SaysSomething DEF ToldOf, Ended, ValidationCanceled
<1>9. EffectInv'
  BY <1>3, <1>5, EffectStays DEF ValidationCanceled, HasEffect, Alive, OnlyTouches, Untouched
<1>10. ControlInv'
  BY ControlStays DEF ValidationCanceled
<1>. QED  BY <1>1, <1>2, <1>4, <1>5, <1>6, <1>7, <1>8, <1>9, <1>10, Replies, StepOfOne

LEMMA ActivateTooLateKeeps ==
    ASSUME AdmissionInv, NEW r \in Requests, ActivateTooLate(r)
    PROVE  AdmissionInv'
<1>. /\ TypeOK /\ PhaseOf(r) /\ HoldsOf(r) /\ ToldOf(r)
     /\ InLimit /\ EffectInv /\ ControlInv
  BY DEF AdmissionInv, RequestInv
<1>. DEFINE back == ValidationPools
<1>1. PICK plan \in {"UNCONFIRMED"} : Reply(r, plan, back)
  BY DEF ActivateTooLate
<1>2. plan \in Plans /\ back \in SUBSET Pools
  BY DEF Plans, Pools, AncillaryPools
<1>. HIDE DEF back
<1>3. /\ at[r] = "VALIDATING" /\ kind'[r] = kind[r] /\ artifact'[r] = artifact[r]
      /\ at'[r] = "BLOCKED"
      /\ kind[r] \in Kinds /\ kind[r] \in Writers /\ ~Queued(r)'
  BY DEF ActivateTooLate, PhaseOf, TypeOK, Goes, Queued, Leave, Writers, Kinds, ValidatedAs
<1>4. TypeOK' /\ Persistent
  BY <1>1, <1>2, Replies DEF ActivateTooLate, TypeOK, ControlTypeOK, Goes, Phases, Unreserved,
     Persistent
<1>5. OnlyTouches(r)
  BY <1>1, <1>2, Replies DEF OnlyTouches, Untouched, ActivateTooLate, Goes, Unreserved
<1>6. PhaseOf(r)'
  BY <1>1, <1>2, <1>3, Replies DEF PhaseOf, Queued, ActivateTooLate
<1>7. HoldsOf(r)'
  <2>1. HeldBy(r)' = HeldIn(at'[r], kind'[r]) /\ ~Open(r)'
    BY <1>1, <1>2, <1>3, Replies, PoolsOfKinds DEF back, HoldsOf, HeldIn, HttpPools,
       ValidationPools, Open, Writers
  <2>. QED BY <2>1, <1>3 DEF HoldsOf, ActivateTooLate, Alive, Unreserved, TypeOK, Writers,
       ValidatedAs
<1>8. ToldOf(r)'
  BY <1>1, <1>2, <1>3, Replies, SaysSomething DEF ToldOf, Ended, ActivateTooLate
<1>9. EffectInv'
  BY <1>3, <1>5, EffectStays DEF ActivateTooLate, HasEffect, Alive, OnlyTouches, Untouched
<1>10. ControlInv'
  BY ControlStays DEF ActivateTooLate
<1>. QED  BY <1>1, <1>2, <1>4, <1>5, <1>6, <1>7, <1>8, <1>9, <1>10, Replies, StepOfOne

LEMMA QueryStoppedKeeps ==
    ASSUME AdmissionInv, NEW r \in Requests, QueryStopped(r)
    PROVE  AdmissionInv'
<1>. /\ TypeOK /\ PhaseOf(r) /\ HoldsOf(r) /\ ToldOf(r)
     /\ InLimit /\ EffectInv /\ ControlInv
  BY DEF AdmissionInv, RequestInv
<1>. DEFINE back == ValidationPools
<1>1. PICK plan \in QueryStops(r) : Reply(r, plan, back)
  BY DEF QueryStopped
<1>2. plan \in Plans /\ back \in SUBSET Pools
  BY DEF Plans, Pools, AncillaryPools, QueryStops
<1>. HIDE DEF back
<1>3. /\ at[r] = "VALIDATING" /\ kind'[r] = kind[r] /\ artifact'[r] = artifact[r]
      /\ at'[r] = "OVER" /\ kind[r] = "QUERY" /\ kind[r] \in Kinds /\ kind[r] \notin Writers
      /\ ~Queued(r)'
  BY DEF QueryStopped, PhaseOf, TypeOK, Goes, Queued, Leave, Writers, Kinds, ValidatedAs
<1>4. TypeOK' /\ Persistent
  BY <1>1, <1>2, Replies DEF QueryStopped, TypeOK, ControlTypeOK, Goes, Phases, Persistent
<1>5. OnlyTouches(r)
  BY <1>1, <1>2, Replies DEF OnlyTouches, Untouched, QueryStopped, Goes
<1>6. PhaseOf(r)'
  BY <1>1, <1>2, <1>3, Replies DEF PhaseOf, Queued, QueryStopped
<1>7. HoldsOf(r)'
  <2>1. HeldBy(r)' = HeldIn(at'[r], kind'[r]) /\ ~Open(r)'
    BY <1>1, <1>2, <1>3, Replies, PoolsOfKinds DEF back, HoldsOf, HeldIn, Open
  <2>. QED BY <2>1, <1>3 DEF HoldsOf, QueryStopped, Alive, Unreserved, TypeOK, Writers,
       ValidatedAs
<1>8. ToldOf(r)'
  BY <1>1, <1>2, <1>3, Replies, SaysSomething DEF ToldOf, Ended, QueryStopped, QueryStops
<1>9. EffectInv'
  BY <1>3, <1>5, EffectStays DEF QueryStopped, HasEffect, Alive, OnlyTouches, Untouched
<1>10. ControlInv'
  BY ControlStays DEF QueryStopped
<1>. QED  BY <1>1, <1>2, <1>4, <1>5, <1>6, <1>7, <1>8, <1>9, <1>10, Replies, StepOfOne

LEMMA NonWriterEndsKeeps ==
    ASSUME AdmissionInv, NEW r \in Requests, NonWriterEnds(r)
    PROVE  AdmissionInv'
<1>. /\ TypeOK /\ PhaseOf(r) /\ HoldsOf(r) /\ ToldOf(r)
     /\ InLimit /\ EffectInv /\ ControlInv
  BY DEF AdmissionInv, RequestInv
<1>. DEFINE back == ValidationPools \cup {"queryDb"}
<1>1. PICK plan \in {"UNCONFIRMED", "RESULT"} : Reply(r, plan, back)
  BY DEF NonWriterEnds
<1>2. plan \in Plans /\ back \in SUBSET Pools
  BY DEF Plans, Pools, AncillaryPools
<1>. HIDE DEF back
<1>3. /\ at[r] = "WORKING" /\ kind'[r] = kind[r] /\ artifact'[r] = artifact[r]
      /\ at'[r] = "OVER" /\ kind[r] \in {"LOGIN", "QUERY"} /\ kind[r] \in Kinds
      /\ kind[r] \notin Writers /\ ~Queued(r)
      /\ reads' = reads \ {r}
  BY DEF NonWriterEnds, PhaseOf, TypeOK, Goes, Queued, Leave, Writers, Kinds, Freezes, Fails
<1>4. TypeOK' /\ Persistent
  BY <1>1, <1>2, Replies, ZenonT(60) DEF NonWriterEnds, TypeOK, ControlTypeOK, Goes, Phases, Persistent,
     Freezes, Fails
<1>5. OnlyTouches(r)
  BY <1>1, <1>2, Replies DEF OnlyTouches, Untouched, NonWriterEnds, Goes
<1>6. PhaseOf(r)'
  BY <1>1, <1>2, <1>3, Replies DEF PhaseOf, Queued, NonWriterEnds
<1>7. HoldsOf(r)'
  <2>1. HeldBy(r)' = HeldIn(at'[r], kind'[r]) /\ ~Open(r)'
    BY <1>1, <1>2, <1>3, Replies, PoolsOfKinds DEF back, HoldsOf, HeldIn, Open
  <2>. QED BY <2>1, <1>3 DEF HoldsOf, NonWriterEnds, Alive, Unreserved, TypeOK, Writers,
       Freezes, Fails
<1>8. ToldOf(r)'
  BY <1>1, <1>2, <1>3, Replies, SaysSomething DEF ToldOf, Ended, NonWriterEnds
<1>9. EffectInv'
  BY <1>3, <1>5, EffectStays DEF NonWriterEnds, HasEffect, Alive, OnlyTouches, Untouched
<1>10. ControlInv'
  BY ControlStays DEF NonWriterEnds
<1>. QED  BY <1>1, <1>2, <1>4, <1>5, <1>6, <1>7, <1>8, <1>9, <1>10, Replies, StepOfOne

LEMMA ExistingOnlyValidatedKeeps ==
    ASSUME AdmissionInv, NEW r \in Requests, ExistingOnlyValidated(r)
    PROVE  AdmissionInv'
<1>. /\ TypeOK /\ PhaseOf(r) /\ HoldsOf(r) /\ ToldOf(r)
     /\ InLimit /\ EffectInv /\ ControlInv
  BY DEF AdmissionInv, RequestInv
<1>. DEFINE back == ValidationPools
<1>1. PICK a \in Artifacts, plan \in Plans :
        /\ Reply(r, plan, back)
        /\ artifact' = [artifact EXCEPT ![r] = a]
        /\ plan = "REPLAY" => event = a
        /\ plan # "RESULT"
  BY DEF ExistingOnlyValidated, Told, EffectInv, Plans
<1>2. plan \in Plans /\ back \in SUBSET Pools
  BY DEF Plans, Pools, AncillaryPools
<1>. HIDE DEF back
<1>3. /\ at[r] = "VALIDATING" /\ kind'[r] = kind[r] /\ artifact'[r] \in Artifacts
      /\ \A q \in Requests \ {r} : artifact'[q] = artifact[q]
      /\ artifact' \in [Requests -> Artifacts \cup {NoArtifact}]
      /\ at'[r] = "OVER" /\ kind[r] = "EXISTING_ONLY" /\ kind[r] \in Kinds
      /\ kind[r] \notin Writers /\ ~Queued(r)
  BY DEF ExistingOnlyValidated, PhaseOf, TypeOK, Goes, Writers, ValidatedAs
<1>4. TypeOK' /\ Persistent
  BY <1>1, <1>2, Replies DEF ExistingOnlyValidated, TypeOK, ControlTypeOK, Goes, Phases,
     Persistent
<1>5. OnlyTouches(r)
  BY <1>1, <1>2, Replies DEF OnlyTouches, Untouched, ExistingOnlyValidated, Goes
<1>6. PhaseOf(r)'
  BY <1>1, <1>2, <1>3, Replies DEF PhaseOf, Queued, ExistingOnlyValidated
<1>7. HoldsOf(r)'
  <2>1. HeldBy(r)' = HeldIn(at'[r], kind'[r]) /\ ~Open(r)'
    BY <1>1, <1>2, <1>3, Replies, PoolsOfKinds DEF back, HoldsOf, HeldIn, Open
  <2>. QED BY <2>1, <1>3 DEF HoldsOf, ExistingOnlyValidated, Alive, Unreserved, TypeOK,
       Writers, ValidatedAs
<1>8. ToldOf(r)'
  BY <1>1, <1>2, <1>3, Replies, SaysSomething DEF ToldOf, Ended, ExistingOnlyValidated
<1>9. EffectInv'
  BY <1>3, <1>5, EffectStays DEF ExistingOnlyValidated, HasEffect, Alive, OnlyTouches, Untouched
<1>10. ControlInv'
  BY ControlStays DEF ExistingOnlyValidated
<1>. QED  BY <1>1, <1>2, <1>4, <1>5, <1>6, <1>7, <1>8, <1>9, <1>10, Replies, StepOfOne

LEMMA StartLimitedKeeps ==
    ASSUME AdmissionInv, NEW r \in Requests, StartLimited(r)
    PROVE  AdmissionInv'
<1>. /\ TypeOK /\ PhaseOf(r) /\ HoldsOf(r) /\ ToldOf(r)
     /\ InLimit /\ EffectInv /\ ControlInv
  BY DEF AdmissionInv, RequestInv
<1>. DEFINE back == {"origin"}
<1>1. PICK plan \in {"RATE_LIMITED", "UNAVAILABLE"} : Reply(r, plan, back)
  BY DEF StartLimited, StartEnds
<1>2. plan \in Plans /\ back \in SUBSET Pools
  BY DEF Plans, Pools, AncillaryPools
<1>. HIDE DEF back
<1>3. /\ at[r] = "READY" /\ kind'[r] = kind[r] /\ artifact'[r] = artifact[r]
      /\ at'[r] = "OVER" /\ kind[r] \in Writers /\ kind[r] \in Kinds /\ ~Queued(r)'
  BY DEF StartLimited, PhaseOf, TypeOK, Goes, Queued, Leave, Starts, StartEnds
<1>4. TypeOK' /\ Persistent
  BY <1>1, <1>2, Replies DEF StartLimited, TypeOK, ControlTypeOK, Goes, Phases, Leave,
     Unreserved, Persistent, StartEnds
<1>5. OnlyTouches(r)
  BY <1>1, <1>2, Replies DEF OnlyTouches, Untouched, StartLimited, TypeOK, Goes, Leave,
     Unreserved, StartEnds
<1>6. PhaseOf(r)'
  BY <1>1, <1>2, <1>3, Replies DEF PhaseOf, Queued, StartLimited
<1>7. HoldsOf(r)'
  <2>1. HeldBy(r)' = HeldIn(at'[r], kind'[r]) /\ ~Open(r)'
    BY <1>1, <1>2, <1>3, Replies, PoolsOfKinds DEF back, HoldsOf, HeldIn, Open
  <2>. QED BY <2>1, <1>3 DEF HoldsOf, StartLimited, Alive, Unreserved, TypeOK, Writers,
       Starts, StartEnds, IsFirst
<1>8. ToldOf(r)'
  BY <1>1, <1>2, <1>3, Replies, SaysSomething DEF ToldOf, Ended, StartLimited, StartEnds
<1>9. EffectInv'
  BY <1>3, <1>5, EffectStays DEF StartLimited, HasEffect, Alive, OnlyTouches, Untouched,
     StartEnds
<1>10. ControlInv'
  BY ControlStays DEF StartLimited, StartEnds
<1>. QED  BY <1>1, <1>2, <1>4, <1>5, <1>6, <1>7, <1>8, <1>9, <1>10, Replies, StepOfOne

LEMMA StartReplaysKeeps ==
    ASSUME AdmissionInv, NEW r \in Requests, StartReplays(r)
    PROVE  AdmissionInv'
<1>. /\ TypeOK /\ PhaseOf(r) /\ HoldsOf(r) /\ ToldOf(r)
     /\ InLimit /\ EffectInv /\ ControlInv
  BY DEF AdmissionInv, RequestInv
<1>. DEFINE back == {"origin"}
<1>1. PICK plan \in {"UNCONFIRMED", "CONFLICT", "REPLAY", "NO_EFFECT", "PROGRESS"} :
        /\ Reply(r, plan, back)
        /\ plan = "REPLAY" => event = artifact[r]
  BY DEF StartReplays, StartEnds, Told, EffectInv
<1>2. plan \in Plans /\ back \in SUBSET Pools
  BY DEF Plans, Pools, AncillaryPools
<1>. HIDE DEF back
<1>3. /\ at[r] = "READY" /\ kind'[r] = kind[r] /\ artifact'[r] = artifact[r]
      /\ artifact[r] \in Artifacts
      /\ at'[r] = "OVER" /\ kind[r] \in Writers /\ kind[r] \in Kinds /\ ~Queued(r)'
  BY DEF StartReplays, PhaseOf, TypeOK, Goes, Queued, Leave, Starts, StartEnds
<1>4. TypeOK' /\ Persistent
  BY <1>1, <1>2, Replies DEF StartReplays, TypeOK, ControlTypeOK, Goes, Phases, Leave,
     Unreserved, Persistent, StartEnds
<1>5. OnlyTouches(r)
  BY <1>1, <1>2, Replies DEF OnlyTouches, Untouched, StartReplays, Goes, Leave, Unreserved,
     StartEnds
<1>6. PhaseOf(r)'
  BY <1>1, <1>2, <1>3, Replies DEF PhaseOf, Queued, StartReplays
<1>7. HoldsOf(r)'
  <2>1. HeldBy(r)' = HeldIn(at'[r], kind'[r]) /\ ~Open(r)'
    BY <1>1, <1>2, <1>3, Replies, PoolsOfKinds DEF back, HoldsOf, HeldIn, Open
  <2>. QED BY <2>1, <1>3 DEF HoldsOf, StartReplays, Alive, Unreserved, TypeOK, Writers,
       Starts, StartEnds, IsFirst
<1>8. ToldOf(r)'
  BY <1>1, <1>2, <1>3, Replies, SaysSomething DEF ToldOf, Ended, StartReplays, StartEnds
<1>9. EffectInv'
  BY <1>3, <1>5, EffectStays DEF StartReplays, HasEffect, Alive, OnlyTouches, Untouched,
     StartEnds
<1>10. ControlInv'
  BY ControlStays DEF StartReplays, StartEnds
<1>. QED  BY <1>1, <1>2, <1>4, <1>5, <1>6, <1>7, <1>8, <1>9, <1>10, Replies, StepOfOne

LEMMA WorkPersistsKeeps ==
    ASSUME AdmissionInv, NEW r \in Requests, WorkPersists(r)
    PROVE  AdmissionInv'
<1>. /\ TypeOK /\ PhaseOf(r) /\ HoldsOf(r) /\ ToldOf(r)
     /\ InLimit /\ EffectInv /\ ControlInv
  BY DEF AdmissionInv, RequestInv
<1>. DEFINE back == {"origin"}
<1>1. PICK plan \in {"RESULT"} : Reply(r, plan, back)
  BY DEF WorkPersists, WorkEnds
<1>2. plan \in Plans /\ back \in SUBSET Pools
  BY DEF Plans, Pools, AncillaryPools
<1>. HIDE DEF back
<1>3. /\ at[r] = "WORKING" /\ kind'[r] = kind[r] /\ artifact'[r] = artifact[r]
      /\ at'[r] = "OVER" /\ kind[r] \in Writers /\ kind[r] \in Kinds /\ ~Queued(r) /\ ~Queued(r)'
  BY DEF WorkPersists, PhaseOf, TypeOK, Goes, Queued, WorkEnds, Completes, Works
<1>4. TypeOK' /\ Persistent
  BY <1>1, <1>2, Replies DEF WorkPersists, TypeOK, ControlTypeOK, Goes, Phases, Persistent,
     WorkEnds, EntryGoes
<1>5. OnlyTouches(r)
  BY <1>1, <1>2, Replies DEF OnlyTouches, Untouched, WorkPersists, Goes, WorkEnds
<1>6. PhaseOf(r)'
  BY <1>1, <1>2, <1>3, Replies DEF PhaseOf, Queued, WorkPersists
<1>7. HoldsOf(r)'
  <2>1. HeldBy(r)' = HeldIn(at'[r], kind'[r]) /\ ~Open(r)'
    BY <1>1, <1>2, <1>3, Replies, PoolsOfKinds DEF back, HoldsOf, HeldIn, Open
  <2>. QED BY <2>1, <1>3 DEF HoldsOf, WorkPersists, Alive, Unreserved, TypeOK, Writers,
       WorkEnds, Completes, Works, EntryGoes
<1>8. ToldOf(r)'
  BY <1>1, <1>2, <1>3, Replies, SaysSomething DEF ToldOf, PhaseOf, Ended, WorkPersists,
     WorkEnds, Persisted
<1>9. EffectInv'
  <2>1. \A q \in Requests : HasEffect(q)' => HasEffect(q) /\ artifact'[q] = artifact[q]
    BY <1>3, <1>5 DEF WorkPersists, HasEffect, Alive, OnlyTouches, Untouched, WorkEnds
  <2>2. HasEffect(r) \/ kind[r] = "MANAGEMENT"
    BY <1>3 DEF HasEffect, Alive, Writers
  <2>. QED  BY <1>3, <2>1, <2>2, EntryMoves DEF WorkPersists, WorkEnds, Persisted, ToldOf,
       PhaseOf
<1>10. ControlInv'
  BY ControlStays DEF WorkPersists, WorkEnds
<1>. QED  BY <1>1, <1>2, <1>4, <1>5, <1>6, <1>7, <1>8, <1>9, <1>10, Replies, StepOfOne

LEMMA WorkHasNoEffectKeeps ==
    ASSUME AdmissionInv, NEW r \in Requests, WorkHasNoEffect(r)
    PROVE  AdmissionInv'
<1>. /\ TypeOK /\ PhaseOf(r) /\ HoldsOf(r) /\ ToldOf(r)
     /\ InLimit /\ EffectInv /\ ControlInv
  BY DEF AdmissionInv, RequestInv
<1>. DEFINE back == {"origin"}
<1>1. PICK plan \in {"NO_EFFECT"} : Reply(r, plan, back)
  BY DEF WorkHasNoEffect, WorkEnds
<1>2. plan \in Plans /\ back \in SUBSET Pools
  BY DEF Plans, Pools, AncillaryPools
<1>. HIDE DEF back
<1>3. /\ at[r] = "WORKING" /\ kind'[r] = kind[r] /\ artifact'[r] = artifact[r]
      /\ at'[r] = "OVER" /\ kind[r] \in Writers /\ kind[r] \in Kinds /\ ~Queued(r) /\ ~Queued(r)'
  BY DEF WorkHasNoEffect, PhaseOf, TypeOK, Goes, Queued, WorkEnds, Completes, Works
<1>4. TypeOK' /\ Persistent
  BY <1>1, <1>2, Replies DEF WorkHasNoEffect, TypeOK, ControlTypeOK, Goes, Phases, Persistent,
     WorkEnds, EntryGoes
<1>5. OnlyTouches(r)
  BY <1>1, <1>2, Replies DEF OnlyTouches, Untouched, WorkHasNoEffect, Goes, WorkEnds
<1>6. PhaseOf(r)'
  BY <1>1, <1>2, <1>3, Replies DEF PhaseOf, Queued, WorkHasNoEffect
<1>7. HoldsOf(r)'
  <2>1. HeldBy(r)' = HeldIn(at'[r], kind'[r]) /\ ~Open(r)'
    BY <1>1, <1>2, <1>3, Replies, PoolsOfKinds DEF back, HoldsOf, HeldIn, Open
  <2>. QED BY <2>1, <1>3 DEF HoldsOf, WorkHasNoEffect, Alive, Unreserved, TypeOK, Writers,
       WorkEnds, Completes, Works, EntryGoes
<1>8. ToldOf(r)'
  BY <1>1, <1>2, <1>3, Replies, SaysSomething DEF ToldOf, Ended, WorkHasNoEffect, WorkEnds
<1>9. EffectInv'
  <2>1. \A q \in Requests : HasEffect(q)' => HasEffect(q) /\ artifact'[q] = artifact[q]
    BY <1>3, <1>5 DEF WorkHasNoEffect, HasEffect, Alive, OnlyTouches, Untouched, WorkEnds
  <2>2. HasEffect(r) \/ kind[r] = "MANAGEMENT"
    BY <1>3 DEF HasEffect, Alive, Writers
  <2>. QED  BY <1>3, <2>1, EntryMoves DEF WorkHasNoEffect, WorkEnds, HasEffect, Alive, PhaseOf
<1>10. ControlInv'
  BY ControlStays DEF WorkHasNoEffect, WorkEnds
<1>. QED  BY <1>1, <1>2, <1>4, <1>5, <1>6, <1>7, <1>8, <1>9, <1>10, Replies, StepOfOne

LEMMA PausesKeeps ==
    ASSUME AdmissionInv, NEW r \in Requests, Pauses(r)
    PROVE  AdmissionInv'
<1>. /\ TypeOK /\ PhaseOf(r) /\ HoldsOf(r) /\ ToldOf(r)
     /\ InLimit /\ EffectInv /\ ControlInv
  BY DEF AdmissionInv, RequestInv
<1>. DEFINE back == {}
<1>1. PICK plan \in {"UNCONFIRMED"} : Reply(r, plan, back)
  BY DEF Pauses
<1>2. plan \in Plans /\ back \in SUBSET Pools
  BY DEF Plans, Pools, AncillaryPools
<1>. HIDE DEF back
<1>3. /\ at[r] = "WORKING" /\ kind'[r] = kind[r] /\ artifact'[r] = artifact[r]
      /\ at'[r] = "PAUSED" /\ kind[r] \in Writers /\ kind[r] \in Kinds /\ ~Queued(r)
      /\ ~Queued(r)'
  BY DEF Pauses, PhaseOf, TypeOK, Goes, Queued, Leave, Writers, Kinds, Works, EntryGoes
<1>4. TypeOK' /\ Persistent
  BY <1>2, Replies DEF Pauses, TypeOK, ControlTypeOK, Goes, Phases, Persistent, EntryGoes
<1>5. OnlyTouches(r)
  BY <1>2, Replies DEF OnlyTouches, Untouched, Pauses, Goes
<1>6. PhaseOf(r)'
  BY <1>1, <1>2, <1>3, Replies DEF PhaseOf, Queued, Pauses
<1>7. HoldsOf(r)'
  <2>1. HeldBy(r)' = HeldIn(at'[r], kind'[r]) /\ ~Open(r)'
    BY <1>1, <1>2, <1>3, Replies, PoolsOfKinds DEF back, HoldsOf, HeldIn, HttpPools, Open
  <2>. QED BY <2>1, <1>3 DEF HoldsOf, Pauses, Alive, Unreserved, TypeOK, Writers, Works,
       EntryGoes
<1>8. ToldOf(r)'
  BY <1>1, <1>2, <1>3, Replies, SaysSomething DEF ToldOf, Ended, Pauses
<1>9. EffectInv'
  <2>1. \A q \in Requests : HasEffect(q)' => HasEffect(q) /\ artifact'[q] = artifact[q]
    BY <1>3, <1>5 DEF Pauses, HasEffect, Alive, OnlyTouches, Untouched
  <2>2. HasEffect(r) \/ kind[r] = "MANAGEMENT"
    BY <1>3 DEF HasEffect, Alive, Writers
  <2>. QED  BY <1>3, <2>1, <2>2, EntryMoves DEF Pauses, PhaseOf
<1>10. ControlInv'
  BY ControlStays DEF Pauses
<1>. QED  BY <1>1, <1>2, <1>4, <1>5, <1>6, <1>7, <1>8, <1>9, <1>10, Replies, StepOfOne

LEMMA OwnerClosesKeeps ==
    ASSUME AdmissionInv, NEW r \in Requests, OwnerCloses(r)
    PROVE  AdmissionInv'
<1>. /\ TypeOK /\ PhaseOf(r) /\ HoldsOf(r) /\ ToldOf(r)
     /\ InLimit /\ EffectInv /\ ControlInv
  BY DEF AdmissionInv, RequestInv
<1>. DEFINE back == {}
<1>1. PICK plan \in {Late(r), "LOST"} : Reply(r, plan, back)
  BY DEF OwnerCloses
<1>2. plan \in Plans /\ back \in SUBSET Pools
  BY DEF Plans, Pools, AncillaryPools, Late
<1>. HIDE DEF back
<1>3. /\ kind'[r] = kind[r] /\ artifact'[r] = artifact[r] /\ Open(r) /\ kind[r] \in Kinds
      /\ at'[r] = at[r]
  BY DEF OwnerCloses, PhaseOf, TypeOK, Goes, Queued, Leave, Writers, Kinds, Open
<1>4. TypeOK' /\ Persistent
  BY <1>1, <1>2, Replies DEF OwnerCloses, TypeOK, ControlTypeOK, Persistent
<1>5. OnlyTouches(r)
  BY <1>1, <1>2, Replies DEF OnlyTouches, Untouched, OwnerCloses
<1>6. PhaseOf(r)'
  BY <1>1, <1>2, <1>3, Replies DEF PhaseOf, Queued, OwnerCloses, Open
<1>7. HoldsOf(r)'
  <2>1. HeldBy(r)' = HeldIn(at'[r], kind'[r]) /\ ~Open(r)'
    BY <1>1, <1>2, <1>3, Replies, PoolsOfKinds DEF back, HoldsOf, HeldIn, HttpPools,
       ValidationPools, Open
  <2>. QED BY <2>1, <1>3 DEF HoldsOf, OwnerCloses, Alive, Unreserved, TypeOK, Writers, Open
<1>8. ToldOf(r)'
  BY <1>1, <1>2, <1>3, Replies, SaysSomething DEF ToldOf, Ended, OwnerCloses, Late
<1>9. EffectInv'
  BY <1>3, <1>5, EffectStays DEF OwnerCloses, HasEffect, Alive, OnlyTouches, Untouched
<1>10. ControlInv'
  BY ControlStays DEF OwnerCloses
<1>. QED  BY <1>1, <1>2, <1>4, <1>5, <1>6, <1>7, <1>8, <1>9, <1>10, Replies, StepOfOne

LEMMA RefuseKeeps ==
    ASSUME AdmissionInv, NEW r \in Requests, NEW k \in KindOf[r], Refuse(r, k)
    PROVE  AdmissionInv'
<1>. /\ TypeOK /\ PhaseOf(r) /\ HoldsOf(r) /\ ToldOf(r)
     /\ InLimit /\ EffectInv /\ ControlInv
  BY DEF AdmissionInv, RequestInv
<1>1. PICK plan \in Plans : answer' = Answered(r, plan) /\ plan \notin {"RESULT", "REPLAY"}
  BY DEF Refuse, Refusal, Unavailable, Plans
<1>2. /\ answer' \in [Requests -> Answers]
      /\ \A q \in Requests \ {r} : answer'[q] = answer[q]
      /\ answer'[r] # "NONE" /\ answer'[r] \notin {"RESULT", "REPLAY"}
  BY <1>1, AnswersOnce, SaysSomething DEF Refuse, Arrives, PhaseOf
<1>3. /\ at[r] = "ABSENT" /\ k \in Kinds /\ kind'[r] = k /\ artifact'[r] = artifact[r]
      /\ at'[r] = "OVER" /\ kind' \in [Requests -> Kinds \cup {"NONE"}]
      /\ \A q \in Requests \ {r} : kind'[q] = kind[q]
      /\ answer'[r] # "NONE" /\ answer'[r] \notin {"RESULT", "REPLAY"}
  BY <1>2, KindAssumption DEF Refuse, Arrives, Goes, TypeOK
<1>4. TypeOK' /\ Persistent
  BY <1>1, <1>2, <1>3 DEF Refuse, TypeOK, ControlTypeOK, Goes, Phases, Persistent, Arrives,
     HeldBy
<1>5. OnlyTouches(r)
  BY <1>1, <1>2 DEF OnlyTouches, Untouched, Refuse, TypeOK, Goes, Arrives, HeldBy
<1>6. PhaseOf(r)'
  BY <1>1, <1>2, <1>3 DEF PhaseOf, Queued, Refuse
<1>7. HoldsOf(r)'
  <2>1. HeldBy(r)' = HeldIn(at'[r], kind'[r]) \cup (IF Open(r)' THEN {HttpPool(kind'[r])} ELSE {})
    BY <1>3 DEF Refuse, HoldsOf, HeldIn, HeldBy, Open, PhaseOf
  <2>. QED  BY <2>1, <1>3 DEF HoldsOf, PhaseOf, Refuse, Alive, TypeOK, Writers, Arrives, HeldBy
<1>8. ToldOf(r)'
  BY <1>1, <1>2, <1>3, SaysSomething DEF ToldOf, Ended, Refuse
<1>9. EffectInv'
  BY <1>3, <1>5, EffectStays DEF Refuse, HasEffect, Alive, OnlyTouches, Untouched, ToldOf,
     PhaseOf
<1>10. ControlInv'
  BY ControlStays DEF Refuse
<1>11. InLimit'
  BY DEF Refuse, HeldBy, InLimit
<1>. QED  BY <1>4, <1>5, <1>6, <1>7, <1>8, <1>9, <1>10, <1>11, StepOfOne

LEMMA TurnAwayKeeps ==
    ASSUME AdmissionInv, NEW r \in Requests, NEW k \in KindOf[r], TurnAway(r, k)
    PROVE  AdmissionInv'
<1>. /\ TypeOK /\ PhaseOf(r) /\ HoldsOf(r) /\ ToldOf(r)
     /\ InLimit /\ EffectInv /\ ControlInv
  BY DEF AdmissionInv, RequestInv
<1>1. PICK plan \in Plans : answer' = Answered(r, plan) /\ plan \notin {"RESULT", "REPLAY"}
  BY DEF TurnAway, TurnedAway, Plans
<1>2. /\ answer' \in [Requests -> Answers]
      /\ \A q \in Requests \ {r} : answer'[q] = answer[q]
      /\ answer'[r] # "NONE" /\ answer'[r] \notin {"RESULT", "REPLAY"}
  BY <1>1, AnswersOnce, SaysSomething DEF TurnAway, Arrives, PhaseOf
<1>3. /\ at[r] = "ABSENT" /\ k \in Kinds /\ kind'[r] = k /\ artifact'[r] = artifact[r]
      /\ at'[r] = "OVER" /\ kind' \in [Requests -> Kinds \cup {"NONE"}]
      /\ \A q \in Requests \ {r} : kind'[q] = kind[q]
      /\ answer'[r] # "NONE" /\ answer'[r] \notin {"RESULT", "REPLAY"}
  BY <1>2, KindAssumption DEF TurnAway, Arrives, Goes, TypeOK
<1>4. TypeOK' /\ Persistent
  BY <1>2, <1>3 DEF TurnAway, TypeOK, ControlTypeOK, Goes, Phases, Persistent
<1>5. OnlyTouches(r)
  BY <1>1, <1>2 DEF OnlyTouches, Untouched, TurnAway, TypeOK, Goes, Arrives, HeldBy
<1>6. PhaseOf(r)'
  BY <1>1, <1>2, <1>3 DEF PhaseOf, Queued, TurnAway
<1>7. HoldsOf(r)'
  <2>1. HeldBy(r)' = HeldIn(at'[r], kind'[r]) \cup (IF Open(r)' THEN {HttpPool(kind'[r])} ELSE {})
    BY <1>3 DEF TurnAway, HoldsOf, HeldIn, HeldBy, Open, PhaseOf
  <2>. QED  BY <2>1, <1>3 DEF HoldsOf, PhaseOf, TurnAway, Alive, TypeOK, Writers, Arrives,
       HeldBy
<1>8. ToldOf(r)'
  BY <1>1, <1>2, <1>3, SaysSomething DEF ToldOf, Ended, TurnAway
<1>9. EffectInv'
  BY <1>3, <1>5, EffectStays DEF TurnAway, HasEffect, Alive, OnlyTouches, Untouched, ToldOf
<1>10. ControlInv'
  BY ControlStays DEF TurnAway
<1>11. InLimit'
  BY DEF TurnAway, HeldBy, InLimit
<1>. QED  BY <1>4, <1>5, <1>6, <1>7, <1>8, <1>9, <1>10, <1>11, StepOfOne

LEMMA ActivateKeeps ==
    ASSUME AdmissionInv, NEW r \in Requests, Activate(r)
    PROVE  AdmissionInv'
<1>. /\ TypeOK /\ PhaseOf(r) /\ HoldsOf(r) /\ ToldOf(r)
     /\ InLimit /\ EffectInv /\ ControlInv
  BY DEF AdmissionInv, RequestInv
<1>1. PICK a \in Inputs(r) : artifact' = [artifact EXCEPT ![r] = a]
  BY DEF Activate
<1>2. /\ leases' \in [Pools -> SUBSET Requests]
      /\ \A q \in Requests \ {r} : HeldBy(q)' = HeldBy(q)
      /\ HeldBy(r)' = (HeldBy(r) \ ValidationPools) \cup {}
  <2>1. ValidationPools \in SUBSET Pools /\ {} \in SUBSET Pools
    BY DEF Pools, AncillaryPools
  <2>. QED  BY <2>1, MovesLeases DEF Activate
<1>3. /\ at[r] = "VALIDATING" /\ kind'[r] = kind[r] /\ answer'[r] = answer[r] /\ at'[r] = "READY"
      /\ kind[r] \in Writers /\ kind[r] \in Kinds
      /\ artifact'[r] \in Artifacts \cup {NoArtifact}
      /\ kind[r] = "NORMAL_RECOGNITION" => artifact'[r] \in Artifacts
  BY <1>1 DEF Activate, PhaseOf, TypeOK, Goes, ValidatedAs, Writers, Kinds, Inputs, Recognitions
<1>4. TypeOK' /\ Persistent
  BY <1>1, <1>2, <1>3 DEF Activate, TypeOK, ControlTypeOK, Goes, Phases, Persistent, Inputs
<1>5. OnlyTouches(r)
  BY <1>1, <1>2 DEF OnlyTouches, Untouched, Activate, TypeOK, Goes, Inputs
<1>6. PhaseOf(r)'
  BY <1>1, <1>2, <1>3 DEF PhaseOf, Queued, Activate
<1>7. HoldsOf(r)'
  <2>1. HeldBy(r)' = HeldIn(at'[r], kind'[r]) \cup (IF Open(r)' THEN {HttpPool(kind'[r])} ELSE {})
    BY <1>2, <1>3, PoolsOfKinds DEF HoldsOf, HeldIn, HttpPools, ValidationPools, Open, Writers
  <2>. QED  BY <2>1, <1>3 DEF HoldsOf, Activate, Alive, TypeOK, Writers, Inputs, PhaseOf
<1>8. ToldOf(r)'
  BY <1>1, <1>2, <1>3, SaysSomething DEF ToldOf, Ended, Activate
<1>9. EffectInv'
  BY <1>3, <1>5, EffectStays DEF Activate, HasEffect, Alive, OnlyTouches, Untouched, ToldOf
<1>10. ControlInv'
  BY ControlStays DEF Activate
<1>11. InLimit'
  <2>1. \A pool \in Pools : leases'[pool] \subseteq leases[pool]
    BY DEF Activate, Moved
  <2>. QED  BY <2>1, FewerLeases
<1>. QED  BY <1>4, <1>5, <1>6, <1>7, <1>8, <1>9, <1>10, <1>11, StepOfOne

LEMMA LoginValidatedKeeps ==
    ASSUME AdmissionInv, NEW r \in Requests, LoginValidated(r)
    PROVE  AdmissionInv'
<1>. /\ TypeOK /\ PhaseOf(r) /\ HoldsOf(r) /\ ToldOf(r)
     /\ InLimit /\ EffectInv /\ ControlInv
  BY DEF AdmissionInv, RequestInv
<1>2. /\ leases' \in [Pools -> SUBSET Requests]
      /\ \A q \in Requests \ {r} : HeldBy(q)' = HeldBy(q)
      /\ HeldBy(r)' = (HeldBy(r) \ (ValidationPools \cup {"scrypt"})) \cup {}
  <2>1. (ValidationPools \cup {"scrypt"}) \in SUBSET Pools /\ {} \in SUBSET Pools
    BY DEF Pools, AncillaryPools
  <2>. QED  BY <2>1, MovesLeases DEF LoginValidated
<1>3. /\ at[r] = "VALIDATING" /\ kind'[r] = kind[r] /\ answer'[r] = answer[r]
      /\ at'[r] = "WORKING"
      /\ kind[r] \in {"LOGIN"} /\ kind[r] \in Kinds
  BY DEF LoginValidated, PhaseOf, TypeOK, Goes, ValidatedAs, Writers, Kinds
<1>4. TypeOK' /\ Persistent
  BY <1>2, <1>3 DEF LoginValidated, TypeOK, ControlTypeOK, Goes, Phases, Persistent
<1>5. OnlyTouches(r)
  BY <1>2 DEF OnlyTouches, Untouched, LoginValidated, TypeOK, Goes
<1>6. PhaseOf(r)'
  BY <1>2, <1>3 DEF PhaseOf, Queued, Writers, LoginValidated
<1>7. HoldsOf(r)'
  <2>1. HeldBy(r)' = HeldIn(at'[r], kind'[r]) \cup (IF Open(r)' THEN {HttpPool(kind'[r])} ELSE {})
    BY <1>2, <1>3, PoolsOfKinds DEF HoldsOf, HeldIn, HttpPools, ValidationPools, Open
  <2>. QED  BY <2>1, <1>3 DEF HoldsOf, LoginValidated, Alive, TypeOK, Writers
<1>8. ToldOf(r)'
  BY <1>2, <1>3, SaysSomething DEF ToldOf, Ended, LoginValidated
<1>9. EffectInv'
  BY <1>3, <1>5, EffectStays DEF LoginValidated, HasEffect, Alive, OnlyTouches, Untouched
<1>10. ControlInv'
  BY ControlStays DEF LoginValidated
<1>11. InLimit'
  <2>1. \A pool \in Pools : leases'[pool] \subseteq leases[pool]
    BY DEF LoginValidated, Moved
  <2>. QED  BY <2>1, FewerLeases
<1>. QED  BY <1>4, <1>5, <1>6, <1>7, <1>8, <1>9, <1>10, <1>11, StepOfOne

LEMMA QueryValidatedKeeps ==
    ASSUME AdmissionInv, NEW r \in Requests, QueryValidated(r)
    PROVE  AdmissionInv'
<1>. /\ TypeOK /\ PhaseOf(r) /\ HoldsOf(r) /\ ToldOf(r)
     /\ InLimit /\ EffectInv /\ ControlInv
  BY DEF AdmissionInv, RequestInv
<1>2. /\ leases' \in [Pools -> SUBSET Requests]
      /\ \A q \in Requests \ {r} : HeldBy(q)' = HeldBy(q)
      /\ HeldBy(r)' = (HeldBy(r) \ {}) \cup {"queryDb"}
  <2>1. {} \in SUBSET Pools /\ {"queryDb"} \in SUBSET Pools
    BY DEF Pools, AncillaryPools
  <2>. QED  BY <2>1, MovesLeases DEF QueryValidated
<1>3. /\ at[r] = "VALIDATING" /\ kind'[r] = kind[r] /\ answer'[r] = answer[r]
      /\ at'[r] = "WORKING"
      /\ kind[r] \in {"QUERY"} /\ kind[r] \in Kinds
  BY DEF QueryValidated, PhaseOf, TypeOK, Goes, ValidatedAs, Writers, Kinds
<1>4. TypeOK' /\ Persistent
  BY <1>2, HolderAssumption DEF QueryValidated, TypeOK, ControlTypeOK, Goes, Phases, Persistent
<1>5. OnlyTouches(r)
  BY <1>2 DEF OnlyTouches, Untouched, QueryValidated, TypeOK, Goes
<1>6. PhaseOf(r)'
  BY <1>2, <1>3 DEF PhaseOf, Queued, Writers, QueryValidated
<1>7. HoldsOf(r)'
  <2>1. HeldBy(r)' = HeldIn(at'[r], kind'[r]) \cup (IF Open(r)' THEN {HttpPool(kind'[r])} ELSE {})
    BY <1>2, <1>3, PoolsOfKinds DEF HoldsOf, HeldIn, Open, Writers
  <2>. QED  BY <2>1, <1>3 DEF HoldsOf, QueryValidated, Alive, TypeOK, Writers
<1>8. ToldOf(r)'
  BY <1>2, <1>3, SaysSomething DEF ToldOf, Ended, QueryValidated
<1>9. EffectInv'
  BY <1>3, <1>5, EffectStays DEF QueryValidated, HasEffect, Alive, OnlyTouches, Untouched
<1>10. ControlInv'
  BY ControlStays DEF QueryValidated, MayRead
<1>11. InLimit'
  <2>1. {"queryDb"} \in SUBSET Pools /\ {} \in SUBSET Pools /\ HasRoom("queryDb")
    BY DEF Pools, AncillaryPools, QueryValidated
  <2>. QED  BY <2>1, LimitsHold DEF QueryValidated
<1>. QED  BY <1>4, <1>5, <1>6, <1>7, <1>8, <1>9, <1>10, <1>11, StepOfOne

LEMMA StartWorkKeeps ==
    ASSUME AdmissionInv, NEW r \in Requests, StartWork(r)
    PROVE  AdmissionInv'
<1>. /\ TypeOK /\ PhaseOf(r) /\ HoldsOf(r) /\ ToldOf(r)
     /\ InLimit /\ EffectInv /\ ControlInv
  BY DEF AdmissionInv, RequestInv
<1>3. /\ at[r] = "READY" /\ kind'[r] = kind[r] /\ answer'[r] = answer[r] /\ at'[r] = "WORKING"
      /\ kind[r] \in Writers /\ kind[r] \in Kinds
  BY DEF StartWork, Starts, PhaseOf, TypeOK, Goes, Writers, Kinds
<1>4. TypeOK' /\ Persistent
  BY HolderAssumption DEF StartWork, TypeOK, ControlTypeOK, Goes, Phases, Persistent,
     Registers, Leave, Unreserved, EntryGoes
<1>5. OnlyTouches(r)
  BY DEF OnlyTouches, Untouched, StartWork, Goes, Registers, Leave, Unreserved, HeldBy
<1>6. PhaseOf(r)'
  BY <1>3 DEF PhaseOf, Queued, StartWork, Leave, Writers
<1>7. HoldsOf(r)'
  <2>1. HeldBy(r)' = HeldIn(at'[r], kind'[r]) \cup (IF Open(r)' THEN {HttpPool(kind'[r])} ELSE {})
    BY <1>3 DEF StartWork, HoldsOf, HeldIn, HeldBy, Open, PhaseOf
  <2>. QED  BY <2>1, <1>3 DEF HoldsOf, StartWork, Alive, Writers, Registers, Unreserved
<1>8. ToldOf(r)'
  BY <1>3, SaysSomething DEF ToldOf, Ended, StartWork
<1>9. EffectInv'
  <2>1. \A q \in Requests : HasEffect(q)' => q = r \/ HasEffect(q)
    BY <1>5 DEF HasEffect, Alive, OnlyTouches, Untouched
  <2>2. \A q \in Requests : q # r => artifact'[q] = artifact[q]
    BY DEF StartWork
  <2>3. CASE kind[r] = "MANAGEMENT"
    <3>1. ~HasEffect(r)' /\ UNCHANGED <<entry, event, artifact>>
      BY <1>3, <2>3 DEF HasEffect, StartWork, Registers, EntryGoes
    <3>. QED  BY <2>1, <3>1, EffectStays
  <2>4. CASE kind[r] = "NORMAL_RECOGNITION"
    <3>1. /\ entry = NoEntry /\ entry'.state = "RUNNING" /\ entry'.artifact = artifact[r]
          /\ artifact'[r] = artifact[r] /\ artifact[r] \in Artifacts
      BY <1>3, <2>4 DEF StartWork, Registers, EntryGoes, PhaseOf
    <3>2. \A q \in Requests : ~HasEffect(q)
      BY <3>1 DEF EffectInv, NoEntry
    <3>. QED  BY <2>1, <3>1, <3>2 DEF EffectInv
  <2>. QED  BY <1>3, <2>3, <2>4 DEF Writers
<1>10. ControlInv'
  BY ControlStays DEF StartWork, MayIssue
<1>11. InLimit'
  BY DEF StartWork, InLimit
<1>. QED  BY <1>4, <1>5, <1>6, <1>7, <1>8, <1>9, <1>10, <1>11, StepOfOne

LEMMA PublishKeeps ==
    ASSUME AdmissionInv, NEW r \in Requests, Publish(r)
    PROVE  AdmissionInv'
<1>. /\ TypeOK /\ PhaseOf(r) /\ HoldsOf(r) /\ ToldOf(r)
     /\ InLimit /\ EffectInv /\ ControlInv
  BY DEF AdmissionInv, RequestInv
<1>2. /\ leases' \in [Pools -> SUBSET Requests]
      /\ \A q \in Requests \ {r} : HeldBy(q)' = HeldBy(q)
      /\ HeldBy(r)' = (HeldBy(r) \ {"origin"}) \cup {}
  <2>1. {"origin"} \in SUBSET Pools /\ {} \in SUBSET Pools
    BY DEF Pools, AncillaryPools
  <2>. QED  BY <2>1, MovesLeases DEF Publish
<1>3. /\ at[r] = "PAUSED" /\ kind'[r] = kind[r] /\ answer'[r] = answer[r] /\ at'[r] = "OVER"
      /\ kind[r] \in Writers /\ kind[r] \in Kinds
  BY DEF Publish, PhaseOf, TypeOK, Goes, Writers, Kinds
<1>4. TypeOK' /\ Persistent
  BY <1>2, <1>3 DEF Publish, TypeOK, ControlTypeOK, Goes, Phases, Persistent, EntryGoes
<1>5. OnlyTouches(r)
  BY <1>2 DEF OnlyTouches, Untouched, Publish, TypeOK, Goes, EntryGoes
<1>6. PhaseOf(r)'
  BY <1>2, <1>3 DEF PhaseOf, Queued, Publish
<1>7. HoldsOf(r)'
  <2>1. HeldBy(r)' = HeldIn(at'[r], kind'[r]) \cup (IF Open(r)' THEN {HttpPool(kind'[r])} ELSE {})
    BY <1>2, <1>3, PoolsOfKinds DEF HoldsOf, HeldIn, HttpPools, Open
  <2>. QED  BY <2>1, <1>3 DEF HoldsOf, Publish, Alive, TypeOK, Writers, EntryGoes
<1>8. ToldOf(r)'
  BY <1>2, <1>3, SaysSomething DEF ToldOf, Ended, Publish
<1>9. EffectInv'
  <2>1. \A q \in Requests : HasEffect(q)' => HasEffect(q) /\ artifact'[q] = artifact[q]
    BY <1>3, <1>5 DEF Publish, HasEffect, Alive, OnlyTouches, Untouched
  <2>2. HasEffect(r) \/ kind[r] = "MANAGEMENT"
    BY <1>3 DEF HasEffect, Alive, Writers
  <2>. QED  BY <1>3, <2>1, <2>2, EntryMoves DEF Publish, PhaseOf, ToldOf
<1>10. ControlInv'
  BY ControlStays DEF Publish
<1>11. InLimit'
  <2>1. \A pool \in Pools : leases'[pool] \subseteq leases[pool]
    BY DEF Publish, Moved
  <2>. QED  BY <2>1, FewerLeases
<1>. QED  BY <1>4, <1>5, <1>6, <1>7, <1>8, <1>9, <1>10, <1>11, StepOfOne

LEMMA CommitKeeps ==
    ASSUME AdmissionInv, NEW r \in Requests, Commit(r)
    PROVE  AdmissionInv'
<1>. /\ TypeOK /\ PhaseOf(r) /\ HoldsOf(r) /\ ToldOf(r)
     /\ InLimit /\ EffectInv /\ ControlInv
  BY DEF AdmissionInv, RequestInv
<1>1. /\ kind[r] \in Writers /\ at[r] \in {"WORKING", "PAUSED", "ABANDONED"} /\ r \notin committed
      /\ kind[r] = "NORMAL_RECOGNITION" =>
            event = NoArtifact /\ event' = artifact[r] /\ artifact[r] \in Artifacts
      /\ kind[r] # "NORMAL_RECOGNITION" => event' = event
  BY DEF Commit, Alive, PhaseOf
<1>2. event = NoArtifact => event \notin Artifacts
  BY ArtifactAssumption
<1>3. /\ Alive(r) /\ kind'[r] = kind[r] /\ answer'[r] = answer[r] /\ at'[r] = at[r]
      /\ artifact'[r] = artifact[r]
  BY DEF Commit
<1>4. TypeOK' /\ Persistent
  BY <1>1, <1>2 DEF Commit, TypeOK, ControlTypeOK, Goes, Phases, Persistent, HeldBy
<1>5. OnlyTouches(r)
  BY DEF OnlyTouches, Untouched, Commit, TypeOK, Goes, HeldBy
<1>6. PhaseOf(r)'
  BY <1>3 DEF PhaseOf, Queued, Commit
<1>7. HoldsOf(r)'
  <2>1. HeldBy(r)' = HeldIn(at'[r], kind'[r]) \cup (IF Open(r)' THEN {HttpPool(kind'[r])} ELSE {})
    BY <1>3 DEF Commit, HoldsOf, HeldIn, HeldBy, Open, PhaseOf
  <2>. QED  BY <2>1, <1>3 DEF HoldsOf, Commit, Alive, TypeOK, Writers, HeldBy
<1>8. ToldOf(r)'
  BY <1>1, <1>2, <1>3 DEF ToldOf, Ended, Commit
<1>9. EffectInv'
  <2>1. \A q \in Requests : HasEffect(q)' => HasEffect(q) /\ artifact'[q] = artifact[q]
    BY <1>1, <1>5 DEF Commit, HasEffect, Alive, OnlyTouches, Untouched
  <2>2. entry' = entry /\ (entry.state = "CANONICAL" => event' = event)
    BY <1>1, <1>2 DEF Commit, EffectInv
  <2>. QED  BY <2>1, <2>2 DEF EffectInv
<1>10. ControlInv'
  BY ControlStays DEF Commit
<1>11. InLimit'
  BY DEF Commit, InLimit
<1>. QED  BY <1>4, <1>5, <1>6, <1>7, <1>8, <1>9, <1>10, <1>11, StepOfOne

LEMMA AdmitKeeps ==
    ASSUME AdmissionInv, NEW r \in Requests, NEW k \in KindOf[r], Admit(r, k)
    PROVE  AdmissionInv'
<1>. /\ TypeOK /\ PhaseOf(r) /\ HoldsOf(r) /\ ToldOf(r)
     /\ InLimit /\ EffectInv /\ ControlInv
  BY DEF AdmissionInv, RequestInv
<1>. DEFINE taken == Bundle(k) \cup (IF k = "LOGIN" THEN {"scrypt"} ELSE {})
<1>1. PICK got \in {taken, taken \ HttpPools} :
        /\ leases' = Moved(r, {}, got)
        /\ \/ got = taken /\ UNCHANGED answer
           \/ got = taken \ HttpPools /\ answer' = Answered(r, "LOST")
  BY DEF Admit
<1>2. /\ k \in Kinds /\ taken \in SUBSET Pools /\ got \in SUBSET taken
      /\ {} \in SUBSET Pools /\ \A pool \in taken : HasRoom(pool)
  <2>1. k \in Kinds
    BY KindAssumption
  <2>2. CanAcquire(k)
    BY DEF Admit, Refusal, Unavailable
  <2>. QED  BY <2>1, <2>2, PoolsOfKinds DEF Admit, CanAcquire, Pools, AncillaryPools
<1>. HIDE DEF taken
<1>3. /\ leases' \in [Pools -> SUBSET Requests] /\ InLimit'
      /\ \A q \in Requests \ {r} : HeldBy(q)' = HeldBy(q)
      /\ HeldBy(r)' = (HeldBy(r) \ {}) \cup got
  <2>1. got \in SUBSET Pools /\ \A pool \in got : HasRoom(pool)
    BY <1>2
  <2>. QED  BY <1>1, <1>2, <2>1, MovesLeases, LimitsHold
<1>4. /\ at[r] = "ABSENT" /\ kind[r] = "NONE" /\ answer[r] = "NONE" /\ at'[r] = "VALIDATING"
      /\ kind'[r] = k /\ artifact'[r] = artifact[r] /\ ~Queued(r)
      /\ kind' \in [Requests -> Kinds \cup {"NONE"}]
      /\ \A q \in Requests \ {r} : kind'[q] = kind[q]
  BY <1>2 DEF Admit, Arrives, Goes, TypeOK, PhaseOf
<1>5. /\ answer' \in [Requests -> Answers]
      /\ \A q \in Requests \ {r} : answer'[q] = answer[q]
      /\ \/ got = taken /\ answer'[r] = "NONE"
         \/ got = taken \ HttpPools /\ answer'[r] = "UNCONFIRMED"
  <2>1. "LOST" \in Plans
    BY DEF Plans
  <2>2. CASE UNCHANGED answer /\ got = taken
    BY <1>4, <2>2 DEF TypeOK
  <2>3. CASE got = taken \ HttpPools /\ answer' = Answered(r, "LOST")
    BY <1>4, <2>1, <2>3, AnswersOnce, SaysSomething
  <2>. QED  BY <1>1, <2>2, <2>3
<1>6. TypeOK' /\ Persistent
  BY <1>3, <1>4, <1>5 DEF Admit, TypeOK, ControlTypeOK, Goes, Phases, Persistent, Enters
<1>7. OnlyTouches(r)
  BY <1>3, <1>4, <1>5 DEF OnlyTouches, Untouched, Admit, TypeOK, Goes, Enters
<1>8. PhaseOf(r)'
  BY <1>2, <1>4 DEF PhaseOf, Queued, Admit, Enters
<1>9. HoldsOf(r)'
  <2>1. HeldBy(r) = {}
    BY <1>4 DEF HoldsOf, HeldIn, Open
  <2>2. HeldBy(r)' = HeldIn(at'[r], kind'[r]) \cup (IF Open(r)' THEN {HttpPool(kind'[r])} ELSE {})
    BY <1>2, <1>3, <1>4, <1>5, <2>1, PoolsOfKinds
       DEF taken, Bundle, HeldIn, Open, HttpPools, ValidationPools
  <2>3. r \notin reads /\ r \notin persistence /\ r \notin reserved
    BY <1>4 DEF HoldsOf, Alive
  <2>. QED  BY <1>4, <2>2, <2>3 DEF HoldsOf, Admit, Alive
<1>10. ToldOf(r)'
  BY <1>4, <1>5 DEF ToldOf, Admit
<1>11. EffectInv'
  BY <1>4, <1>7, EffectStays DEF Admit, HasEffect, Alive, OnlyTouches, Untouched, ToldOf
<1>12. ControlInv'
  BY ControlStays DEF Admit
<1>. QED  BY <1>3, <1>6, <1>7, <1>8, <1>9, <1>10, <1>11, <1>12, StepOfOne

LEMMA BindFailsKeeps ==
    ASSUME AdmissionInv, NEW r \in Requests, NEW k \in KindOf[r], BindFails(r, k)
    PROVE  AdmissionInv'
<1>. /\ TypeOK /\ PhaseOf(r) /\ HoldsOf(r) /\ ToldOf(r)
     /\ InLimit /\ EffectInv /\ ControlInv
  BY DEF AdmissionInv, RequestInv
<1>1. PICK plan \in {"UNCONFIRMED", "UNAVAILABLE"} : answer' = Answered(r, plan)
  BY DEF BindFails, Unavailable
<1>2. /\ leases' \in [Pools -> SUBSET Requests] /\ InLimit'
      /\ \A q \in Requests \ {r} : HeldBy(q)' = HeldBy(q)
      /\ HeldBy(r)' = (HeldBy(r) \ {}) \cup {"origin"}
  <2>1. CanAcquire(k) /\ k \in Writers
    BY DEF BindFails, Refusal, Unavailable
  <2>2. {"origin"} \in SUBSET Pools /\ {} \in SUBSET Pools
        /\ \A pool \in {"origin"} : HasRoom(pool)
    BY <2>1 DEF CanAcquire, Bundle, OriginPool, Writers, Pools
  <2>3. leases' = Moved(r, {}, {"origin"})
    BY DEF BindFails
  <2>. QED  BY <2>2, <2>3, MovesLeases, LimitsHold
<1>3. /\ answer' \in [Requests -> Answers]
      /\ \A q \in Requests \ {r} : answer'[q] = answer[q]
      /\ answer'[r] \in {"UNCONFIRMED", "NO_EFFECT"}
  <2>1. plan \in Plans /\ answer[r] = "NONE"
    BY DEF Plans, BindFails, Arrives, PhaseOf
  <2>. QED  BY <1>1, <2>1, AnswersOnce, SaysSomething
<1>4. /\ at[r] = "ABSENT" /\ kind[r] = "NONE" /\ at'[r] = "UNBOUND"
      /\ kind'[r] = k /\ k \in Writers /\ k \in Kinds /\ artifact'[r] = artifact[r] /\ ~Queued(r)
      /\ kind' \in [Requests -> Kinds \cup {"NONE"}]
      /\ \A q \in Requests \ {r} : kind'[q] = kind[q]
  BY KindAssumption DEF BindFails, Arrives, Goes, TypeOK, PhaseOf
<1>5. TypeOK' /\ Persistent
  BY <1>2, <1>3, <1>4 DEF BindFails, TypeOK, ControlTypeOK, Goes, Phases, Persistent, Fails
<1>6. OnlyTouches(r)
  BY <1>2, <1>3, <1>4 DEF OnlyTouches, Untouched, BindFails, TypeOK, Goes
<1>7. PhaseOf(r)'
  BY <1>4 DEF PhaseOf, Queued, BindFails
<1>8. HoldsOf(r)'
  <2>1. HeldBy(r)' = {"origin"} /\ ~Open(r)'
    BY <1>2, <1>3, <1>4 DEF HoldsOf, HeldIn, Open
  <2>2. r \notin reads /\ r \notin persistence /\ r \notin reserved
    BY <1>4 DEF HoldsOf, Alive
  <2>. QED  BY <1>4, <2>1, <2>2 DEF HoldsOf, HeldIn, BindFails, Alive
<1>9. ToldOf(r)'
  BY <1>3, <1>4 DEF ToldOf, Ended, BindFails
<1>10. EffectInv'
  BY <1>4, <1>6, EffectStays DEF BindFails, HasEffect, Alive, OnlyTouches, Untouched, ToldOf
<1>11. ControlInv'
  BY ControlStays DEF BindFails
<1>. QED  BY <1>2, <1>5, <1>6, <1>7, <1>8, <1>9, <1>10, <1>11, StepOfOne

-----------------------------------------------------------------------------
(* The steps that close the coordinator. *)

\* Those who were queued and ready keep their origin, those who validate do not
\* notice before they are validated.
LEMMA OthersAreDropped ==
    ASSUME AdmissionInv, NEW r \in Requests, NEW phase \in {"UNKNOWN", "ABANDONED"},
           FailsClosed(r, phase), UNCHANGED <<kind, artifact, reads, committed, event>>,
                                              Persistent,
           \A q \in Requests \ {r} :
               /\ answer'[q] = answer[q] /\ HeldBy(q)' = HeldBy(q)
               /\ (q \in persistence' <=> q \in persistence)
               /\ (q \in reserved' <=> q \in reserved)
    PROVE  /\ \A q \in Requests \ {r} : RequestInv(q)'
           /\ \A q \in Requests \ {r} : HasEffect(q)' => HasEffect(q)
<1>. SUFFICES ASSUME NEW q \in Requests \ {r}
              PROVE  RequestInv(q)' /\ (HasEffect(q)' => HasEffect(q))
  OBVIOUS
<1>1. PhaseOf(q) /\ HoldsOf(q) /\ ToldOf(q) /\ TypeOK
  BY DEF AdmissionInv, RequestInv
<1>2. /\ at'[q] = IF at[q] = "READY" THEN "BLOCKED" ELSE at[q]
      /\ ~Queued(q)' /\ kind'[q] = kind[q] /\ artifact'[q] = artifact[q]
      /\ answer'[q] = answer[q]
  BY DEF FailsClosed, Leave, Queued
<1>3. PhaseOf(q)'
  BY <1>1, <1>2 DEF PhaseOf
<1>4. Alive(q)' <=> Alive(q)
  BY <1>2 DEF Alive
<1>5. HoldsOf(q)'
  <2>1. HeldIn(at'[q], kind'[q]) = HeldIn(at[q], kind[q]) /\ (Open(q)' <=> Open(q))
    BY <1>2 DEF HeldIn, Open
  <2>. QED  BY <1>1, <1>2, <1>4, <2>1 DEF HoldsOf, Persistent
<1>6. ToldOf(q)'
  BY <1>1, <1>2 DEF ToldOf, Ended
<1>. QED  BY <1>2, <1>3, <1>4, <1>5, <1>6 DEF RequestInv, HasEffect

LEMMA StartUnknownKeeps ==
    ASSUME AdmissionInv, NEW r \in Requests, StartUnknown(r)
    PROVE  AdmissionInv'
<1>. /\ TypeOK /\ PhaseOf(r) /\ HoldsOf(r) /\ ToldOf(r)
     /\ InLimit /\ EffectInv /\ ControlInv
  BY DEF AdmissionInv, RequestInv
<1>1. /\ Reply(r, "UNCONFIRMED", {}) /\ FailsClosed(r, "UNKNOWN")
      /\ "UNCONFIRMED" \in Plans /\ {} \in SUBSET Pools
  BY DEF StartUnknown, Plans
<1>2. /\ leases' \in [Pools -> SUBSET Requests] /\ answer' \in [Requests -> Answers]
      /\ \A q \in Requests \ {r} : HeldBy(q)' = HeldBy(q) /\ answer'[q] = answer[q]
      /\ HeldBy(r)' = HeldBy(r) \ ({} \cup HttpPools)
      /\ answer'[r] # "NONE"
      /\ answer'[r] \in {answer[r], "UNCONFIRMED"}
      /\ InLimit'
  BY <1>1, Replies, SaysSomething
<1>3. /\ at[r] = "READY" /\ at'[r] = "UNKNOWN" /\ ~Queued(r)' /\ kind[r] \in Writers
      /\ kind'[r] = kind[r] /\ kind[r] \in Kinds /\ artifact'[r] = artifact[r]
  BY <1>1 DEF StartUnknown, Starts, FailsClosed, Leave, Queued, PhaseOf, Writers, Kinds
<1>4. TypeOK' /\ Persistent
  <2>1. /\ entry' \in [state : {"NONE", "RUNNING", "UNKNOWN", "CANONICAL", "SAFE"},
                        artifact : Artifacts \cup {NoArtifact}]
        /\ reserved' \subseteq Requests
    BY DEF StartUnknown, TypeOK, Registers, EntryGoes, Unreserved
  <2>2. /\ fault' \in Faults \cup {"NONE"} /\ frozen' \in BOOLEAN
    BY DEF StartUnknown, Freezes, Fails, TypeOK
  <2>3. at' \in [Requests -> Phases] /\ fence' = "FAILED" /\ queued' = {} /\ ahead' = {}
    BY <1>1 DEF FailsClosed, Leave, TypeOK, Phases
  <2>. QED  BY <1>2, <2>1, <2>2, <2>3 DEF StartUnknown, TypeOK, ControlTypeOK, Persistent
<1>5. /\ \A q \in Requests \ {r} : RequestInv(q)'
      /\ \A q \in Requests \ {r} : HasEffect(q)' => HasEffect(q)
  BY <1>1, <1>2, <1>4, OthersAreDropped DEF StartUnknown, Registers, Unreserved
<1>6. PhaseOf(r)'
  BY <1>3 DEF PhaseOf
<1>7. HoldsOf(r)'
  <2>1. HeldBy(r)' = HeldIn(at'[r], kind'[r]) \cup (IF Open(r)' THEN {HttpPool(kind'[r])} ELSE {})
    BY <1>2, <1>3, PoolsOfKinds DEF HoldsOf, HeldIn, HttpPools, Open
  <2>. QED  BY <1>3, <2>1 DEF HoldsOf, StartUnknown, Alive, Registers, Unreserved, TypeOK,
       Writers
<1>8. ToldOf(r)'
  BY <1>2, <1>3 DEF StartUnknown, ToldOf, Ended
<1>9. EffectInv'
  <2>1. ~HasEffect(r)'
    BY <1>3 DEF StartUnknown, HasEffect, Alive, ToldOf
  <2>2. \A q \in Requests : HasEffect(q)' => HasEffect(q) /\ artifact'[q] = artifact[q]
    BY <1>5, <2>1 DEF StartUnknown
  <2>3. CASE entry' = entry
    BY <2>2, <2>3, EffectStays DEF StartUnknown
  <2>4. CASE entry' # entry
    <3>1. /\ entry = NoEntry /\ entry'.state = "UNKNOWN" /\ entry'.artifact = artifact[r]
          /\ artifact[r] \in Artifacts
      BY <1>3, <2>4 DEF StartUnknown, Registers, EntryGoes, PhaseOf
    <3>2. \A q \in Requests : ~HasEffect(q)
      BY <3>1 DEF EffectInv, NoEntry
    <3>. QED  BY <2>2, <3>1, <3>2 DEF EffectInv
  <2>. QED  BY <2>3, <2>4
<1>10. ControlInv'
  BY ControlStays DEF StartUnknown
<1>11. \A q \in Requests : RequestInv(q)'
  BY <1>5, <1>6, <1>7, <1>8 DEF RequestInv
<1>. QED  BY <1>2, <1>4, <1>9, <1>10, <1>11 DEF AdmissionInv

LEMMA WorkFailsKeeps ==
    ASSUME AdmissionInv, NEW r \in Requests, WorkFails(r)
    PROVE  AdmissionInv'
<1>. /\ TypeOK /\ PhaseOf(r) /\ HoldsOf(r) /\ ToldOf(r)
     /\ InLimit /\ EffectInv /\ ControlInv
  BY DEF AdmissionInv, RequestInv
<1>1. /\ Reply(r, "UNCONFIRMED", {}) /\ FailsClosed(r, "UNKNOWN")
      /\ "UNCONFIRMED" \in Plans /\ {} \in SUBSET Pools
  BY DEF WorkFails, Plans
<1>2. /\ leases' \in [Pools -> SUBSET Requests] /\ answer' \in [Requests -> Answers]
      /\ \A q \in Requests \ {r} : HeldBy(q)' = HeldBy(q) /\ answer'[q] = answer[q]
      /\ HeldBy(r)' = HeldBy(r) \ ({} \cup HttpPools)
      /\ answer'[r] # "NONE"
      /\ answer'[r] \in {answer[r], "UNCONFIRMED"}
      /\ InLimit'
  BY <1>1, Replies, SaysSomething
<1>3. /\ at[r] = "WORKING" /\ at'[r] = "UNKNOWN" /\ ~Queued(r)' /\ kind[r] \in Writers
      /\ kind'[r] = kind[r] /\ kind[r] \in Kinds /\ artifact'[r] = artifact[r]
  BY <1>1 DEF WorkFails, Works, FailsClosed, Leave, Queued, PhaseOf, Writers, Kinds
<1>4. TypeOK' /\ Persistent
  BY <1>2 DEF WorkFails, FailsClosed, TypeOK, ControlTypeOK, Phases, Persistent, Leave,
     EntryGoes
<1>5. /\ \A q \in Requests \ {r} : RequestInv(q)'
      /\ \A q \in Requests \ {r} : HasEffect(q)' => HasEffect(q)
  BY <1>1, <1>2, <1>4, OthersAreDropped DEF WorkFails, Registers, Unreserved
<1>6. PhaseOf(r)'
  BY <1>3 DEF PhaseOf
<1>7. HoldsOf(r)'
  <2>1. HeldBy(r)' = HeldIn(at'[r], kind'[r]) \cup (IF Open(r)' THEN {HttpPool(kind'[r])} ELSE {})
    BY <1>2, <1>3, PoolsOfKinds DEF HoldsOf, HeldIn, HttpPools, Open
  <2>. QED  BY <1>3, <2>1 DEF HoldsOf, WorkFails, Alive, Registers, Unreserved, TypeOK, Writers
<1>8. ToldOf(r)'
  BY <1>2, <1>3 DEF WorkFails, ToldOf, Ended
<1>9. EffectInv'
  <2>1. HasEffect(r) \/ kind[r] = "MANAGEMENT"
    BY <1>3 DEF HasEffect, Alive, Writers
  <2>2. \A q \in Requests : HasEffect(q)' => HasEffect(q) /\ artifact'[q] = artifact[q]
    BY <1>3, <1>5, <2>1 DEF WorkFails, HasEffect
  <2>. QED  BY <1>3, <2>1, <2>2, EntryMoves DEF WorkFails, PhaseOf
<1>10. ControlInv'
  BY ControlStays DEF WorkFails
<1>11. \A q \in Requests : RequestInv(q)'
  BY <1>5, <1>6, <1>7, <1>8 DEF RequestInv
<1>. QED  BY <1>2, <1>4, <1>9, <1>10, <1>11 DEF AdmissionInv

LEMMA GiveUpKeeps ==
    ASSUME AdmissionInv, NEW r \in Requests, GiveUp(r)
    PROVE  AdmissionInv'
<1>. /\ TypeOK /\ PhaseOf(r) /\ HoldsOf(r) /\ ToldOf(r)
     /\ InLimit /\ EffectInv /\ ControlInv
  BY DEF AdmissionInv, RequestInv
<1>1. FailsClosed(r, "ABANDONED")
  BY DEF GiveUp
<1>2. /\ leases' \in [Pools -> SUBSET Requests] /\ answer' \in [Requests -> Answers]
      /\ \A q \in Requests : HeldBy(q)' = HeldBy(q) /\ answer'[q] = answer[q]
      /\ InLimit'
  BY DEF GiveUp, TypeOK, HeldBy, InLimit
<1>3. /\ at[r] = "PAUSED" /\ at'[r] = "ABANDONED" /\ ~Queued(r)' /\ kind[r] \in Writers
      /\ kind'[r] = kind[r] /\ kind[r] \in Kinds /\ artifact'[r] = artifact[r]
  BY <1>1 DEF GiveUp, FailsClosed, Leave, Queued, PhaseOf, Writers, Kinds
<1>4. TypeOK' /\ Persistent
  BY DEF GiveUp, FailsClosed, TypeOK, ControlTypeOK, Phases, Persistent, Leave
<1>5. /\ \A q \in Requests \ {r} : RequestInv(q)'
      /\ \A q \in Requests \ {r} : HasEffect(q)' => HasEffect(q)
  BY <1>1, <1>2, <1>4, OthersAreDropped DEF GiveUp, Registers, Unreserved
<1>6. PhaseOf(r)'
  BY <1>3 DEF PhaseOf
<1>7. HoldsOf(r)'
  <2>1. HeldBy(r)' = HeldIn(at'[r], kind'[r]) \cup (IF Open(r)' THEN {HttpPool(kind'[r])} ELSE {})
    BY <1>2, <1>3, PoolsOfKinds DEF HoldsOf, HeldIn, HttpPools, Open
  <2>. QED  BY <1>3, <2>1 DEF HoldsOf, GiveUp, Alive, Registers, Unreserved, TypeOK, Writers
<1>8. ToldOf(r)'
  BY <1>2, <1>3 DEF GiveUp, ToldOf, Ended
<1>9. EffectInv'
  <2>1. \A q \in Requests : HasEffect(q)' => HasEffect(q) /\ artifact'[q] = artifact[q]
    BY <1>3, <1>5 DEF GiveUp, HasEffect, Alive
  <2>. QED  BY <2>1, EffectStays DEF GiveUp
<1>10. ControlInv'
  BY ControlStays DEF GiveUp
<1>11. \A q \in Requests : RequestInv(q)'
  BY <1>5, <1>6, <1>7, <1>8 DEF RequestInv
<1>. QED  BY <1>2, <1>4, <1>9, <1>10, <1>11 DEF AdmissionInv

-----------------------------------------------------------------------------
(* The operator and the registry. *)

\* A command is applied at the revision it expects.
LEMMA CommandsFollow ==
    ASSUME ControlInv, NEW c \in Commands, Applies(c), Bump(c)
    PROVE  /\ applied' \in Seq(Commands)
           /\ revision' = Len(applied')
           /\ \A i \in 1..Len(applied') : applied'[i].expected = i - 1
<1>1. c.expected = revision
  BY DEF Applies, Verdict
<1>2. /\ applied \in Seq(Commands) /\ revision = Len(applied) /\ applied' = Append(applied, c)
      /\ revision' = revision + 1 /\ Len(applied) \in Nat
  BY LenProperties DEF ControlInv, Bump
<1>3. /\ applied' \in Seq(Commands) /\ Len(applied') = Len(applied) + 1
      /\ \A i \in 1..Len(applied) : applied'[i] = applied[i]
      /\ applied'[Len(applied) + 1] = c
  BY <1>2, AppendProperties
<1>. QED  BY <1>1, <1>2, <1>3 DEF ControlInv

\* The commands and the end of a drain change nothing but the control core.
LEMMA ControlOnlyKeeps ==
    ASSUME AdmissionInv, ControlTypeOK', ControlInv', UNCHANGED leaseVars,
           UNCHANGED <<leases, requestVars, answer, queueVars, registryVars, dependencyVars,
                       databaseVars>>
    PROVE  AdmissionInv'
<1>1. TypeOK' /\ InLimit' /\ EffectInv'
  <2>1. TypeOK'
    BY DEF AdmissionInv, TypeOK
  <2>2. InLimit'
    BY DEF AdmissionInv, InLimit
  <2>3. \A q \in Requests : HasEffect(q)' => HasEffect(q) /\ artifact'[q] = artifact[q]
    BY DEF HasEffect, Alive
  <2>. QED  BY <2>1, <2>2, <2>3, EffectStays DEF AdmissionInv
<1>2. ASSUME NEW q \in Requests PROVE RequestInv(q)'
  <2>1. Untouched(q) /\ Persistent
    BY DEF Untouched, HeldBy, leaseVars, Persistent
  <2>. QED  BY <2>1, UntouchedStays DEF AdmissionInv
<1>. QED  BY <1>1, <1>2 DEF AdmissionInv

LEMMA OperatorHoldsKeeps ==
    ASSUME AdmissionInv, NEW c \in Commands, OperatorHolds(c)
    PROVE  AdmissionInv'
<1>1. ControlTypeOK /\ ControlInv
  BY DEF AdmissionInv, TypeOK
<1>2. Hold(c) /\ Applies(c) /\ Bump(c)
  BY DEF OperatorHolds, Hold
<1>3. UNCHANGED <<maintenance, outcome,
                  leaseVars>> /\ manual' = revision + 1 /\ revision' = revision + 1
  BY <1>2 DEF Hold, Bump
<1>4. ControlTypeOK'
  BY <1>1, <1>3 DEF ControlTypeOK, leaseVars
<1>5. ControlInv'
  BY <1>1, <1>2, <1>3, CommandsFollow DEF ControlInv, Quiet, leaseVars
<1>. QED  BY <1>3, <1>4, <1>5, ControlOnlyKeeps DEF OperatorHolds

LEMMA OperatorReleasesKeeps ==
    ASSUME AdmissionInv, NEW c \in Commands, OperatorReleases(c)
    PROVE  AdmissionInv'
<1>1. ControlTypeOK /\ ControlInv
  BY DEF AdmissionInv, TypeOK
<1>2. Release(c) /\ Applies(c) /\ Bump(c)
  BY DEF OperatorReleases, Release
<1>3. UNCHANGED <<maintenance, outcome, leaseVars>> /\ manual' = 0 /\ revision' = revision + 1
  BY <1>2 DEF Release, Bump
<1>4. ControlTypeOK'
  BY <1>1, <1>3 DEF ControlTypeOK, leaseVars
<1>5. ControlInv'
  BY <1>1, <1>2, <1>3, CommandsFollow DEF ControlInv, Quiet, leaseVars
<1>. QED  BY <1>3, <1>4, <1>5, ControlOnlyKeeps DEF OperatorReleases

LEMMA DrainEndsKeeps ==
    ASSUME AdmissionInv, DrainEnds
    PROVE  AdmissionInv'
<1>1. ControlTypeOK /\ ControlInv
  BY DEF AdmissionInv, TypeOK
<1>2. PICK result \in {"DRAINED", "NOT_DRAINED", "INTERNAL_UNAVAILABLE"} :
        Finish(result) /\ (result = "DRAINED" => Quiet)
  BY DEF DrainEnds, DrainObserved, DrainExpires, DrainAborts
<1>3. /\ UNCHANGED <<revision, applied, manual, maintenance, leaseVars>>
      /\ outcome = "WAITING" /\ outcome' = result
  BY <1>2 DEF Finish
<1>4. ControlTypeOK'
  BY <1>1, <1>3 DEF ControlTypeOK, leaseVars, Outcomes
<1>5. ControlInv'
  BY <1>1, <1>2, <1>3 DEF ControlInv, Quiet, leaseVars
<1>. QED  BY <1>3, <1>4, <1>5, ControlOnlyKeeps DEF DrainEnds

LEMMA RegistryFreezesKeeps ==
    ASSUME AdmissionInv, RegistryFreezes
    PROVE  AdmissionInv'
<1>1. TypeOK'
  BY DEF AdmissionInv, RegistryFreezes, Fails, TypeOK, ControlTypeOK
<1>2. InLimit' /\ ControlInv'
  BY ControlStays DEF AdmissionInv, RegistryFreezes, InLimit
<1>3. EffectInv'
  <2>1. \A q \in Requests : HasEffect(q)' => HasEffect(q) /\ artifact'[q] = artifact[q]
    BY DEF HasEffect, Alive, RegistryFreezes
  <2>. QED  BY <2>1, EffectStays DEF AdmissionInv, RegistryFreezes
<1>4. ASSUME NEW q \in Requests PROVE RequestInv(q)'
  <2>1. Untouched(q) /\ Persistent
    BY DEF RegistryFreezes, Untouched, HeldBy, Persistent
  <2>. QED  BY <2>1, UntouchedStays DEF AdmissionInv
<1>. QED  BY <1>1, <1>2, <1>3, <1>4 DEF AdmissionInv

\* A drain settles the READY writers it may settle, and touches nobody else.
LEMMA OperatorDrainsKeeps ==
    ASSUME AdmissionInv, NEW c \in Commands, OperatorDrains(c)
    PROVE  AdmissionInv'
<1>. TypeOK /\ InLimit /\ EffectInv /\ ControlInv /\ \A q \in Requests : RequestInv(q)
  BY DEF AdmissionInv
<1>. DEFINE settled == SettledReady
            back == HttpPools \cup {"origin"}
<1>1. PICK settles \in BOOLEAN : Drain(c, settles)
  BY DEF OperatorDrains
<1>2. /\ settled \subseteq queued /\ \A q \in settled : at[q] = "READY"
      /\ Says("BUSY") = "NO_EFFECT" /\ back \subseteq Pools
  BY DEF SettledReady, ReadyWriters, Says, Pools
<1>3. /\ queued' = queued \ settled
      /\ ahead' = ahead \cap (queued' \X queued')
      /\ at' = [r \in Requests |-> IF r \in settled THEN "OVER" ELSE at[r]]
      /\ answer' = [r \in Requests |->
                       IF r \in settled /\ answer[r] = "NONE" THEN "NO_EFFECT" ELSE answer[r]]
      /\ leases' = [pool \in Pools |->
                       IF pool \in back THEN leases[pool] \ settled ELSE leases[pool]]
      /\ reserved' = reserved \ settled
      /\ UNCHANGED <<kind, artifact, fence, entry, registry, dependencyVars, databaseVars>>
      /\ canceled' \subseteq Requests /\ UNCHANGED leaseVars
  BY <1>1, <1>2 DEF OperatorDrains, Leave, Drain, TypeOK
<1>. HIDE DEF settled, back
<1>4. ControlTypeOK' /\ ControlInv'
  <2>1. /\ Applies(c) /\ Bump(c) /\ maintenance' = revision + 1 /\ manual' = manual
        /\ outcome' = OutcomeAtStart(settles) /\ revision' = revision + 1 /\ revision \in Nat
    BY <1>1 DEF Drain, Bump, TypeOK, ControlTypeOK
  <2>2. outcome' \in Outcomes /\ (outcome' = "DRAINED" => Quiet)
    BY <2>1 DEF OutcomeAtStart, Outcomes
  <2>3. ControlTypeOK'
    BY <1>3, <2>1, <2>2 DEF TypeOK, ControlTypeOK, leaseVars
  <2>. QED  BY <1>3, <2>1, <2>2, <2>3, CommandsFollow DEF ControlInv, Quiet, leaseVars
<1>5. TypeOK'
  BY <1>2, <1>3, <1>4 DEF TypeOK, Phases, Answers
<1>6. InLimit'
  <2>1. \A pool \in Pools : leases'[pool] \subseteq leases[pool]
    BY <1>3
  <2>. QED  BY <2>1, FewerLeases
<1>7. ASSUME NEW q \in Requests \ settled PROVE RequestInv(q)'
  <2>1. HeldBy(q)' = HeldBy(q)
    BY <1>3 DEF HeldBy
  <2>2. Untouched(q) /\ Persistent
    BY <1>3, <2>1 DEF Untouched, leaseVars, Persistent
  <2>. QED  BY <2>2, UntouchedStays
<1>8. ASSUME NEW q \in settled PROVE RequestInv(q)'
  <2>1. /\ q \in Requests /\ Queued(q) /\ at[q] = "READY" /\ kind[q] \in Writers
        /\ PhaseOf(q) /\ HoldsOf(q) /\ ToldOf(q)
    BY <1>2 DEF TypeOK, RequestInv, PhaseOf, Queued
  <2>2. /\ at'[q] = "OVER" /\ kind'[q] = kind[q] /\ artifact'[q] = artifact[q] /\ ~Queued(q)'
        /\ answer'[q] = IF answer[q] = "NONE" THEN "NO_EFFECT" ELSE answer[q]
    BY <1>3, <2>1 DEF Queued
  <2>3. HeldBy(q)' = {} /\ ~Open(q)'
    <3>1. HeldBy(q)' = HeldBy(q) \ back
      BY <1>3 DEF HeldBy
    <3>2. HeldBy(q) \subseteq back
      BY <2>1, PoolsOfKinds DEF HoldsOf, HeldIn, back, PhaseOf
    <3>. QED  BY <2>2, <3>1, <3>2 DEF Open
  <2>4. HoldsOf(q)'
    BY <1>3, <2>1, <2>2, <2>3 DEF HoldsOf, HeldIn, Alive, leaseVars, Writers
  <2>5. PhaseOf(q)'
    BY <2>1, <2>2 DEF PhaseOf
  <2>6. ToldOf(q)'
    BY <1>3, <2>1, <2>2 DEF ToldOf, Ended
  <2>. QED  BY <2>4, <2>5, <2>6 DEF RequestInv
<1>9. EffectInv'
  <2>1. \A q \in Requests : HasEffect(q)' => HasEffect(q) /\ artifact'[q] = artifact[q]
    BY <1>2, <1>3 DEF HasEffect, Alive
  <2>. QED  BY <1>3, <2>1, EffectStays
<1>. QED  BY <1>4, <1>5, <1>6, <1>7, <1>8, <1>9 DEF AdmissionInv

-----------------------------------------------------------------------------
(* The invariant. *)

LEMMA AdmissionStarts == Init => AdmissionInv
<1>. SUFFICES ASSUME Init PROVE AdmissionInv
  OBVIOUS
<1>1. TypeOK
  BY DEF Init, ControlInit, LedgerInit, TypeOK, ControlTypeOK, Outcomes, Phases, Answers,
     NoEntry
<1>2. ASSUME NEW r \in Requests PROVE RequestInv(r)
  BY DEF Init, ControlInit, LedgerInit, RequestInv, PhaseOf, HoldsOf, ToldOf, HeldBy, HeldIn,
         Open, Alive, Queued
<1>3. InLimit
  BY FS_EmptySet, LimitAssumption DEF Init, LedgerInit, InLimit
<1>4. EffectInv
  BY DEF Init, EffectInv, HasEffect, Alive, NoEntry
<1>5. ControlInv
  BY DEF Init, ControlInit, ControlInv
<1>. QED  BY <1>1, <1>2, <1>3, <1>4, <1>5 DEF AdmissionInv

LEMMA AdmissionKeeps ==
    ASSUME AdmissionInv, [Next]_vars
    PROVE  AdmissionInv'
<1>1. CASE UNCHANGED vars
  <2>1. ControlTypeOK' /\ ControlInv'
    BY <1>1 DEF AdmissionInv, TypeOK, ControlTypeOK, ControlInv, Quiet, vars, leaseVars
  <2>. QED  BY <1>1, <2>1, ControlOnlyKeeps DEF vars
<1>2. ASSUME NEW r \in Requests, NEW k \in KindOf[r],
             Refuse(r, k) \/ TurnAway(r, k) \/ Admit(r, k) \/ BindFails(r, k)
      PROVE  AdmissionInv'
  BY <1>2, RefuseKeeps, TurnAwayKeeps, AdmitKeeps, BindFailsKeeps
<1>3. ASSUME NEW r \in Requests, ValidationEnds(r)
      PROVE  AdmissionInv'
  BY <1>3, ValidationFailsKeeps, ValidationCanceledKeeps, ActivateKeeps, ActivateTooLateKeeps,
     LoginValidatedKeeps, QueryStoppedKeeps, QueryValidatedKeeps, ExistingOnlyValidatedKeeps
     DEF ValidationEnds
<1>4. ASSUME NEW r \in Requests, Start(r)
      PROVE  AdmissionInv'
  BY <1>4, StartLimitedKeeps, StartReplaysKeeps, StartWorkKeeps, StartUnknownKeeps DEF Start
<1>5. ASSUME NEW r \in Requests, WorkSettles(r) \/ Recover(r)
      PROVE  AdmissionInv'
  BY <1>5, WorkPersistsKeeps, WorkHasNoEffectKeeps, WorkFailsKeeps, PausesKeeps, PublishKeeps,
     GiveUpKeeps DEF WorkSettles, Recover
<1>6. ASSUME NEW r \in Requests, OwnerCloses(r) \/ Commit(r) \/ NonWriterEnds(r)
      PROVE  AdmissionInv'
  BY <1>6, OwnerClosesKeeps, CommitKeeps, NonWriterEndsKeeps
<1>7. CASE Operator
  BY <1>7, OperatorHoldsKeeps, OperatorReleasesKeeps, OperatorDrainsKeeps, DrainEndsKeeps
     DEF Operator
<1>. QED  BY <1>1, <1>2, <1>3, <1>4, <1>5, <1>6, <1>7, RegistryFreezesKeeps DEF Next

LEMMA AdmissionAlways == Spec => []AdmissionInv
  BY AdmissionStarts, AdmissionKeeps, PTL DEF Spec

\* Every variable of the handler stays in its domain, for whatever requests,
\* limits, artifacts and commands there are.
THEOREM AdmissionTypeCorrect == Spec => []TypeOK
<1>1. AdmissionInv => TypeOK
  BY DEF AdmissionInv
<1>. QED  BY <1>1, AdmissionAlways, PTL

\* However requests arrive, are validated, drained, answered late, recovered or
\* dropped by a coordinator that failed closed, each holds exactly the leases of
\* its phase (admission-resource-ledger.ts), and no pool is over its limit.
THEOREM ResourcesAreReturned == Spec => []ResourcesFollowPhase
<1>1. ASSUME AdmissionInv PROVE ResourcesFollowPhase
  <2>. TypeOK /\ InLimit /\ \A r \in Requests : HoldsOf(r)
    BY <1>1 DEF AdmissionInv, RequestInv
  <2>1. reads \subseteq Requests /\ persistence \subseteq Requests /\ reserved \subseteq Requests
    BY HolderAssumption DEF TypeOK, ControlTypeOK
  <2>2. reads = {r \in Requests : at[r] = "WORKING" /\ kind[r] = "QUERY"}
    BY <2>1 DEF HoldsOf
  <2>3. persistence = {r \in Requests : Alive(r)}
    BY <2>1 DEF HoldsOf
  <2>. QED  BY <2>1, <2>2, <2>3 DEF ResourcesFollowPhase, HoldsOf, InLimit
<1>. QED  BY <1>1, AdmissionAlways, PTL

\* No answer the handler gives, in whatever order the deadline, the drain, the
\* recovery and the registry come, is contradicted by the database then or
\* later, nor is what the registry tells later requests.
THEOREM AnswersAreHonest == Spec => []AnswersHoldInTheDatabase
<1>1. ASSUME AdmissionInv PROVE AnswersHoldInTheDatabase
  <2>. TypeOK /\ EffectInv /\ \A r \in Requests : ToldOf(r)
    BY <1>1 DEF AdmissionInv, RequestInv
  <2>1. AnswersAreTrue
    BY DEF AnswersAreTrue, ToldOf, Persisted
  <2>2. ASSUME entry.state = "SAFE", NEW r \in committed PROVE kind[r] = "MANAGEMENT"
    <3>1. r \in Requests /\ ~HasEffect(r) /\ kind[r] \in Writers
      BY <2>2 DEF TypeOK, EffectInv, ToldOf
    <3>. QED  BY <3>1 DEF HasEffect, Writers
  <2>3. RegistryAgreesWithDatabase
    BY <2>2 DEF RegistryAgreesWithDatabase, EffectInv
  <2>. QED  BY <2>1, <2>3 DEF AnswersHoldInTheDatabase
<1>. QED  BY <1>1, AdmissionAlways, PTL

\* A control command is applied once at most, for it is applied at the revision
\* it expects, and every application makes a revision (runtime-control.ts).
THEOREM CommandsApplyOnce == Spec => []AppliedAtMostOnce
<1>1. ASSUME AdmissionInv PROVE AppliedAtMostOnce
  <2>1. ControlInv /\ DOMAIN applied = 1..Len(applied)
    BY <1>1, LenProperties DEF AdmissionInv, ControlInv
  <2>2. ASSUME NEW i \in 1..Len(applied), NEW j \in 1..Len(applied), applied[i] = applied[j]
        PROVE  i = j
    <3>1. i - 1 = j - 1
      BY <2>1, <2>2 DEF ControlInv
    <3>. QED  BY <3>1
  <2>. QED  BY <2>1, <2>2 DEF AppliedAtMostOnce
<1>. QED  BY <1>1, AdmissionAlways, PTL

\* Whoever could still write or read holds a lease, and a drain that reported
\* DRAINED has seen none out; no lease is issued after it.
THEOREM DrainedStaysQuiet == Spec => DrainedIsQuiet
<1>1. ASSUME AdmissionInv, [Next]_vars, outcome = "DRAINED"
      PROVE  UNCHANGED <<databaseVars, persistence, reads>> /\ outcome' = "DRAINED"
  <2>. /\ persistence = {} /\ reads = {} /\ maintenance # 0
       /\ \A r \in Requests : ~Alive(r)
    BY <1>1 DEF AdmissionInv, RequestInv, HoldsOf, ControlInv, Quiet
  <2>1. CASE UNCHANGED vars
    BY <1>1, <2>1 DEF vars
  <2>2. ASSUME NEW r \in Requests, NEW k \in KindOf[r],
               Refuse(r, k) \/ TurnAway(r, k) \/ Admit(r, k) \/ BindFails(r, k)
        PROVE  UNCHANGED <<databaseVars, persistence, reads, outcome>>
    BY <2>2 DEF Refuse, TurnAway, Admit, BindFails
  <2>3. ASSUME NEW r \in Requests, ValidationEnds(r)
        PROVE  UNCHANGED <<databaseVars, persistence, reads, outcome>>
    <3>1. ~QueryValidated(r)
      BY DEF QueryValidated, MayRead
    <3>. QED  BY <2>3, <3>1 DEF ValidationEnds, ValidationFails, ValidationCanceled, Activate,
                    ActivateTooLate, LoginValidated, QueryStopped, ExistingOnlyValidated
  <2>4. ASSUME NEW r \in Requests, Start(r)
        PROVE  UNCHANGED <<databaseVars, persistence, reads, outcome>>
    <3>1. ~StartWork(r)
      BY DEF StartWork, MayIssue
    <3>. QED  BY <2>4, <3>1 DEF Start, StartLimited, StartReplays, StartUnknown, StartEnds
  <2>5. ASSUME NEW r \in Requests, WorkSettles(r) \/ Recover(r)
        PROVE  UNCHANGED <<databaseVars, persistence, reads, outcome>>
    BY <2>5 DEF WorkSettles, Recover, WorkPersists, WorkHasNoEffect, WorkEnds, WorkFails,
       Pauses, Publish, GiveUp
  <2>6. ASSUME NEW r \in Requests, OwnerCloses(r) \/ Commit(r) \/ NonWriterEnds(r)
        PROVE  UNCHANGED <<databaseVars, persistence, reads, outcome>>
    BY <2>6 DEF OwnerCloses, Commit, NonWriterEnds
  <2>7. CASE RegistryFreezes \/ DrainEnds
    BY <1>1, <2>7 DEF RegistryFreezes, DrainEnds, DrainObserved, DrainExpires, DrainAborts,
                      Finish, leaseVars
  <2>8. ASSUME NEW c \in Commands, OperatorHolds(c) \/ OperatorReleases(c) \/ OperatorDrains(c)
        PROVE  UNCHANGED <<databaseVars, persistence, reads, outcome>>
    <3>1. c.kind = "DRAIN" => ~Applies(c)
      BY DEF Applies, Verdict, StateVerdict
    <3>. QED  BY <2>8, <3>1 DEF OperatorHolds, OperatorReleases, OperatorDrains, Hold, Release,
                    Drain, leaseVars
  <2>. QED  BY <1>1, <2>1, <2>2, <2>3, <2>4, <2>5, <2>6, <2>7, <2>8 DEF Next, Operator
<1>. QED  BY <1>1, AdmissionAlways, PTL DEF Spec, DrainedIsQuiet

=============================================================================
