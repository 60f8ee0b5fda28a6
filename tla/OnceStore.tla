----------------------------- MODULE OnceStore -----------------------------
(***************************************************************************)
(* What the idempotency registry promises its callers: at most Capacity    *)
(* event keys are ever begun, a begun key is answered at most once, and    *)
(* its answer never changes.  Leases, retries, reservations and freezes    *)
(* are invisible here.                                                     *)
(***************************************************************************)
EXTENDS Naturals, FiniteSets

CONSTANTS Keys, Results, NoResult, Capacity

VARIABLE outcome    \* [Keys -> what is known of the key]

Answers == {"CANONICAL", "SAFE_TECHNICAL_TERMINAL"}

Begun == {k \in Keys : outcome[k].state # "ABSENT"}

Init == outcome = [k \in Keys |-> [state |-> "ABSENT", result |-> NoResult]]

Begin(k) ==
    /\ outcome[k].state = "ABSENT"
    /\ Cardinality(Begun) < Capacity
    /\ outcome' = [outcome EXCEPT ![k] = [state |-> "PENDING", result |-> NoResult]]

Answer(k) ==
    /\ outcome[k].state = "PENDING"
    /\ \E answer \in Answers, result \in Results :
          outcome' = [outcome EXCEPT ![k] = [state |-> answer, result |-> result]]

Next == \E k \in Keys : Begin(k) \/ Answer(k)

Spec == Init /\ [][Next]_outcome
=============================================================================
