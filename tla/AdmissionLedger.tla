-------------------------- MODULE AdmissionLedger --------------------------
(***************************************************************************)
(* The fixed pools of admission-resource-ledger.ts.  The ledger is the set *)
(* of active leases of each pool; a lease is named by the request that     *)
(* holds it, which never holds two of one pool.                            *)
(***************************************************************************)
EXTENDS Naturals, FiniteSets

CONSTANTS
    Requests,
    Limit       \* ADMISSION_RESOURCE_LIMITS: a limit for each pool

HttpPools == {"httpOrdinary", "httpRetry"}
ValidationPools ==
    {"validationWrite", "validationLogin", "validationQuery", "validationRetry"}
AncillaryPools == {"scrypt", "queryDb"}
Pools == HttpPools \cup ValidationPools \cup AncillaryPools \cup {"origin"}

ASSUME LimitAssumption == Limit \in [Pools -> Nat \ {0}]

VARIABLE leases     \* [Pools -> SUBSET Requests]

Kinds == {"MANAGEMENT", "NORMAL_RECOGNITION", "LOGIN", "QUERY", "EXISTING_ONLY"}

\* ADMISSION_PLANS
HttpPool(kind) == IF kind = "EXISTING_ONLY" THEN "httpRetry" ELSE "httpOrdinary"
ValidationPool(kind) ==
    CASE kind \in {"MANAGEMENT", "NORMAL_RECOGNITION"} -> "validationWrite"
      [] kind = "LOGIN" -> "validationLogin"
      [] kind = "QUERY" -> "validationQuery"
      [] kind = "EXISTING_ONLY" -> "validationRetry"
OriginPool(kind) ==
    IF kind \in {"MANAGEMENT", "NORMAL_RECOGNITION"} THEN {"origin"} ELSE {}

\* the bundle of a request of this kind
Bundle(kind) == {HttpPool(kind), ValidationPool(kind)} \cup OriginPool(kind)

HasRoom(pool) == Cardinality(leases[pool]) < Limit[pool]

\* Mutant of CanAcquire: the HTTP slots are not counted.
CanAcquireUncounted(kind) == \A pool \in Bundle(kind) \ HttpPools : HasRoom(pool)

\* tryAcquire returns a bundle rather than null
CanAcquire(kind) == \A pool \in Bundle(kind) : HasRoom(pool)

\* the ledger once r has given back the leases it holds in `back' and has
\* taken one in each pool of `taken'
Moved(r, back, taken) ==
    [pool \in Pools |->
        IF pool \in taken THEN leases[pool] \cup {r}
        ELSE IF pool \in back THEN leases[pool] \ {r}
        ELSE leases[pool]]

LedgerInit == leases = [pool \in Pools |-> {}]

HeldBy(r) == {pool \in Pools : r \in leases[pool]}
=============================================================================
