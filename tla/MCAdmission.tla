---------------------------- MODULE MCAdmission ----------------------------
(***************************************************************************)
(* Instance of Admission for TLC.                                          *)
(***************************************************************************)
EXTENDS Admission, TLC

CONSTANTS w1, w2, n1, a1, a2

MCRequests == {w1, w2, n1}
MCKindOf == (w1 :> {"MANAGEMENT", "NORMAL_RECOGNITION"}) @@ (w2 :> {"NORMAL_RECOGNITION"})
            @@ (n1 :> {"QUERY", "EXISTING_ONLY", "LOGIN"})

\* two slots of each pool: a third request is refused for want of one, and an
\* origin that never comes back leaves room for one writer
MCLimit == [pool \in Pools |-> 2]

\* a hold, its release, and a drain with or without the hold; the two drains
\* carry one request id
MCCommands ==
    {[id |-> 1, kind |-> "HOLD", expected |-> 0, target |-> 0],
     [id |-> 2, kind |-> "RELEASE", expected |-> 1, target |-> 1],
     [id |-> 3, kind |-> "DRAIN", expected |-> 0, target |-> 0],
     [id |-> 3, kind |-> "DRAIN", expected |-> 1, target |-> 0]}

\* Commands are only mixed with a freeze, and with that one at a time.
FaultsOrCommands ==
    fault = "NONE" \/ revision = 0 \/ (fault = "FREEZE" /\ Len(applied) <= 1)

MCSymmetry == Permutations({a1, a2})
=============================================================================
