------------------------- MODULE MCAccessPersistence -------------------------
(* Two machines that share no state: the stored documents with the requests   *)
(* that change them, and the routes that let requests to their work and make  *)
(* answers of it.  A behaviour is one machine's; the other stays as it starts. *)
(*                                                                            *)
(* Two gates and q1, who enters, leaves and is managed; q2 is created while   *)
(* others work; q3 holds the last slot of one of the seeded stores.           *)
EXTENDS ResultImage, RouteWork, TLC

CONSTANTS q1, q2, q3, s1, s2, gateIn, gateOut, e1, e2, f1, f2, f3, manager, scanner

VARIABLE machine   \* the one that moves

MCInstants == 0..2
MCArrivals == 0..1

Qr(q) == [media |-> "QR", of |-> q]
Face(f) == [media |-> "FACE_MATCHED", of |-> f]

Recognize(source, id, credential) ==
  [kind |-> "RECOGNIZE", source |-> source, externalId |-> id,
   credential |-> credential]
Update(q, from, until, mode, f) ==
  [kind |-> "UPDATE", qualification |-> q, validFrom |-> from,
   validUntil |-> until, mode |-> mode, face |-> f]
Create(q, from, until, f) ==
  [kind |-> "CREATE", qualification |-> q, validFrom |-> from,
   validUntil |-> until, face |-> f]

MCInputs ==
  { Recognize(gateIn, e1, Qr(q1)), Recognize(gateIn, e1, Face(f1)),
    Recognize(gateIn, e2, Qr(q1)),
    Recognize(gateOut, e1, Face(f1)), Recognize(gateOut, e2, Face(f2)),
    Create(q2, 0, 2, f1), Create(q2, 0, 1, f3),
    Update(q1, 1, 2, "KEEP", None), Update(q1, None, None, "SET", f2),
    Update(q1, None, 2, "REMOVE", None),
    [kind |-> "REVOKE", qualification |-> q1, reason |-> "given"] }

SourceOf(direction) == [direction |-> direction, active |-> TRUE, version |-> 0]

\* Seeded stores: q1, bound to f1, is expected, and one more slot may be
\* allocated; or q1 is inside by an event already stored, and q3, bound to f2,
\* has the last slot.
Seed(visitor, other, events) ==
  [d \in Docs |->
     CASE d = q1 -> visitor
       [] d = s1 -> [subject |-> f1, qualification |-> q1, version |-> 0]
       [] d = q3 -> other
       [] d = s2 -> IF other = None THEN None
                    ELSE [subject |-> f2, qualification |-> q3, version |-> 0]
       [] d = gateIn -> SourceOf("ENTRY")
       [] d = gateOut -> SourceOf("EXIT")
       [] d = System -> [qr |-> 0, face |-> 0,
                         slotCount |-> IF other = None THEN 1 ELSE 2]
       [] d \in EventKeys -> IF d = <<gateIn, e1>> THEN events ELSE None
       [] OTHER -> None]
Expected == NewQualification(0, 1)
Inside == [Expected EXCEPT !.presence = "INSIDE", !.enteredAt = 0,
                           !.version = 1]
Entered == [outcome |-> "ACCEPTED", reason |-> "ENTRY_GRANTED",
            qualification |-> q1, to |-> "INSIDE", receivedAt |-> 0,
            credential |-> Qr(q1)]
MCSeeds == { Seed(Expected, None, None),
             Seed(Inside, Expected, Entered) }

\* One caller logs in and manages or lists, the other is a source; at most one
\* token is about; neither freeze hides the other, and while a recognition is
\* under way, or frozen out, a human waits for the turn at most.
OneManagesOneScans ==
    /\ Cardinality(tokens) <= 1
    /\ ~(authFrozen /\ sourceFrozen)
    /\ calls[scanner] = NoCall
    /\ ("route" \in DOMAIN asked[manager] => asked[manager].route \in HumanRoutes)
    /\ ("route" \in DOMAIN asked[scanner] => asked[scanner].route = "RECOGNITION")
    /\ \/ asked[scanner].at \in {"NONE", "ANSWERED"}
       \/ /\ ~authFrozen /\ calls[manager] = NoCall /\ enabled = Accounts
          /\ asked[manager].at \in {"NONE", "CLAIMED", "ANSWERED"}
          /\ IsAt(manager, "ANSWERED") => asked[manager].disposition \notin {"REJECTED", "NONE"}
    /\ \/ asked[manager].at \in {"NONE", "ANSWERED"}
       \/ /\ ~sourceFrozen
          /\ IsAt(scanner, "ANSWERED") => asked[scanner].disposition # "REJECTED"

MachinesInit ==
    /\ Init /\ RouteInit
    /\ machine \in {"STORE", "ROUTE"}
    /\ machine = "ROUTE" => db = Seed(Expected, None, None)

MachinesNext ==
    /\ UNCHANGED machine
    /\ machine = "STORE" \/ UNCHANGED vars
    /\ machine = "ROUTE" \/ UNCHANGED routeVars
    /\ \/ machine = "STORE" /\ Next
       \/ machine = "ROUTE" /\ RouteNext

MCSymmetry == Permutations(Scopes)
=============================================================================
