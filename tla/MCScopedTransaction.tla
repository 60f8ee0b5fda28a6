-------------------------- MODULE MCScopedTransaction --------------------------
(* Three machines that share no state: a write's transaction with the hand-   *)
(* off that may follow it, the scopes that plan writes, and the start of       *)
(* processes on a database.  A behaviour is one machine's; the others stay as  *)
(* they start, so their states add up instead of multiplying.                  *)
EXTENDS PostCommitHandoff, AccessScope, ExistingSchema

CONSTANTS e1

VARIABLE machine   \* the one that moves

MachinesInit ==
    /\ Init /\ HandoffInit /\ ScopesInit /\ SchemaInit
    /\ machine \in {"TRANSACTION", "SCOPES", "SCHEMA"}
    /\ machine # "TRANSACTION" => kind = "RECOGNITION"
    /\ machine # "SCOPES" => current.mapping = 0
    /\ machine # "SCHEMA" => collections = {}

MachinesNext ==
    /\ UNCHANGED machine
    /\ machine = "TRANSACTION" \/ UNCHANGED <<vars, handoffVars>>
    /\ machine = "SCOPES" \/ UNCHANGED scopeVars
    /\ machine = "SCHEMA" \/ UNCHANGED schemaVars
    /\ \/ machine = "TRANSACTION" /\ HandoffNext
       \/ machine = "SCOPES" /\ ScopesNext
       \/ machine = "SCHEMA" /\ SchemaNext
=============================================================================
