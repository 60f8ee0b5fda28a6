---------------------------- MODULE ExistingSchema ----------------------------
(***************************************************************************)
(* Which database a process accepts (g04b-schema.ts, the bootstrap of the  *)
(* adapter, g11b-dataset-verification-engine.ts and                        *)
(* g11b-existing-schema-activation-engine.ts).                             *)
(*                                                                         *)
(* A set-up process creates the collections and indexes of an empty        *)
(* database one command at a time, then deletes and seeds the documents,   *)
(* again one command at a time and outside any transaction.  A runtime     *)
(* creates nothing: it inspects what is there, and attaches to it once.    *)
(* Any of them may die between two commands, and they run side by side;    *)
(* only seeding is left to one process at a time, by the operator.         *)
(*                                                                         *)
(* A document is the generation of the fixture it comes from: fixtures     *)
(* differ in their ids, and documents of one refer to documents of the     *)
(* same.                                                                   *)
(***************************************************************************)
EXTENDS Naturals, Sequences, FiniteSets

CONSTANT Processes      \* process numbers, each also names its fixture
ASSUME ExistingSchemaAssumption == Processes \subseteq Nat \ {0}

VARIABLES
    collections,  \* names of the collections that exist
    foreign,      \* those whose validator is not this program's
    indexed,      \* those with their index contract
    rows,         \* collection -> fixtures its documents come from
    process       \* [does, fresh, step, facts]

schemaVars == <<collections, foreign, indexed, rows, process>>

Required == {"qualifications", "faceSlots", "events", "users", "sources",
             "metadata", "managementReceipts"}
Unindexed == {"metadata", "managementReceipts"}
Earlier == 0            \* the fixture of a database that was there before

\* createCollection, or createIndexes, one after the other
Bootstrap ==
    <<"qualifications", "faceSlots", "faceSlots.indexes", "events", "users",
      "sources", "metadata", "managementReceipts", "qualifications.indexes",
      "events.indexes", "users.indexes", "sources.indexes">>
IndexesOf == [c \in {"faceSlots.indexes", "qualifications.indexes", "events.indexes",
                     "users.indexes", "sources.indexes"} |->
    CASE c = "faceSlots.indexes" -> "faceSlots"
      [] c = "qualifications.indexes" -> "qualifications"
      [] c = "events.indexes" -> "events"
      [] c = "users.indexes" -> "users"
      [] OTHER -> "sources"]

Cleared == <<"events", "qualifications", "faceSlots", "users", "sources", "metadata",
             "managementReceipts">>
SeededMetadataFirst == <<"metadata", "qualifications", "faceSlots", "users", "sources">>
\* The fixture holds no events; what makes the dataset known comes last.
Seeded == <<"qualifications", "faceSlots", "users", "sources", "metadata">>

\* Nothing is there; or a collection of someone else, or all of them but one
\* with another validator, or a dataset.
SchemaInit ==
    /\ process = [p \in Processes |->
                    [does |-> "NONE", fresh |-> FALSE, step |-> 1, facts |-> {}]]
    /\ \/ collections \in {{}, {"other"}} /\ foreign = {}
       \/ collections = Required /\ foreign \in {{}, {"users"}}
    /\ indexed = collections \ (Unindexed \cup {"other"})
    /\ rows = [c \in Required |->
                IF collections = Required /\ c # "managementReceipts" THEN {Earlier} ELSE {}]

Is(p, doing) == process[p].does = doing
Goes(p, doing) == process' = [process EXCEPT ![p].does = doing, ![p].step = 1]
Ends(p, doing) ==
    process' = [process EXCEPT ![p] = [does |-> doing, fresh |-> FALSE, step |-> 1, facts |-> {}]]
Advances(p, last, doing) ==
    process' = [process EXCEPT ![p].step = IF @ = last THEN 1 ELSE @ + 1,
                               ![p].does = IF process[p].step = last THEN doing ELSE @]
DatabaseStays == UNCHANGED <<collections, foreign, indexed, rows>>

-----------------------------------------------------------------------------
(* ensureG04bSchema *)

\* Only a database without any collection is bootstrapped; any other must have
\* all seven.  Options never change, so they can be read with the names.
ListForSetup(p) ==
    /\ Is(p, "NONE")
    /\ IF collections = {} THEN
           process' = [process EXCEPT ![p].does = "CREATING", ![p].fresh = TRUE]
       ELSE IF Required \subseteq collections /\ foreign = {} THEN Goes(p, "INDEXES")
       ELSE Ends(p, "REFUSED")
    /\ DatabaseStays

\* What another process created meanwhile is taken if its options agree.
Create(p) ==
    /\ Is(p, "CREATING")
    /\ LET what == Bootstrap[process[p].step]
       IN  IF what \in DOMAIN IndexesOf
           THEN indexed' = indexed \cup {IndexesOf[what]} /\ UNCHANGED collections
           ELSE collections' = collections \cup {what} /\ UNCHANGED indexed
    /\ Advances(p, Len(Bootstrap), "SNAPSHOT")
    /\ UNCHANGED <<foreign, rows>>

\* inspectExistingG04bSchemaReadOnly
ListForRuntime(p) ==
    /\ Is(p, "NONE")
    /\ IF Required \subseteq collections /\ foreign = {}
       THEN process' = [process EXCEPT ![p].does = "INDEXES", ![p].facts = {"RUNTIME"}]
       ELSE Ends(p, "REFUSED")
    /\ DatabaseStays

IsRuntime(p) == "RUNTIME" \in process[p].facts

CheckIndexes(p) ==
    /\ Is(p, "INDEXES")
    /\ IF indexed = Required \ Unindexed THEN Goes(p, "SNAPSHOT") ELSE Ends(p, "REFUSED")
    /\ DatabaseStays

\* assertExistingLegacyIntegrity: two slots, a slot and an event refer to what
\* is there.  Every fixture has the same comparison reference.
Integrity ==
    /\ rows["faceSlots"] \subseteq rows["qualifications"]
    /\ rows["events"] \subseteq rows["sources"] \cap rows["qualifications"]
    /\ Cardinality(rows["faceSlots"]) = 1

Acceptable(p) ==
    IF rows["metadata"] = {} THEN process[p].fresh ELSE Integrity

\* One snapshot transaction.  A runtime's token keeps what the document said.
Snapshot(p) ==
    /\ Is(p, "SNAPSHOT")
    /\ IF ~Acceptable(p) THEN Ends(p, "REFUSED")
       ELSE IF IsRuntime(p)
       THEN process' = [process EXCEPT ![p].does = "VERIFIED", ![p].facts = rows["metadata"]]
       ELSE Goes(p, "READY")
    /\ DatabaseStays

-----------------------------------------------------------------------------
(* clearAndSeed *)

Seeding(p) == process[p].does \in {"CLEARING", "SEEDING"}

StartSeeding(p) ==
    /\ Is(p, "READY")
    /\ \A q \in Processes : ~Seeding(q)
    /\ Goes(p, "CLEARING")
    /\ DatabaseStays

Clear(p) ==
    /\ Is(p, "CLEARING")
    /\ rows' = [rows EXCEPT ![Cleared[process[p].step]] = {}]
    /\ Advances(p, Len(Cleared), "SEEDING")
    /\ UNCHANGED <<collections, foreign, indexed>>

Seed(p) ==
    /\ Is(p, "SEEDING")
    /\ rows' = [rows EXCEPT ![Seeded[process[p].step]] = @ \cup {p}]
    /\ Advances(p, Len(Seeded), "DONE")
    /\ UNCHANGED <<collections, foreign, indexed>>

-----------------------------------------------------------------------------
(* The runtime *)

\* activateG11bExistingSchemaWithEngine: once, and without asking the server
Attach(p) ==
    /\ Is(p, "VERIFIED")
    /\ Goes(p, "ATTACHED")
    /\ DatabaseStays

\* A recognition reads its source and its qualification and adds an event.
RecordEvent(p) ==
    /\ Is(p, "ATTACHED")
    /\ \E g \in rows["sources"] \cap rows["qualifications"] :
        rows' = [rows EXCEPT !["events"] = @ \cup {g}]
    /\ UNCHANGED <<collections, foreign, indexed, process>>

Dies(p) ==
    /\ process[p].does \notin {"NONE", "REFUSED", "DEAD"}
    /\ Ends(p, "DEAD")
    /\ DatabaseStays

SchemaNext ==
    \E p \in Processes :
        \/ ListForSetup(p) \/ Create(p) \/ ListForRuntime(p) \/ CheckIndexes(p)
        \/ Snapshot(p) \/ StartSeeding(p) \/ Clear(p) \/ Seed(p)
        \/ Attach(p) \/ RecordEvent(p) \/ Dies(p)

SchemaSpec == SchemaInit /\ [][SchemaNext]_schemaVars

-----------------------------------------------------------------------------
(* Correctness *)

SchemaTypeOK ==
    /\ collections \subseteq Required \cup {"other"}
    /\ foreign \subseteq collections /\ indexed \subseteq collections
    /\ rows \in [Required -> SUBSET (Processes \cup {Earlier})]
    /\ \A p \in Processes : process[p].step \in 1..Len(Bootstrap)

\* Every seeded collection holds one and the same fixture, and the events are
\* of it.
WholeDataset ==
    \E g \in Processes \cup {Earlier} :
        /\ \A c \in {Seeded[i] : i \in 1..Len(Seeded)} : rows[c] = {g}
        /\ rows["events"] \subseteq {g}

\* What a process accepts is whole: all collections with their indexes, and
\* either one complete fixture or, for a bootstrap, none yet.  Wherever a
\* bootstrap or a seeding died, what it left is refused unless it is that: a
\* clearing that died before it came to the fixture, with the events deleted at
\* most, left the old one whole.
AcceptedDatasetsAreWhole ==
    [][\A p \in Processes :
        process[p].does = "SNAPSHOT" /\ process'[p].does \in {"READY", "VERIFIED"} =>
            /\ collections = Required /\ indexed = Required \ Unindexed
            /\ \/ WholeDataset
               \/ rows["metadata"] = {} /\ process'[p].does = "READY"
      ]_schemaVars
=============================================================================
