----------------------------- MODULE RunLifecycle -----------------------------
(***************************************************************************)
(* Who may write, over the life of a deployment: process starts, run       *)
(* tickets, persistent run claims, the local service gate, maintenance and *)
(* the reset to a new dataset epoch                                        *)
(* (g11b-production-application.ts, g11b-run-ticket-engine.ts,             *)
(* g11b-persistent-run-claim*.ts, g11b-claimed-runtime-bootstrap-engine.ts,*)
(* g11b-production-shutdown-engine.ts, g11c-*.ts, g11d-reset-seed.ts and   *)
(* the controller scripts under scripts/g11).                              *)
(*                                                                         *)
(* A start reads the host's run id, verifies the dataset, spends the       *)
(* bootstrap ticket (an O_EXCL marker, two directory syncs and an unlink), *)
(* claims the epoch with one compare-and-set, composes, and opens its      *)
(* gate.  It may die at every await, and the host may crash with any       *)
(* unsynced directory entry lost.  Commands that were sent may be applied  *)
(* by MongoDB long after their process is gone.                            *)
(***************************************************************************)
EXTENDS Naturals, FiniteSets

CONSTANTS MaxStarts,    \* process starts in a behaviour
          MaxRuns,      \* run ids the host provisions
          MaxEpochs,    \* dataset epochs, the first one included
          MaxTickets    \* tickets the controller issues

ASSUME RunLifecycleAssumption ==
    /\ MaxStarts \in Nat \ {0} /\ MaxRuns \in Nat \ {0}
    /\ MaxEpochs \in Nat \ {0} /\ MaxTickets \in Nat

VARIABLES metadata,   \* the system document: [epoch, claim], claim 0 = null
          directory,  \* the ticket directory: [ticket, used]
          disk,       \* what of it survives a crash of the host
          runFile,    \* process-run-id, provisioned by the host
          epochFile,  \* dataset-epoch, published after a reset
          issued,     \* tickets issued so far
          spent,      \* how often each of them was spent
          procs,      \* the processes ever started
          casting,    \* compare-and-sets on their way to the server
          pending,    \* business writes on their way to the server
          landed,     \* writes applied: the epoch they were made for and hit
          upkeep      \* the maintenance lifecycle: [phase, captured]

runVars == <<metadata, directory, disk, runFile, epochFile, issued, spent,
             procs, casting, pending, landed, upkeep>>

Starts == 1..MaxStarts

NoTicket == [id |-> 0, epoch |-> 0, run |-> 0]

NoProcess == [stage |-> "NONE", home |-> "api", run |-> 0, epoch |-> 0,
              ticket |-> NoTicket, vetoed |-> FALSE, opened |-> FALSE]

\* Stages, in the order of createG11bProductionApplication.  REFUSING listens
\* and answers 503 behind a FAILED or SHUTDOWN gate; CLOSING has been told to
\* stop.
Opening == {"STARTED", "VERIFIED", "TICKET_READ", "MARKED", "MARKER_SYNCED",
            "UNLINKED", "CONSUMED", "CLAIMING", "CLAIMED", "COMPOSED"}

Ready == {"SERVING", "REFUSING"}

Live(p) == procs[p].stage \in Opening \cup Ready \cup {"CLOSING"}

Running(home) == {p \in Starts : Live(p) /\ procs[p].home = home}

RunInit ==
    /\ metadata = [epoch |-> 1, claim |-> 0]
    /\ directory = [ticket |-> NoTicket, used |-> {}]
    /\ disk = directory
    /\ runFile = 1
    /\ epochFile = 1
    /\ issued = 0
    /\ spent = [t \in 1..MaxTickets |-> 0]
    /\ procs = [p \in Starts |-> NoProcess]
    /\ casting = {}
    /\ pending = {}
    /\ landed = {}
    /\ upkeep = [phase |-> "IDLE", captured |-> 0]

MongoUp == upkeep.phase # "MONGO_STOPPED"

At(p, stage) == procs[p].stage = stage

\* What a dead process knew is forgotten, but for the epoch it opened for.
Gone(r) ==
    IF r.opened THEN [r EXCEPT !.stage = "EXITED", !.home = "api",
                               !.ticket = NoTicket, !.vetoed = FALSE]
                ELSE [NoProcess EXCEPT !.stage = "EXITED"]

Goes(p, stage) ==
    procs' = [procs EXCEPT ![p] = IF stage = "EXITED" THEN Gone(@)
                                  ELSE [@ EXCEPT !.stage = stage]]

-----------------------------------------------------------------------------
(* Outside the process: the host, the controller script, the operator. *)

\* The operator starts an API process, in the compose container (one process
\* at a time) or by hand next to it, and never between the observed end of the
\* old API and the verification; a start after a lifecycle ends it.
Start(home) ==
    /\ upkeep.phase \notin {"API_STOPPED", "MONGO_STOPPED"}
    /\ home = "api" => Running("api") = {}
    /\ \E p \in Starts :
        /\ At(p, "NONE")
        /\ \A q \in 1..(p - 1) : ~At(q, "NONE")
        /\ procs' = [procs EXCEPT ![p].stage = "STARTED", ![p].home = home,
                                  ![p].run = runFile]
    /\ upkeep' = IF upkeep.phase \in {"VERIFIED", "FAILED"}
                 THEN [phase |-> "IDLE", captured |-> 0] ELSE upkeep
    /\ UNCHANGED <<metadata, directory, disk, runFile, epochFile, issued,
                   spent, casting, pending, landed>>

ProvisionRun ==
    /\ runFile < MaxRuns
    /\ runFile' = runFile + 1
    /\ UNCHANGED <<metadata, directory, disk, epochFile, issued, spent, procs,
                   casting, pending, landed, upkeep>>

\* maintenance-controller.mjs: a ticket for the published epoch and the
\* provisioned run, unless one lies there; nothing is synced.
IssueTicket ==
    /\ issued < MaxTickets
    /\ directory.ticket = NoTicket
    /\ issued' = issued + 1
    /\ directory' = [directory EXCEPT !.ticket =
                        [id |-> issued + 1, epoch |-> epochFile, run |-> runFile]]
    /\ UNCHANGED <<metadata, disk, runFile, epochFile, spent, procs, casting,
                   pending, landed, upkeep>>

\* publish-dataset-epoch.mjs: one rename, so a reader sees the old epoch or
\* the new one; until it ran, tickets are issued for the old one.
PublishEpoch ==
    /\ epochFile # metadata.epoch
    /\ epochFile' = metadata.epoch
    /\ UNCHANGED <<metadata, directory, disk, runFile, issued, spent, procs,
                   casting, pending, landed, upkeep>>

\* The host goes down: every process, every command in flight, and any change
\* of the ticket directory that was not synced.
HostCrash ==
    /\ \E p \in Starts : Live(p)
    /\ \E t \in {directory.ticket, disk.ticket}, u \in {directory.used, disk.used} :
        directory' = [ticket |-> t, used |-> u]
    /\ disk' = directory'
    /\ procs' = [p \in Starts |->
                    IF Live(p) THEN Gone(procs[p]) ELSE procs[p]]
    /\ casting' = {}
    /\ pending' = {}
    /\ upkeep' = [phase |-> "FAILED", captured |-> 0]
    /\ UNCHANGED <<metadata, runFile, epochFile, issued, spent, landed>>

-----------------------------------------------------------------------------
(* The start of a process. *)

\* The process dies, or one of the calls of its start throws: nothing is
\* undone, and what it sent stays on its way.
Exit(p) ==
    /\ Live(p)
    /\ Goes(p, "EXITED")
    /\ UNCHANGED <<metadata, directory, disk, runFile, epochFile, issued,
                   spent, casting, pending, landed, upkeep>>

VerifyDataset(p) ==
    /\ At(p, "STARTED")
    /\ MongoUp
    /\ procs' = [procs EXCEPT ![p].stage = "VERIFIED", ![p].epoch = metadata.epoch]
    /\ UNCHANGED <<metadata, directory, disk, runFile, epochFile, issued,
                   spent, casting, pending, landed, upkeep>>

\* Without a ticket the process serves nothing but stays; a ticket of another
\* run ends it.
ReadTicket(p) ==
    /\ At(p, "VERIFIED")
    /\ IF directory.ticket = NoTicket THEN Goes(p, "REFUSING")
       ELSE IF directory.ticket.run # procs[p].run THEN Goes(p, "EXITED")
       ELSE procs' = [procs EXCEPT ![p].stage = "TICKET_READ",
                                   ![p].ticket = directory.ticket]
    /\ UNCHANGED <<metadata, directory, disk, runFile, epochFile, issued,
                   spent, casting, pending, landed, upkeep>>

\* O_CREAT | O_EXCL: the marker exists, or this process made it.
CreateMarker(p) ==
    /\ At(p, "TICKET_READ")
    /\ IF procs[p].ticket.id \in directory.used
          THEN Goes(p, "EXITED") /\ UNCHANGED directory
          ELSE /\ Goes(p, "MARKED")
               /\ directory' = [directory EXCEPT !.used = @ \cup {procs[p].ticket.id}]
    /\ UNCHANGED <<metadata, disk, runFile, epochFile, issued, spent, casting,
                   pending, landed, upkeep>>

\* The marker and the directory are synced before the ticket goes.
SyncMarker(p) ==
    /\ At(p, "MARKED")
    /\ Goes(p, "MARKER_SYNCED")
    /\ disk' = directory
    /\ UNCHANGED <<metadata, directory, runFile, epochFile, issued, spent,
                   casting, pending, landed, upkeep>>

\* The path must still name the file that was read.
UnlinkTicket(p) ==
    /\ At(p, "MARKER_SYNCED")
    /\ IF directory.ticket # procs[p].ticket
          THEN Goes(p, "EXITED") /\ UNCHANGED <<directory, spent>>
          ELSE /\ Goes(p, "UNLINKED")
               /\ directory' = [directory EXCEPT !.ticket = NoTicket]
               /\ spent' = [spent EXCEPT ![procs[p].ticket.id] = @ + 1]
    /\ UNCHANGED <<metadata, disk, runFile, epochFile, issued, casting,
                   pending, landed, upkeep>>

SyncUnlink(p) ==
    /\ At(p, "UNLINKED")
    /\ Goes(p, "CONSUMED")
    /\ disk' = directory
    /\ UNCHANGED <<metadata, directory, runFile, epochFile, issued, spent,
                   casting, pending, landed, upkeep>>

\* claimOnce: a ticket of another epoch than the verified one sends nothing.
SendClaim(p) ==
    /\ At(p, "CONSUMED")
    /\ MongoUp
    /\ IF procs[p].ticket.epoch # procs[p].epoch
          THEN Goes(p, "EXITED") /\ UNCHANGED casting
          ELSE /\ Goes(p, "CLAIMING")
               /\ casting' = casting \cup {[by |-> p, epoch |-> procs[p].epoch,
                                            run |-> procs[p].run]}
    /\ UNCHANGED <<metadata, directory, disk, runFile, epochFile, issued,
                   spent, pending, landed, upkeep>>

\* The filter of findOneAndUpdate.
ClaimMatches(c) == metadata.epoch = c.epoch /\ metadata.claim = 0

\* The server runs the compare-and-set, possibly after its sender timed out or
\* died; a sender that still waits is CLAIMED by the post-image, and ends on
\* every other answer.
ServerClaims(c) ==
    /\ c \in casting
    /\ casting' = casting \ {c}
    /\ metadata' = IF ClaimMatches(c) THEN [metadata EXCEPT !.claim = c.run]
                                      ELSE metadata
    /\ IF At(c.by, "CLAIMING")
          THEN Goes(c.by, IF ClaimMatches(c) THEN "CLAIMED" ELSE "EXITED")
          ELSE UNCHANGED procs
    /\ UNCHANGED <<directory, disk, runFile, epochFile, issued, spent,
                   pending, landed, upkeep>>

\* Composition re-reads the epoch; the registry, the runtime owner and the
\* control socket come up with it.
Compose(p) ==
    /\ At(p, "CLAIMED")
    /\ MongoUp
    /\ Goes(p, IF metadata.epoch = procs[p].epoch THEN "COMPOSED" ELSE "REFUSING")
    /\ UNCHANGED <<metadata, directory, disk, runFile, epochFile, issued,
                   spent, casting, pending, landed, upkeep>>

\* COMPOSING -> AUTHORIZABLE -> OPEN, unless a drain got in between.
AuthorizeReady(p) ==
    /\ At(p, "COMPOSED")
    /\ procs' = [procs EXCEPT
            ![p].stage = IF procs[p].vetoed THEN "REFUSING" ELSE "SERVING",
            ![p].opened = ~procs[p].vetoed]
    /\ UNCHANGED <<metadata, directory, disk, runFile, epochFile, issued,
                   spent, casting, pending, landed, upkeep>>

\* Composition throws: the gate goes to SHUTDOWN and the process stays.
CompositionFails(p) ==
    /\ procs[p].stage \in {"CLAIMED", "COMPOSED"}
    /\ Goes(p, "REFUSING")
    /\ UNCHANGED <<metadata, directory, disk, runFile, epochFile, issued,
                   spent, casting, pending, landed, upkeep>>

-----------------------------------------------------------------------------
(* Business writes, as the adapter makes them. *)

\* A transaction begins by comparing its epoch with the system document; it
\* does not write that document, so a reset does not conflict with it.
BeginWrite(p) ==
    /\ At(p, "SERVING")
    /\ MongoUp
    /\ ~procs[p].vetoed
    /\ metadata.epoch = procs[p].epoch
    /\ \A w \in pending \cup landed : w.by # p
    /\ pending' = pending \cup {[by |-> p, epoch |-> procs[p].epoch]}
    /\ UNCHANGED <<metadata, directory, disk, runFile, epochFile, issued,
                   spent, procs, casting, landed, upkeep>>

ServerApplies(w) ==
    /\ w \in pending
    /\ pending' = pending \ {w}
    /\ landed' = landed \cup {[by |-> w.by, epoch |-> w.epoch,
                               into |-> metadata.epoch]}
    /\ UNCHANGED <<metadata, directory, disk, runFile, epochFile, issued,
                   spent, procs, casting, upkeep>>

-----------------------------------------------------------------------------
(* Maintenance and reset. *)

MaintenanceUnderWay ==
    upkeep.phase \in {"DRAINING", "API_STOPPING", "API_WAITING",
                      "API_STOPPED", "MONGO_STOPPED"}

\* The edge marker is created, or adopted; a new lifecycle starts.
AcquireMarker ==
    /\ upkeep.phase \in {"IDLE", "FAILED"}
    /\ upkeep' = [phase |-> "DRAINING", captured |-> 0]
    /\ UNCHANGED <<metadata, directory, disk, runFile, epochFile, issued,
                   spent, procs, casting, pending, landed>>

\* A drain that reaches the runtime control vetoes new work for good; one that
\* does not is recorded, and the lifecycle goes on.
DrainPrivateRuntime ==
    /\ upkeep.phase = "DRAINING"
    /\ upkeep' = [upkeep EXCEPT !.phase = "API_STOPPING"]
    /\ \/ UNCHANGED procs
       \/ \E p \in Running("api") :
            /\ procs[p].stage \in {"COMPOSED", "SERVING"}
            /\ procs' = [procs EXCEPT ![p].vetoed = TRUE]
    /\ UNCHANGED <<metadata, directory, disk, runFile, epochFile, issued,
                   spent, casting, pending, landed>>

\* The container's process is captured and signalled: a ready process closes
\* its gate, one that is still starting has no handler yet.
RequestApiStop ==
    /\ upkeep.phase = "API_STOPPING"
    /\ \E p \in Running("api") :
        /\ upkeep' = [phase |-> "API_WAITING", captured |-> p]
        /\ Goes(p, IF procs[p].stage \in Ready THEN "CLOSING" ELSE "EXITED")
    /\ UNCHANGED <<metadata, directory, disk, runFile, epochFile, issued,
                   spent, casting, pending, landed>>

\* Only the captured process is looked at (a mutant).
ApiGoneByPid == ~Live(upkeep.captured)

\* waitForGone: the container runs no process, not even a later one.
ApiGone == Running("api") = {}

AwaitApiProcessGone ==
    /\ upkeep.phase = "API_WAITING"
    /\ ApiGone
    /\ upkeep' = [upkeep EXCEPT !.phase = "API_STOPPED"]
    /\ UNCHANGED <<metadata, directory, disk, runFile, epochFile, issued,
                   spent, procs, casting, pending, landed>>

\* MongoDB stops, is observed gone, and with it every command in flight.
StopMongo ==
    /\ upkeep.phase = "API_STOPPED"
    /\ upkeep' = [upkeep EXCEPT !.phase = "MONGO_STOPPED"]
    /\ casting' = {}
    /\ pending' = {}
    /\ UNCHANGED <<metadata, directory, disk, runFile, epochFile, issued,
                   spent, procs, landed>>

\* MongoDB is primary again and the port verifyNoLateWork agrees: no process
\* was started by hand beside the container.
VerifyNoLateWork ==
    /\ upkeep.phase = "MONGO_STOPPED"
    /\ Running("extra") = {}
    /\ upkeep' = [upkeep EXCEPT !.phase = "VERIFIED"]
    /\ UNCHANGED <<metadata, directory, disk, runFile, epochFile, issued,
                   spent, procs, casting, pending, landed>>

\* An effect throws or times out: no later phase runs.
MaintenanceFails ==
    /\ MaintenanceUnderWay
    /\ upkeep' = [upkeep EXCEPT !.phase = "FAILED"]
    /\ UNCHANGED <<metadata, directory, disk, runFile, epochFile, issued,
                   spent, procs, casting, pending, landed>>

\* resetAndSeedG11d, run by the operator after a verified maintenance: a
\* new epoch without a claim, in one transaction.
ResetAndSeed ==
    /\ upkeep.phase = "VERIFIED"
    /\ metadata.epoch < MaxEpochs
    /\ metadata' = [epoch |-> metadata.epoch + 1, claim |-> 0]
    /\ UNCHANGED <<directory, disk, runFile, epochFile, issued, spent, procs,
                   casting, pending, landed, upkeep>>

-----------------------------------------------------------------------------

ProcessStep(p) ==
    \/ Exit(p) \/ VerifyDataset(p) \/ ReadTicket(p) \/ CreateMarker(p)
    \/ SyncMarker(p) \/ UnlinkTicket(p) \/ SyncUnlink(p) \/ SendClaim(p)
    \/ Compose(p) \/ AuthorizeReady(p) \/ CompositionFails(p) \/ BeginWrite(p)

RunNext ==
    \/ \E home \in {"api", "extra"} : Start(home)
    \/ ProvisionRun \/ IssueTicket \/ PublishEpoch \/ HostCrash
    \/ \E p \in Starts : ProcessStep(p)
    \/ \E c \in casting : ServerClaims(c)
    \/ \E w \in pending : ServerApplies(w)
    \/ AcquireMarker \/ DrainPrivateRuntime \/ RequestApiStop
    \/ AwaitApiProcessGone \/ StopMongo \/ VerifyNoLateWork
    \/ MaintenanceFails \/ ResetAndSeed

RunSpec == RunInit /\ [][RunNext]_runVars

-----------------------------------------------------------------------------
(* Properties. *)

\* At most one process ever opens its gate for an epoch, whatever the order of
\* starts, tickets, late compare-and-sets and crashes; while the epoch lasts
\* its run holds the claim, and every write applied in the epoch is its own.
OneProcessPerEpoch ==
    \A p \in Starts : procs[p].opened =>
        /\ \A q \in Starts :
              procs[q].opened /\ procs[q].epoch = procs[p].epoch => q = p
        /\ metadata.epoch = procs[p].epoch => metadata.claim = procs[p].run
        /\ \A w \in landed : w.epoch = procs[p].epoch => w.by = p

\* A ticket is spent by one process: no crash between the marker, the unlink
\* and their syncs, and no second process reading at the same time, spends it
\* again.
TicketsAreSpentOnce == \A t \in 1..MaxTickets : spent[t] <= 1

\* One ticket makes one run, and one run an epoch.
RunsAreClaimedOnce == OneProcessPerEpoch /\ TicketsAreSpentOnce

\* No write lands in another epoch than the one it was made for: a reset only
\* follows the observed end of every process and of MongoDB itself.
WritesLandInTheirEpoch ==
    /\ \A w \in landed : w.into = w.epoch
    /\ upkeep.phase = "VERIFIED" =>
          casting \cup pending = {} /\ \A p \in Starts : ~Live(p)

\* An epoch has one writer, and only that writer's writes: the claim and the
\* reset keep it from both ends.
EpochsHaveOneWriter == RunsAreClaimedOnce /\ WritesLandInTheirEpoch

=============================================================================
