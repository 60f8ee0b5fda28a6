--------------------------- MODULE LifecycleProofs ---------------------------
(***************************************************************************)
(* The life of the processes, proved for every number of starts, tickets,  *)
(* connections, clients, readers and records.                              *)
(*   - Runs, tickets and claims of all processes that ever start on a host *)
(*   - The start and the shutdown of one of them                           *)
(*   - The rate ledger it keeps while it serves                            *)
(*   - The listener of its control socket, and the exchanges on it         *)
(*   - The pages of a listing                                              *)
(*   - The bodies it reads                                                 *)
(*   - The log it writes                                                   *)
(* The parts share nothing.  Each names its inductive invariant, shows     *)
(* first which shape a step has (what it moves and what it leaves alone),  *)
(* and then goes through the parts of the invariant.                       *)
(***************************************************************************)
EXTENDS RunLifecycle, ProductionRuntime, RateLedger, ControlListener, ControlExchange,
        Queries, BodyReader, RuntimeLog, FiniteSetTheorems, WellFoundedInduction, TLAPS

-----------------------------------------------------------------------------
(* Runs, tickets and claims.  EpochsHaveOneWriter is about what has happened:  *)
(* which process spent a ticket, wrote an epoch, opened.  The invariant says   *)
(* at each stage of a process what of this it has behind it, and what its       *)
(* commands on their way to the server may still do.                           *)

Tickets == {NoTicket} \cup [id : 1..MaxTickets, epoch : Nat, run : Nat \ {0}]

Stages == Opening \cup Ready \cup {"NONE", "CLOSING", "EXITED"}

Processes == [stage : Stages, home : {"api", "extra"}, run : Nat, epoch : Nat,
              ticket : Tickets, vetoed : BOOLEAN, opened : BOOLEAN]

Directories == [ticket : Tickets, used : SUBSET (1..MaxTickets)]

RunTypeOK ==
    /\ metadata \in [epoch : Nat, claim : Nat]
    /\ directory \in Directories
    /\ disk \in Directories
    /\ runFile \in Nat \ {0}
    /\ epochFile \in Nat
    /\ issued \in 0..MaxTickets
    /\ spent \in [1..MaxTickets -> Nat]
    /\ procs \in [Starts -> Processes]
    /\ casting \in SUBSET [by : Starts, epoch : Nat, run : Nat \ {0}]
    /\ pending \in SUBSET [by : Starts, epoch : Nat]
    /\ landed \in SUBSET [by : Starts, epoch : Nat, into : Nat]
    /\ upkeep \in [phase : {"IDLE", "FAILED", "DRAINING", "API_STOPPING", "API_WAITING",
                            "API_STOPPED", "MONGO_STOPPED", "VERIFIED"},
                   captured : Starts \cup {0}]

\* A process that is about to spend its ticket.
Spending(p) == procs[p].stage \in {"MARKED", "MARKER_SYNCED"}

\* The marker of a spent ticket is on the disk; whoever is about to spend one
\* is the only one, for a crash that takes its marker takes it too.
TicketInv ==
    /\ disk.used \subseteq directory.used
    /\ \A t \in 1..MaxTickets : spent[t] <= 1 /\ (spent[t] > 0 => t \in disk.used)
    /\ \A p \in Starts :
          /\ procs[p].stage = "TICKET_READ" \/ Spending(p) => procs[p].ticket # NoTicket
          /\ Spending(p) => spent[procs[p].ticket.id] = 0 /\ procs[p].ticket.id \in directory.used
          /\ procs[p].stage = "MARKER_SYNCED" => procs[p].ticket.id \in disk.used
          /\ \A q \in Starts :
                Spending(p) /\ Spending(q) /\ procs[p].ticket.id = procs[q].ticket.id => p = q

\* The process that has the claim of its epoch, or had its gate open for it.
Won(p) == procs[p].stage \in {"CLAIMED", "COMPOSED"} \/ procs[p].opened

\* A process with its gate open has been ready.
StageInv ==
    \A p \in Starts :
        /\ procs[p].stage \in Opening \cup {"SERVING"} => procs[p].run > 0
        /\ procs[p].stage = "SERVING" => procs[p].opened
        /\ procs[p].opened => procs[p].stage \in {"SERVING", "CLOSING", "EXITED"}

\* Only one process wins an epoch, since its compare-and-set found no claim
\* and left one; a later epoch has a later winner.
WinnerInv ==
    \A p \in Starts : Won(p) =>
        /\ procs[p].run > 0
        /\ procs[p].epoch <= metadata.epoch
        /\ metadata.epoch = procs[p].epoch => metadata.claim = procs[p].run
        /\ \A q \in Starts : Won(q) /\ procs[q].epoch = procs[p].epoch => q = p

\* Who cast a compare-and-set still waits for its answer, or is gone.
CastInv ==
    \A c \in casting :
        /\ procs[c.by].stage \in {"CLAIMING", "EXITED"}
        /\ procs[c.by].stage = "CLAIMING" =>
              c.epoch = procs[c.by].epoch /\ c.run = procs[c.by].run

WriteInv ==
    /\ \A w \in pending \cup landed : procs[w.by].opened /\ w.epoch = procs[w.by].epoch
    /\ \A w \in pending : w.epoch = metadata.epoch
    /\ \A w \in landed : w.into = w.epoch

\* What maintenance has observed stays so until it ends.
UpkeepInv ==
    /\ upkeep.phase \in {"API_STOPPED", "MONGO_STOPPED"} =>
          \A p \in Starts : Live(p) => procs[p].home # "api"
    /\ upkeep.phase \in {"MONGO_STOPPED", "VERIFIED"} => casting = {} /\ pending = {}
    /\ upkeep.phase = "VERIFIED" => \A p \in Starts : ~Live(p)

RunInv ==
    /\ RunTypeOK /\ TicketInv /\ StageInv /\ WinnerInv /\ CastInv
    /\ WriteInv /\ UpkeepInv

-----------------------------------------------------------------------------
(* What a step makes of a process. *)

Others(p) ==
    /\ procs' \in [Starts -> Processes]
    /\ \A q \in Starts : q # p => procs'[q] = procs[q]

Moves(p, stage) ==
    /\ Others(p)
    /\ procs'[p].stage = stage
    /\ procs'[p].home = procs[p].home
    /\ procs'[p].run = procs[p].run
    /\ procs'[p].epoch = procs[p].epoch
    /\ procs'[p].ticket = procs[p].ticket
    /\ procs'[p].opened = procs[p].opened

Ends(p) ==
    /\ Others(p)
    /\ procs'[p].stage = "EXITED"
    /\ procs'[p].opened = procs[p].opened
    /\ procs[p].opened =>
          procs'[p].run = procs[p].run /\ procs'[p].epoch = procs[p].epoch

LEMMA GoneIsProcess ==
    ASSUME NEW r \in Processes
    PROVE  /\ Gone(r) \in Processes
           /\ Gone(r).stage = "EXITED" /\ Gone(r).opened = r.opened
           /\ r.opened => Gone(r).run = r.run /\ Gone(r).epoch = r.epoch
<1>1. CASE r.opened
  BY <1>1 DEF Gone, Processes, Stages, Tickets
<1>2. CASE ~r.opened
  BY <1>2 DEF Gone, Processes, Stages, Tickets, NoProcess
<1>. QED  BY <1>1, <1>2 DEF Processes

LEMMA GoesOn ==
    ASSUME RunTypeOK, NEW p \in Starts, NEW stage \in Stages \ {"EXITED"}, Goes(p, stage)
    PROVE  Moves(p, stage)
<1>. DEFINE r == [procs[p] EXCEPT !.stage = stage]
<1>1. procs \in [Starts -> Processes] /\ procs[p] \in Processes
  BY DEF RunTypeOK
<1>2. r \in Processes /\ r.stage = stage /\ r.home = procs[p].home /\ r.run = procs[p].run
      /\ r.epoch = procs[p].epoch /\ r.ticket = procs[p].ticket /\ r.opened = procs[p].opened
  BY <1>1 DEF Processes
<1>3. procs' = [procs EXCEPT ![p] = r]
  BY DEF Goes
<1>. HIDE DEF r
<1>. QED  BY <1>1, <1>2, <1>3 DEF Moves, Others

LEMMA GoesOff ==
    ASSUME RunTypeOK, NEW p \in Starts, Goes(p, "EXITED")
    PROVE  Ends(p)
<1>1. procs \in [Starts -> Processes] /\ procs[p] \in Processes
  BY DEF RunTypeOK
<1>2. procs' = [procs EXCEPT ![p] = Gone(procs[p])]
  BY DEF Goes
<1>. QED  BY <1>1, <1>2, GoneIsProcess DEF Ends, Others

-----------------------------------------------------------------------------
(* What keeps the winners and their writes. *)

\* Nobody wins, and no gate that was open is forgotten.
NobodyWins ==
    \A p \in Starts :
        /\ procs'[p].opened = procs[p].opened
        /\ procs[p].opened => procs'[p].epoch = procs[p].epoch
        /\ Won(p)' => Won(p) /\ procs'[p].run = procs[p].run
                              /\ procs'[p].epoch = procs[p].epoch

LEMMA WinnersStay ==
    ASSUME WinnerInv, NobodyWins, UNCHANGED metadata
    PROVE  WinnerInv'
  BY DEF WinnerInv, NobodyWins

LEMMA WritesStay ==
    ASSUME RunTypeOK, WriteInv, NobodyWins, UNCHANGED metadata,
           pending' \subseteq pending, UNCHANGED landed
    PROVE  WriteInv'
<1>1. \A w \in pending \cup landed : w.by \in Starts
  BY DEF RunTypeOK
<1>. QED  BY <1>1 DEF WriteInv, NobodyWins

-----------------------------------------------------------------------------
(* The steps. *)

LEMMA StartKeeps ==
    ASSUME RunInv, NEW home \in {"api", "extra"}, Start(home)
    PROVE  RunInv'
<1>. /\ RunTypeOK /\ TicketInv /\ StageInv /\ WinnerInv /\ CastInv /\ WriteInv
     /\ UpkeepInv /\ procs \in [Starts -> Processes]
     /\ \A c \in casting : c.by \in Starts
     /\ \A w \in pending \cup landed : w.by \in Starts
  BY DEF RunInv, RunTypeOK
<1>1. PICK p \in Starts :
        /\ procs[p].stage = "NONE" /\ Others(p) /\ procs'[p].stage = "STARTED"
        /\ procs'[p].home = home /\ procs'[p].run = runFile /\ procs'[p].opened = procs[p].opened
  <2>1. PICK p \in Starts :
           /\ procs[p].stage = "NONE"
           /\ procs' = [procs EXCEPT ![p].stage = "STARTED", ![p].home = home, ![p].run = runFile]
    BY DEF Start, At
  <2>2. procs[p] \in Processes /\ runFile \in Nat /\ "STARTED" \in Stages
    BY DEF RunTypeOK, Stages, Opening
  <2>3. /\ procs'[p] = [procs[p] EXCEPT !.stage = "STARTED", !.home = home, !.run = runFile]
        /\ procs'[p] \in Processes
    BY <2>1, <2>2 DEF Processes
  <2>4. Others(p)
    BY <2>1, <2>3 DEF Others
  <2>. QED  BY <2>1, <2>2, <2>3, <2>4 DEF Processes
<1>2. NobodyWins
  BY <1>1 DEF NobodyWins, Won, StageInv, Others, Moves, Ends, Stages, Opening, Ready, NoProcess
<1>3. RunTypeOK'
  BY <1>1 DEF Start, RunTypeOK, Others
<1>4. TicketInv'
  BY DEF Start, TicketInv, Spending
<1>5. StageInv'
  <2>1. runFile > 0
    BY DEF RunTypeOK
  <2>2. \A q \in Starts : q # p => procs'[q] = procs[q]
    BY <1>1 DEF Others
  <2>3. ~procs[p].opened
    BY <1>1 DEF StageInv
  <2>. QED  BY <1>1, <2>1, <2>2, <2>3 DEF StageInv
<1>6. WinnerInv'
  BY <1>2, WinnersStay DEF Start
<1>7. CastInv'
  BY <1>1 DEF Start, CastInv
<1>8. WriteInv'
  BY <1>2, WritesStay DEF Start
<1>9. UpkeepInv'
  BY DEF Start, UpkeepInv
<1>. QED  BY <1>3, <1>4, <1>5, <1>6, <1>7, <1>8, <1>9 DEF RunInv

LEMMA ProvisionRunKeeps ==
    ASSUME RunInv, ProvisionRun
    PROVE  RunInv'
<1>. /\ RunTypeOK /\ TicketInv /\ StageInv /\ WinnerInv /\ CastInv /\ WriteInv
     /\ UpkeepInv /\ procs \in [Starts -> Processes]
     /\ \A c \in casting : c.by \in Starts
     /\ \A w \in pending \cup landed : w.by \in Starts
  BY DEF RunInv, RunTypeOK
<1>1. RunTypeOK'
  BY RunLifecycleAssumption DEF ProvisionRun, RunTypeOK, Directories
<1>2. TicketInv'
  BY DEF ProvisionRun, TicketInv, Spending
<1>3. StageInv'
  BY DEF ProvisionRun, StageInv
<1>4. WinnerInv'
  BY DEF ProvisionRun, WinnerInv, Won
<1>5. CastInv'
  BY DEF ProvisionRun, CastInv
<1>6. WriteInv'
  BY DEF ProvisionRun, WriteInv
<1>7. UpkeepInv'
  BY DEF ProvisionRun, UpkeepInv, Live
<1>. QED  BY <1>1, <1>2, <1>3, <1>4, <1>5, <1>6, <1>7 DEF RunInv

LEMMA IssueTicketKeeps ==
    ASSUME RunInv, IssueTicket
    PROVE  RunInv'
<1>. /\ RunTypeOK /\ TicketInv /\ StageInv /\ WinnerInv /\ CastInv /\ WriteInv
     /\ UpkeepInv /\ procs \in [Starts -> Processes]
     /\ \A c \in casting : c.by \in Starts
     /\ \A w \in pending \cup landed : w.by \in Starts
  BY DEF RunInv, RunTypeOK
<1>1. RunTypeOK'
  <2>1. issued + 1 \in 1..MaxTickets
    BY RunLifecycleAssumption DEF IssueTicket, RunTypeOK
  <2>2. [id |-> issued + 1, epoch |-> epochFile, run |-> runFile] \in Tickets
    BY <2>1 DEF Tickets, RunTypeOK
  <2>. QED  BY <2>1, <2>2, SMTT(40) DEF IssueTicket, RunTypeOK, Directories
<1>2. TicketInv'
  BY RunLifecycleAssumption DEF IssueTicket, Tickets, NoTicket, TicketInv, Spending
<1>3. StageInv'
  BY DEF IssueTicket, StageInv
<1>4. WinnerInv'
  BY DEF IssueTicket, WinnerInv, Won
<1>5. CastInv'
  BY DEF IssueTicket, CastInv
<1>6. WriteInv'
  BY DEF IssueTicket, WriteInv
<1>7. UpkeepInv'
  BY DEF IssueTicket, UpkeepInv, Live
<1>. QED  BY <1>1, <1>2, <1>3, <1>4, <1>5, <1>6, <1>7 DEF RunInv

LEMMA PublishEpochKeeps ==
    ASSUME RunInv, PublishEpoch
    PROVE  RunInv'
<1>. /\ RunTypeOK /\ TicketInv /\ StageInv /\ WinnerInv /\ CastInv /\ WriteInv
     /\ UpkeepInv /\ procs \in [Starts -> Processes]
     /\ \A c \in casting : c.by \in Starts
     /\ \A w \in pending \cup landed : w.by \in Starts
  BY DEF RunInv, RunTypeOK
<1>1. RunTypeOK'
  BY RunLifecycleAssumption DEF PublishEpoch, RunTypeOK, Directories
<1>2. TicketInv'
  BY DEF PublishEpoch, TicketInv, Spending
<1>3. StageInv'
  BY DEF PublishEpoch, StageInv
<1>4. WinnerInv'
  BY DEF PublishEpoch, WinnerInv, Won
<1>5. CastInv'
  BY DEF PublishEpoch, CastInv
<1>6. WriteInv'
  BY DEF PublishEpoch, WriteInv
<1>7. UpkeepInv'
  BY DEF PublishEpoch, UpkeepInv, Live
<1>. QED  BY <1>1, <1>2, <1>3, <1>4, <1>5, <1>6, <1>7 DEF RunInv

LEMMA HostCrashKeeps ==
    ASSUME RunInv, HostCrash
    PROVE  RunInv'
<1>. /\ RunTypeOK /\ TicketInv /\ StageInv /\ WinnerInv /\ CastInv /\ WriteInv
     /\ UpkeepInv /\ procs \in [Starts -> Processes]
     /\ \A c \in casting : c.by \in Starts
     /\ \A w \in pending \cup landed : w.by \in Starts
  BY DEF RunInv, RunTypeOK
<1>1. /\ procs' \in [Starts -> Processes]
      /\ \A p \in Starts :
            IF Live(p)
            THEN /\ procs'[p].stage = "EXITED" /\ procs'[p].opened = procs[p].opened
                 /\ procs[p].opened =>
                       procs'[p].run = procs[p].run /\ procs'[p].epoch = procs[p].epoch
            ELSE procs'[p] = procs[p]
  BY GoneIsProcess DEF HostCrash, RunTypeOK
<1>2. NobodyWins
  BY <1>1 DEF NobodyWins, Won, StageInv, Others, Moves, Ends, Live, Stages, Opening, Ready
<1>3. RunTypeOK'
  BY <1>1 DEF HostCrash, RunTypeOK, Directories
<1>4. TicketInv'
  BY <1>1 DEF HostCrash, Live, Opening, TicketInv, Spending
<1>5. StageInv'
  BY <1>1 DEF Opening, StageInv
<1>6. WinnerInv'
  BY <1>2, WinnersStay DEF HostCrash
<1>7. CastInv'
  BY DEF HostCrash, CastInv
<1>8. WriteInv'
  BY <1>2, WritesStay DEF HostCrash
<1>9. UpkeepInv'
  BY DEF HostCrash, UpkeepInv
<1>. QED  BY <1>3, <1>4, <1>5, <1>6, <1>7, <1>8, <1>9 DEF RunInv

LEMMA ExitKeeps ==
    ASSUME RunInv, NEW p \in Starts, Exit(p)
    PROVE  RunInv'
<1>. /\ RunTypeOK /\ TicketInv /\ StageInv /\ WinnerInv /\ CastInv /\ WriteInv
     /\ UpkeepInv /\ procs \in [Starts -> Processes]
     /\ \A c \in casting : c.by \in Starts
     /\ \A w \in pending \cup landed : w.by \in Starts
  BY DEF RunInv, RunTypeOK
<1>1. Ends(p)
  BY GoesOff DEF Exit
<1>2. NobodyWins
  BY <1>1 DEF NobodyWins, Won, StageInv, Others, Moves, Ends, Stages, Opening, Ready
<1>3. RunTypeOK'
  BY <1>1 DEF Exit, RunTypeOK, Others, Ends
<1>4. TicketInv'
  BY <1>1 DEF Exit, TicketInv, Spending, Others, Ends
<1>5. StageInv'
  BY <1>1, RunLifecycleAssumption DEF Exit, Stages, Opening, Ready, StageInv, Others, Moves,
     Ends
<1>6. WinnerInv'
  BY <1>2, WinnersStay DEF Exit
<1>7. CastInv'
  BY <1>1, RunLifecycleAssumption DEF Exit, Stages, Opening, Ready, CastInv, Others, Moves, Ends
<1>8. WriteInv'
  BY <1>2, WritesStay DEF Exit
<1>9. UpkeepInv'
  BY <1>1 DEF Exit, Opening, Ready, UpkeepInv, Live, Others, Ends
<1>. QED  BY <1>3, <1>4, <1>5, <1>6, <1>7, <1>8, <1>9 DEF RunInv

LEMMA VerifyDatasetKeeps ==
    ASSUME RunInv, NEW p \in Starts, VerifyDataset(p)
    PROVE  RunInv'
<1>. /\ RunTypeOK /\ TicketInv /\ StageInv /\ WinnerInv /\ CastInv /\ WriteInv
     /\ UpkeepInv /\ procs \in [Starts -> Processes]
     /\ \A c \in casting : c.by \in Starts
     /\ \A w \in pending \cup landed : w.by \in Starts
  BY DEF RunInv, RunTypeOK
<1>1. Others(p) /\ procs[p].stage = "STARTED" /\ procs'[p].stage = "VERIFIED"
      /\ procs'[p].home = procs[p].home /\ procs'[p].run = procs[p].run
      /\ procs'[p].opened = procs[p].opened
  <2>1. procs[p] \in Processes /\ metadata.epoch \in Nat /\ "VERIFIED" \in Stages
    BY DEF RunTypeOK, Stages, Opening
  <2>2. /\ procs[p].stage = "STARTED"
        /\ procs' = [procs EXCEPT ![p].stage = "VERIFIED", ![p].epoch = metadata.epoch]
    BY DEF VerifyDataset, At
  <2>3. /\ procs'[p] = [procs[p] EXCEPT !.stage = "VERIFIED", !.epoch = metadata.epoch]
        /\ procs'[p] \in Processes
    BY <2>1, <2>2 DEF Processes
  <2>4. Others(p)
    BY <2>2, <2>3 DEF Others
  <2>. QED  BY <2>1, <2>2, <2>3, <2>4 DEF Processes
<1>2. NobodyWins
  BY <1>1 DEF NobodyWins, Won, StageInv, Others, Moves, Ends, Stages, Opening, Ready
<1>3. RunTypeOK'
  BY <1>1 DEF VerifyDataset, RunTypeOK, Others
<1>4. TicketInv'
  BY DEF VerifyDataset, TicketInv, Spending
<1>5. StageInv'
  BY <1>1 DEF Opening, StageInv, Others
<1>6. WinnerInv'
  BY <1>2, WinnersStay DEF VerifyDataset
<1>7. CastInv'
  BY <1>1 DEF VerifyDataset, CastInv
<1>8. WriteInv'
  BY <1>2, WritesStay DEF VerifyDataset
<1>9. UpkeepInv'
  BY <1>1 DEF VerifyDataset, Opening, UpkeepInv, Live
<1>. QED  BY <1>3, <1>4, <1>5, <1>6, <1>7, <1>8, <1>9 DEF RunInv

LEMMA ReadTicketKeeps ==
    ASSUME RunInv, NEW p \in Starts, ReadTicket(p)
    PROVE  RunInv'
<1>. /\ RunTypeOK /\ TicketInv /\ StageInv /\ WinnerInv /\ CastInv /\ WriteInv
     /\ UpkeepInv /\ procs \in [Starts -> Processes]
     /\ \A c \in casting : c.by \in Starts
     /\ \A w \in pending \cup landed : w.by \in Starts
  BY DEF RunInv, RunTypeOK
<1>1. procs[p].stage = "VERIFIED" /\ (Moves(p, "REFUSING") \/ Ends(p)
      \/ (Others(p) /\ procs'[p].stage = "TICKET_READ" /\ directory.ticket # NoTicket
          /\ procs'[p].ticket = directory.ticket
          /\ procs'[p].home = procs[p].home /\ procs'[p].run = procs[p].run
          /\ procs'[p].opened = procs[p].opened))
  <2>1. procs[p] \in Processes /\ directory.ticket \in Tickets
        /\ "TICKET_READ" \in Stages /\ "REFUSING" \in Stages
    BY DEF RunTypeOK, Directories, Stages, Opening, Ready
  <2>2. CASE Goes(p, "REFUSING")
    BY <2>1, <2>2, GoesOn DEF ReadTicket, At
  <2>3. CASE Goes(p, "EXITED")
    BY <2>3, GoesOff DEF ReadTicket, At
  <2>4. CASE /\ directory.ticket # NoTicket
             /\ procs' = [procs EXCEPT ![p].stage = "TICKET_READ", ![p].ticket = directory.ticket]
    <3>1. /\ procs'[p] = [procs[p] EXCEPT !.stage = "TICKET_READ", !.ticket = directory.ticket]
          /\ procs'[p] \in Processes
      BY <2>1, <2>4 DEF Processes
    <3>2. Others(p)
      BY <2>4, <3>1 DEF Others
    <3>. QED  BY <2>1, <2>4, <3>1, <3>2 DEF ReadTicket, At, Processes
  <2>. QED  BY <2>2, <2>3, <2>4 DEF ReadTicket
<1>2. NobodyWins
  BY <1>1 DEF NobodyWins, Won, StageInv, Others, Moves, Ends, Stages, Opening, Ready
<1>3. RunTypeOK'
  BY <1>1 DEF ReadTicket, RunTypeOK, Others, Moves, Ends
<1>4. TicketInv'
  BY <1>1 DEF ReadTicket, TicketInv, Spending, Others, Moves, Ends
<1>5. StageInv'
  BY <1>1 DEF Opening, StageInv, Others, Moves, Ends
<1>6. WinnerInv'
  BY <1>2, WinnersStay DEF ReadTicket
<1>7. CastInv'
  BY <1>1 DEF ReadTicket, CastInv, Others, Moves, Ends
<1>8. WriteInv'
  BY <1>2, WritesStay DEF ReadTicket
<1>9. UpkeepInv'
  BY <1>1 DEF ReadTicket, Opening, Ready, UpkeepInv, Live, Others, Moves, Ends
<1>. QED  BY <1>3, <1>4, <1>5, <1>6, <1>7, <1>8, <1>9 DEF RunInv

LEMMA CreateMarkerKeeps ==
    ASSUME RunInv, NEW p \in Starts, CreateMarker(p)
    PROVE  RunInv'
<1>. /\ RunTypeOK /\ TicketInv /\ StageInv /\ WinnerInv /\ CastInv /\ WriteInv
     /\ UpkeepInv /\ procs \in [Starts -> Processes]
     /\ \A c \in casting : c.by \in Starts
     /\ \A w \in pending \cup landed : w.by \in Starts
  BY DEF RunInv, RunTypeOK
<1>1. /\ procs[p].stage = "TICKET_READ"
      /\ \/ Ends(p) /\ UNCHANGED directory
         \/ /\ Moves(p, "MARKED") /\ procs[p].ticket.id \notin directory.used
            /\ directory'.used = directory.used \cup {procs[p].ticket.id}
  BY GoesOn, GoesOff DEF CreateMarker, At, Stages, Opening, Ready, RunTypeOK, Directories
<1>2. NobodyWins
  BY <1>1 DEF NobodyWins, Won, Others, Moves, Ends
<1>3. RunTypeOK'
  <2>1. procs[p].ticket \in [id : 1..MaxTickets, epoch : Nat, run : Nat \ {0}]
    BY <1>1 DEF TicketInv, Spending, Processes, Tickets
  <2>2. procs[p].ticket.id \in 1..MaxTickets
    BY <2>1
  <2>3. directory' \in Directories
    BY <2>2 DEF CreateMarker, RunTypeOK, Directories
  <2>. QED  BY <1>1, <2>3 DEF CreateMarker, RunTypeOK, Others, Moves, Ends
<1>4. TicketInv'
  <2>1. procs[p].ticket \in [id : 1..MaxTickets, epoch : Nat, run : Nat \ {0}]
    BY <1>1 DEF TicketInv, Spending, Processes, Tickets
  <2>2. procs[p].ticket.id \in 1..MaxTickets
    BY <2>1
  <2>3. UNCHANGED <<disk, spent>>
    BY DEF CreateMarker
  <2>4. CASE Ends(p) /\ UNCHANGED directory
    BY <2>3, <2>4 DEF TicketInv, Spending, Ends, Others
  <2>5. CASE Moves(p, "MARKED") /\ procs[p].ticket.id \notin directory.used
    <3>1. directory'.used = directory.used \cup {procs[p].ticket.id}
      BY <1>1, <2>5 DEF Moves, Ends
    <3>2. spent[procs[p].ticket.id] = 0
      BY <2>2, <2>5 DEF TicketInv, RunTypeOK
    <3>3. \A q \in Starts : Spending(q) => procs[q].ticket.id # procs[p].ticket.id
      BY <2>5 DEF TicketInv
    <3>. QED  BY <1>1, <2>1, <2>3, <2>5, <3>1, <3>2, <3>3 DEF TicketInv, Spending, Moves, Others
  <2>. QED  BY <1>1, <2>4, <2>5
<1>5. StageInv'
  BY <1>1 DEF Opening, StageInv, Others, Moves, Ends
<1>6. WinnerInv'
  BY <1>2, WinnersStay DEF CreateMarker
<1>7. CastInv'
  BY <1>1 DEF CreateMarker, CastInv, Others, Moves, Ends
<1>8. WriteInv'
  BY <1>2, WritesStay DEF CreateMarker
<1>9. UpkeepInv'
  BY <1>1 DEF CreateMarker, Opening, Ready, UpkeepInv, Live, Others, Moves, Ends
<1>. QED  BY <1>3, <1>4, <1>5, <1>6, <1>7, <1>8, <1>9 DEF RunInv

LEMMA SyncMarkerKeeps ==
    ASSUME RunInv, NEW p \in Starts, SyncMarker(p)
    PROVE  RunInv'
<1>. /\ RunTypeOK /\ TicketInv /\ StageInv /\ WinnerInv /\ CastInv /\ WriteInv
     /\ UpkeepInv /\ procs \in [Starts -> Processes]
     /\ \A c \in casting : c.by \in Starts
     /\ \A w \in pending \cup landed : w.by \in Starts
  BY DEF RunInv, RunTypeOK
<1>1. procs[p].stage = "MARKED" /\ Moves(p, "MARKER_SYNCED")
  BY GoesOn DEF SyncMarker, At, Stages, Opening, Ready
<1>2. NobodyWins
  BY <1>1 DEF NobodyWins, Won, StageInv, Others, Moves, Ends, Stages, Opening, Ready
<1>3. RunTypeOK'
  BY <1>1 DEF SyncMarker, RunTypeOK, Others, Moves
<1>4. TicketInv'
  BY <1>1 DEF SyncMarker, TicketInv, Spending, Others, Moves
<1>5. StageInv'
  BY <1>1 DEF Opening, StageInv, Others, Moves
<1>6. WinnerInv'
  BY <1>2, WinnersStay DEF SyncMarker
<1>7. CastInv'
  BY <1>1 DEF SyncMarker, CastInv, Others, Moves
<1>8. WriteInv'
  BY <1>2, WritesStay DEF SyncMarker
<1>9. UpkeepInv'
  BY <1>1 DEF SyncMarker, Opening, UpkeepInv, Live, Others, Moves
<1>. QED  BY <1>3, <1>4, <1>5, <1>6, <1>7, <1>8, <1>9 DEF RunInv

LEMMA UnlinkTicketKeeps ==
    ASSUME RunInv, NEW p \in Starts, UnlinkTicket(p)
    PROVE  RunInv'
<1>. /\ RunTypeOK /\ TicketInv /\ StageInv /\ WinnerInv /\ CastInv /\ WriteInv
     /\ UpkeepInv /\ procs \in [Starts -> Processes]
     /\ \A c \in casting : c.by \in Starts
     /\ \A w \in pending \cup landed : w.by \in Starts
  BY DEF RunInv, RunTypeOK
<1>1. /\ procs[p].stage = "MARKER_SYNCED"
      /\ \/ Ends(p) /\ UNCHANGED spent
         \/ /\ Moves(p, "UNLINKED")
            /\ spent' = [spent EXCEPT ![procs[p].ticket.id] = @ + 1]
  BY GoesOn, GoesOff DEF UnlinkTicket, At, Stages, Opening, Ready
<1>2. NobodyWins
  BY <1>1 DEF NobodyWins, Won, Others, Moves, Ends
<1>3. RunTypeOK'
  <2>1. procs[p].ticket \in [id : 1..MaxTickets, epoch : Nat, run : Nat \ {0}]
    BY <1>1 DEF TicketInv, Spending, Processes, Tickets
  <2>2. procs[p].ticket.id \in 1..MaxTickets
    BY <2>1
  <2>3. directory' \in Directories
    BY DEF UnlinkTicket, RunTypeOK, Directories, Tickets
  <2>4. spent' \in [1..MaxTickets -> Nat]
    BY <2>2 DEF UnlinkTicket, RunTypeOK
  <2>. QED  BY <1>1, <2>3, <2>4 DEF UnlinkTicket, RunTypeOK, Others, Moves, Ends
<1>4. TicketInv'
  <2>1. procs[p].ticket \in [id : 1..MaxTickets, epoch : Nat, run : Nat \ {0}]
    BY <1>1 DEF TicketInv, Spending, Processes, Tickets
  <2>2. procs[p].ticket.id \in 1..MaxTickets
    BY <2>1
  <2>3. UNCHANGED disk /\ directory'.used = directory.used
    BY DEF UnlinkTicket, RunTypeOK, Directories
  <2>4. CASE Ends(p) /\ UNCHANGED spent
    BY <2>3, <2>4 DEF TicketInv, Spending, Ends, Others
  <2>5. CASE Moves(p, "UNLINKED") /\ spent' = [spent EXCEPT ![procs[p].ticket.id] = @ + 1]
    <3>1. \A q \in Starts : Spending(q)' => q # p /\ Spending(q) /\ procs'[q] = procs[q]
      BY <2>5 DEF Spending, Moves, Others
    <3>2. \A q \in Starts : Spending(q)' => procs[q].ticket.id # procs[p].ticket.id
      BY <1>1, <3>1 DEF TicketInv, Spending
    <3>3. spent[procs[p].ticket.id] = 0 /\ procs[p].ticket.id \in disk.used
      BY <1>1 DEF TicketInv, Spending
    <3>4. spent' \in [1..MaxTickets -> Nat] /\ spent'[procs[p].ticket.id] = 1
          /\ \A t \in 1..MaxTickets : t # procs[p].ticket.id => spent'[t] = spent[t]
      BY <2>2, <2>5, <3>3 DEF RunTypeOK
    <3>5. ASSUME NEW q \in Starts, Spending(q)'
          PROVE  spent'[procs'[q].ticket.id] = 0
      <4>1. /\ procs[q].ticket \in Tickets /\ procs[q].ticket # NoTicket
            /\ spent[procs[q].ticket.id] = 0
        BY <3>1, <3>5 DEF TicketInv, Processes
      <4>2. procs[q].ticket.id \in 1..MaxTickets
        BY <4>1 DEF Tickets
      <4>. QED  BY <3>1, <3>2, <3>4, <3>5, <4>1, <4>2
    <3>6. \A q \in Starts : procs'[q].stage = "TICKET_READ" => procs'[q].ticket # NoTicket
      BY <2>5 DEF TicketInv, Moves, Others
    <3>. QED  BY <2>3, <3>1, <3>3, <3>4, <3>5, <3>6 DEF TicketInv, Spending
  <2>. QED  BY <1>1, <2>4, <2>5
<1>5. StageInv'
  BY <1>1 DEF Opening, StageInv, Others, Moves, Ends
<1>6. WinnerInv'
  BY <1>2, WinnersStay DEF UnlinkTicket
<1>7. CastInv'
  BY <1>1 DEF UnlinkTicket, CastInv, Others, Moves, Ends
<1>8. WriteInv'
  BY <1>2, WritesStay DEF UnlinkTicket
<1>9. UpkeepInv'
  BY <1>1 DEF UnlinkTicket, Opening, Ready, UpkeepInv, Live, Others, Moves, Ends
<1>. QED  BY <1>3, <1>4, <1>5, <1>6, <1>7, <1>8, <1>9 DEF RunInv

LEMMA SyncUnlinkKeeps ==
    ASSUME RunInv, NEW p \in Starts, SyncUnlink(p)
    PROVE  RunInv'
<1>. /\ RunTypeOK /\ TicketInv /\ StageInv /\ WinnerInv /\ CastInv /\ WriteInv
     /\ UpkeepInv /\ procs \in [Starts -> Processes]
     /\ \A c \in casting : c.by \in Starts
     /\ \A w \in pending \cup landed : w.by \in Starts
  BY DEF RunInv, RunTypeOK
<1>1. procs[p].stage = "UNLINKED" /\ Moves(p, "CONSUMED")
  BY GoesOn DEF SyncUnlink, At, Stages, Opening, Ready
<1>2. NobodyWins
  BY <1>1 DEF NobodyWins, Won, StageInv, Others, Moves, Ends, Stages, Opening, Ready
<1>3. RunTypeOK'
  BY <1>1 DEF SyncUnlink, RunTypeOK, Others, Moves
<1>4. TicketInv'
  BY <1>1 DEF SyncUnlink, TicketInv, Spending, Others, Moves
<1>5. StageInv'
  BY <1>1 DEF Opening, StageInv, Others, Moves
<1>6. WinnerInv'
  BY <1>2, WinnersStay DEF SyncUnlink
<1>7. CastInv'
  BY <1>1 DEF SyncUnlink, CastInv, Others, Moves
<1>8. WriteInv'
  BY <1>2, WritesStay DEF SyncUnlink
<1>9. UpkeepInv'
  BY <1>1 DEF SyncUnlink, Opening, UpkeepInv, Live, Others, Moves
<1>. QED  BY <1>3, <1>4, <1>5, <1>6, <1>7, <1>8, <1>9 DEF RunInv

LEMMA SendClaimKeeps ==
    ASSUME RunInv, NEW p \in Starts, SendClaim(p)
    PROVE  RunInv'
<1>. /\ RunTypeOK /\ TicketInv /\ StageInv /\ WinnerInv /\ CastInv /\ WriteInv
     /\ UpkeepInv /\ procs \in [Starts -> Processes]
     /\ \A c \in casting : c.by \in Starts
     /\ \A w \in pending \cup landed : w.by \in Starts
  BY DEF RunInv, RunTypeOK
<1>1. procs[p].stage = "CONSUMED" /\ (Moves(p, "CLAIMING") \/ Ends(p))
  BY GoesOn, GoesOff DEF SendClaim, At, Stages, Opening, Ready
<1>2. NobodyWins
  BY <1>1 DEF NobodyWins, Won, Others, Moves, Ends
<1>3. RunTypeOK'
  <2>1. procs[p].epoch \in Nat /\ procs[p].run \in Nat \ {0}
    BY <1>1 DEF Processes, StageInv, Opening
  <2>2. casting' \in SUBSET [by : Starts, epoch : Nat, run : Nat \ {0}]
    BY <2>1 DEF SendClaim, RunTypeOK
  <2>. QED  BY <1>1, <2>2 DEF SendClaim, RunTypeOK, Others, Moves, Ends
<1>4. TicketInv'
  BY <1>1 DEF SendClaim, TicketInv, Spending, Others, Moves, Ends
<1>5. StageInv'
  BY <1>1 DEF Opening, StageInv, Others, Moves, Ends
<1>6. WinnerInv'
  BY <1>2, WinnersStay DEF SendClaim
<1>7. CastInv'
  BY <1>1 DEF SendClaim, CastInv, Others, Moves, Ends
<1>8. WriteInv'
  BY <1>2, WritesStay DEF SendClaim
<1>9. UpkeepInv'
  BY <1>1 DEF SendClaim, Opening, Ready, MongoUp, UpkeepInv, Live, Others, Moves, Ends
<1>. QED  BY <1>3, <1>4, <1>5, <1>6, <1>7, <1>8, <1>9 DEF RunInv

LEMMA ComposeKeeps ==
    ASSUME RunInv, NEW p \in Starts, Compose(p)
    PROVE  RunInv'
<1>. /\ RunTypeOK /\ TicketInv /\ StageInv /\ WinnerInv /\ CastInv /\ WriteInv
     /\ UpkeepInv /\ procs \in [Starts -> Processes]
     /\ \A c \in casting : c.by \in Starts
     /\ \A w \in pending \cup landed : w.by \in Starts
  BY DEF RunInv, RunTypeOK
<1>1. procs[p].stage = "CLAIMED" /\ (Moves(p, "COMPOSED") \/ Moves(p, "REFUSING"))
  BY GoesOn DEF Compose, At, Stages, Opening, Ready
<1>2. NobodyWins
  BY <1>1 DEF NobodyWins, Won, StageInv, Others, Moves, Ends, Stages, Opening, Ready
<1>3. RunTypeOK'
  BY <1>1 DEF Compose, RunTypeOK, Others, Moves
<1>4. TicketInv'
  BY <1>1 DEF Compose, TicketInv, Spending, Others, Moves
<1>5. StageInv'
  BY <1>1 DEF Opening, StageInv, Others, Moves
<1>6. WinnerInv'
  BY <1>2, WinnersStay DEF Compose
<1>7. CastInv'
  BY <1>1, RunLifecycleAssumption DEF Compose, Stages, Opening, Ready, CastInv, Others, Moves,
     Ends
<1>8. WriteInv'
  BY <1>2, WritesStay DEF Compose
<1>9. UpkeepInv'
  BY <1>1 DEF Compose, Opening, UpkeepInv, Live, Others, Moves
<1>. QED  BY <1>3, <1>4, <1>5, <1>6, <1>7, <1>8, <1>9 DEF RunInv

LEMMA AuthorizeReadyKeeps ==
    ASSUME RunInv, NEW p \in Starts, AuthorizeReady(p)
    PROVE  RunInv'
<1>. /\ RunTypeOK /\ TicketInv /\ StageInv /\ WinnerInv /\ CastInv /\ WriteInv
     /\ UpkeepInv /\ procs \in [Starts -> Processes]
     /\ \A c \in casting : c.by \in Starts
     /\ \A w \in pending \cup landed : w.by \in Starts
  BY DEF RunInv, RunTypeOK
<1>1. procs[p].stage = "COMPOSED" /\ Others(p)
      /\ procs'[p].stage = (IF procs[p].vetoed THEN "REFUSING" ELSE "SERVING")
      /\ procs'[p].opened = ~procs[p].vetoed
      /\ procs'[p].home = procs[p].home /\ procs'[p].run = procs[p].run
      /\ procs'[p].epoch = procs[p].epoch
  <2>. DEFINE stage == IF procs[p].vetoed THEN "REFUSING" ELSE "SERVING"
  <2>1. procs[p] \in Processes /\ stage \in Stages /\ (~procs[p].vetoed) \in BOOLEAN
    <3>1. stage \in Stages
      BY DEF Stages, Ready
    <3>. QED  BY <3>1
  <2>2. /\ procs[p].stage = "COMPOSED"
        /\ procs' = [procs EXCEPT ![p].stage = stage, ![p].opened = ~procs[p].vetoed]
    BY DEF AuthorizeReady, At
  <2>. HIDE DEF stage
  <2>3. /\ procs'[p] = [procs[p] EXCEPT !.stage = stage, !.opened = ~procs[p].vetoed]
        /\ procs'[p] \in Processes
    BY <2>1, <2>2 DEF Processes
  <2>4. Others(p)
    BY <2>2, <2>3 DEF Others
  <2>. QED  BY <2>1, <2>2, <2>3, <2>4 DEF Processes, stage
<1>2. RunTypeOK'
  BY <1>1 DEF AuthorizeReady, RunTypeOK, Others
<1>3. TicketInv'
  BY DEF AuthorizeReady, TicketInv, Spending
<1>4. StageInv'
  <2>1. \A q \in Starts : q # p => procs'[q] = procs[q]
    BY <1>1 DEF Others
  <2>2. procs[p].run > 0
    BY <1>1 DEF StageInv, Opening
  <2>. QED  BY <1>1, <2>1, <2>2 DEF StageInv, Opening
<1>5. WinnerInv'
  BY <1>1 DEF AuthorizeReady, WinnerInv, Won
<1>6. CastInv'
  BY <1>1 DEF AuthorizeReady, CastInv
<1>7. WriteInv'
  <2>1. ~procs[p].opened
    BY <1>1 DEF StageInv
  <2>2. \A w \in pending \cup landed : w.by # p
    BY <2>1 DEF WriteInv
  <2>. QED  BY <1>1, <2>2 DEF AuthorizeReady, WriteInv, Others
<1>8. UpkeepInv'
  BY <1>1 DEF AuthorizeReady, Opening, UpkeepInv, Live
<1>. QED  BY <1>2, <1>3, <1>4, <1>5, <1>6, <1>7, <1>8 DEF RunInv

LEMMA CompositionFailsKeeps ==
    ASSUME RunInv, NEW p \in Starts, CompositionFails(p)
    PROVE  RunInv'
<1>. /\ RunTypeOK /\ TicketInv /\ StageInv /\ WinnerInv /\ CastInv /\ WriteInv
     /\ UpkeepInv /\ procs \in [Starts -> Processes]
     /\ \A c \in casting : c.by \in Starts
     /\ \A w \in pending \cup landed : w.by \in Starts
  BY DEF RunInv, RunTypeOK
<1>1. Moves(p, "REFUSING")
  BY GoesOn DEF CompositionFails, Stages, Opening, Ready
<1>2. NobodyWins
  BY <1>1 DEF NobodyWins, Won, StageInv, Others, Moves, Ends, Stages, Opening, Ready
<1>3. RunTypeOK'
  BY <1>1 DEF CompositionFails, RunTypeOK, Others, Moves
<1>4. TicketInv'
  BY <1>1 DEF CompositionFails, TicketInv, Spending, Others, Moves
<1>5. StageInv'
  BY <1>1 DEF CompositionFails, Opening, StageInv, Others, Moves
<1>6. WinnerInv'
  BY <1>2, WinnersStay DEF CompositionFails
<1>7. CastInv'
  BY <1>1 DEF CompositionFails, CastInv, Others, Moves
<1>8. WriteInv'
  BY <1>2, WritesStay DEF CompositionFails
<1>9. UpkeepInv'
  BY <1>1 DEF CompositionFails, Opening, UpkeepInv, Live, Others, Moves
<1>. QED  BY <1>3, <1>4, <1>5, <1>6, <1>7, <1>8, <1>9 DEF RunInv

LEMMA BeginWriteKeeps ==
    ASSUME RunInv, NEW p \in Starts, BeginWrite(p)
    PROVE  RunInv'
<1>. /\ RunTypeOK /\ TicketInv /\ StageInv /\ WinnerInv /\ CastInv /\ WriteInv
     /\ UpkeepInv /\ procs \in [Starts -> Processes]
     /\ \A c \in casting : c.by \in Starts
     /\ \A w \in pending \cup landed : w.by \in Starts
  BY DEF RunInv, RunTypeOK
<1>1. RunTypeOK'
  BY RunLifecycleAssumption, SMTT(30)
  DEF BeginWrite, At, MongoUp, Processes, RunTypeOK, Directories
<1>2. TicketInv'
  BY DEF BeginWrite, TicketInv, Spending
<1>3. StageInv'
  BY DEF BeginWrite, StageInv
<1>4. WinnerInv'
  BY DEF BeginWrite, WinnerInv, Won
<1>5. CastInv'
  BY DEF BeginWrite, CastInv
<1>6. WriteInv'
  <2>1. procs[p].opened /\ procs[p].epoch = metadata.epoch
    BY DEF BeginWrite, At, StageInv
  <2>. QED  BY <2>1 DEF BeginWrite, WriteInv
<1>7. UpkeepInv'
  <2>1. Live(p) /\ upkeep.phase # "MONGO_STOPPED"
    BY DEF BeginWrite, At, MongoUp, Live, Ready
  <2>2. upkeep.phase # "VERIFIED"
    BY <2>1 DEF UpkeepInv
  <2>. QED  BY <2>1, <2>2 DEF BeginWrite, UpkeepInv, Live
<1>. QED  BY <1>1, <1>2, <1>3, <1>4, <1>5, <1>6, <1>7 DEF RunInv

LEMMA ServerClaimsKeeps ==
    ASSUME RunInv, NEW c \in casting, ServerClaims(c)
    PROVE  RunInv'
<1>. /\ RunTypeOK /\ TicketInv /\ StageInv /\ WinnerInv /\ CastInv /\ WriteInv
     /\ UpkeepInv /\ procs \in [Starts -> Processes]
     /\ \A d \in casting : d.by \in Starts
     /\ \A w \in pending \cup landed : w.by \in Starts
  BY DEF RunInv, RunTypeOK
<1>1. \/ procs[c.by].stage = "CLAIMING" /\ Moves(c.by, "CLAIMED") /\ ClaimMatches(c)
      \/ procs[c.by].stage = "CLAIMING" /\ Ends(c.by) /\ ~ClaimMatches(c)
      \/ procs[c.by].stage # "CLAIMING" /\ UNCHANGED procs
  BY GoesOn, GoesOff DEF ServerClaims, RunTypeOK, At, Stages, Opening, Ready
<1>2. RunTypeOK'
  BY <1>1 DEF ServerClaims, RunTypeOK, Others, Moves, Ends
<1>3. TicketInv'
  BY <1>1 DEF ServerClaims, TicketInv, Spending, Others, Moves, Ends
<1>4. StageInv'
  BY <1>1 DEF Opening, StageInv, Others, Moves, Ends
<1>5. WinnerInv'
  <2>1. c.run \in Nat \ {0} /\ c.epoch \in Nat /\ metadata \in [epoch : Nat, claim : Nat]
    BY DEF RunTypeOK
  <2>2. metadata'.epoch = metadata.epoch
    BY <2>1 DEF ServerClaims
  <2>3. \A q \in Starts : Won(q) => procs[q].run \in Nat /\ procs[q].epoch \in Nat
    BY DEF Processes
  <2>4. CASE ~ClaimMatches(c)
    <3>1. NobodyWins /\ UNCHANGED metadata
      BY <1>1, <2>4 DEF ServerClaims, NobodyWins, Moves, Ends, Others, Won, StageInv
    <3>. QED  BY <3>1, WinnersStay
  <2>5. CASE ClaimMatches(c)
    <3>1. \A q \in Starts : Won(q) => procs[q].epoch # metadata.epoch
      BY <2>3, <2>5 DEF ClaimMatches, WinnerInv
    <3>2. metadata'.claim = c.run
      BY <2>1, <2>5 DEF ServerClaims
    <3>3. CASE procs[c.by].stage = "CLAIMING" /\ Moves(c.by, "CLAIMED")
      <4>1. /\ Won(c.by)' /\ procs'[c.by].epoch = c.epoch /\ procs'[c.by].run = c.run
            /\ c.epoch = metadata.epoch
        BY <2>5, <3>3 DEF CastInv, Moves, Won, ClaimMatches
      <4>2. \A q \in Starts : q # c.by => procs'[q] = procs[q] /\ (Won(q)' <=> Won(q))
        BY <3>3 DEF Moves, Others, Won
      <4>. QED  BY <2>1, <2>2, <2>3, <3>1, <3>2, <4>1, <4>2 DEF WinnerInv
    <3>4. CASE procs[c.by].stage # "CLAIMING" /\ UNCHANGED procs
      BY <2>1, <2>2, <2>3, <3>1, <3>2, <3>4 DEF WinnerInv, Won
    <3>. QED  BY <1>1, <2>5, <3>3, <3>4
  <2>. QED  BY <2>4, <2>5
<1>6. CastInv'
  <2>1. ASSUME NEW d \in casting', d.by = c.by, procs[c.by].stage = "CLAIMING"
        PROVE  FALSE
    BY <2>1 DEF ServerClaims, CastInv, RunTypeOK
  <2>. QED  BY <1>1, <2>1 DEF ServerClaims, CastInv, Moves, Ends, Others
<1>7. WriteInv'
  BY <1>1 DEF ServerClaims, WriteInv, Others, Moves, Ends
<1>8. UpkeepInv'
  BY <1>1 DEF ServerClaims, Opening, Ready, UpkeepInv, Live, Others, Moves, Ends
<1>. QED  BY <1>2, <1>3, <1>4, <1>5, <1>6, <1>7, <1>8 DEF RunInv

LEMMA ServerAppliesKeeps ==
    ASSUME RunInv, NEW w \in pending, ServerApplies(w)
    PROVE  RunInv'
<1>. /\ RunTypeOK /\ TicketInv /\ StageInv /\ WinnerInv /\ CastInv /\ WriteInv
     /\ UpkeepInv /\ procs \in [Starts -> Processes]
     /\ \A c \in casting : c.by \in Starts
     /\ \A v \in pending \cup landed : v.by \in Starts
  BY DEF RunInv, RunTypeOK
<1>1. RunTypeOK'
  BY RunLifecycleAssumption DEF ServerApplies, RunTypeOK, Directories
<1>2. TicketInv'
  BY DEF ServerApplies, TicketInv, Spending
<1>3. StageInv'
  BY DEF ServerApplies, StageInv
<1>4. WinnerInv'
  BY DEF ServerApplies, WinnerInv, Won
<1>5. CastInv'
  BY DEF ServerApplies, CastInv
<1>6. WriteInv'
  BY RunLifecycleAssumption DEF ServerApplies, WriteInv
<1>7. UpkeepInv'
  BY RunLifecycleAssumption DEF ServerApplies, UpkeepInv, Live
<1>. QED  BY <1>1, <1>2, <1>3, <1>4, <1>5, <1>6, <1>7 DEF RunInv

LEMMA AcquireMarkerKeeps ==
    ASSUME RunInv, AcquireMarker
    PROVE  RunInv'
<1>. /\ RunTypeOK /\ TicketInv /\ StageInv /\ WinnerInv /\ CastInv /\ WriteInv
     /\ UpkeepInv /\ procs \in [Starts -> Processes]
     /\ \A c \in casting : c.by \in Starts
     /\ \A w \in pending \cup landed : w.by \in Starts
  BY DEF RunInv, RunTypeOK
<1>1. RunTypeOK'
  BY RunLifecycleAssumption DEF AcquireMarker, RunTypeOK, Directories
<1>2. TicketInv'
  BY DEF AcquireMarker, TicketInv, Spending
<1>3. StageInv'
  BY DEF AcquireMarker, StageInv
<1>4. WinnerInv'
  BY DEF AcquireMarker, WinnerInv, Won
<1>5. CastInv'
  BY DEF AcquireMarker, CastInv
<1>6. WriteInv'
  BY DEF AcquireMarker, WriteInv
<1>7. UpkeepInv'
  BY RunLifecycleAssumption DEF AcquireMarker, UpkeepInv, Live
<1>. QED  BY <1>1, <1>2, <1>3, <1>4, <1>5, <1>6, <1>7 DEF RunInv

LEMMA DrainPrivateRuntimeKeeps ==
    ASSUME RunInv, DrainPrivateRuntime
    PROVE  RunInv'
<1>. /\ RunTypeOK /\ TicketInv /\ StageInv /\ WinnerInv /\ CastInv /\ WriteInv
     /\ UpkeepInv /\ procs \in [Starts -> Processes]
     /\ \A c \in casting : c.by \in Starts
     /\ \A w \in pending \cup landed : w.by \in Starts
  BY DEF RunInv, RunTypeOK
<1>1. /\ procs' \in [Starts -> Processes]
      /\ \A p \in Starts :
            /\ procs'[p].stage = procs[p].stage /\ procs'[p].home = procs[p].home
            /\ procs'[p].run = procs[p].run /\ procs'[p].epoch = procs[p].epoch
            /\ procs'[p].ticket = procs[p].ticket /\ procs'[p].opened = procs[p].opened
  <2>1. CASE UNCHANGED procs
    BY <2>1
  <2>2. ASSUME NEW p \in Starts, procs' = [procs EXCEPT ![p].vetoed = TRUE]
        PROVE  /\ procs' \in [Starts -> Processes]
               /\ \A q \in Starts : q # p => procs'[q] = procs[q]
               /\ procs'[p] = [procs[p] EXCEPT !.vetoed = TRUE] /\ procs[p] \in Processes
    <3>1. procs[p] \in Processes
      OBVIOUS
    <3>2. procs'[p] = [procs[p] EXCEPT !.vetoed = TRUE] /\ procs'[p] \in Processes
      BY <2>2, <3>1 DEF Processes
    <3>. QED  BY <2>2, <3>1, <3>2
  <2>. QED  BY <2>1, <2>2 DEF DrainPrivateRuntime, Running, Processes
<1>2. NobodyWins
  BY <1>1 DEF NobodyWins, Won, StageInv, Others, Moves, Ends
<1>3. RunTypeOK'
  BY <1>1 DEF DrainPrivateRuntime, RunTypeOK
<1>4. TicketInv'
  BY <1>1, RunLifecycleAssumption DEF DrainPrivateRuntime, TicketInv, Spending, Others, Moves,
     Ends
<1>5. StageInv'
  BY <1>1, RunLifecycleAssumption DEF DrainPrivateRuntime, StageInv, Others, Moves, Ends
<1>6. WinnerInv'
  BY <1>2, WinnersStay DEF DrainPrivateRuntime
<1>7. CastInv'
  BY <1>1, RunLifecycleAssumption DEF DrainPrivateRuntime, CastInv, Others, Moves, Ends
<1>8. WriteInv'
  BY <1>2, WritesStay DEF DrainPrivateRuntime
<1>9. UpkeepInv'
  BY <1>1, RunLifecycleAssumption DEF DrainPrivateRuntime, UpkeepInv, Live, Others, Moves, Ends
<1>. QED  BY <1>3, <1>4, <1>5, <1>6, <1>7, <1>8, <1>9 DEF RunInv

LEMMA RequestApiStopKeeps ==
    ASSUME RunInv, RequestApiStop
    PROVE  RunInv'
<1>. /\ RunTypeOK /\ TicketInv /\ StageInv /\ WinnerInv /\ CastInv /\ WriteInv
     /\ UpkeepInv /\ procs \in [Starts -> Processes]
     /\ \A c \in casting : c.by \in Starts
     /\ \A w \in pending \cup landed : w.by \in Starts
  BY DEF RunInv, RunTypeOK
<1>1. PICK p \in Starts :
         /\ upkeep'.phase = "API_WAITING" /\ upkeep'.captured = p
         /\ Ends(p) \/ (procs[p].stage \in Ready /\ Moves(p, "CLOSING"))
  BY GoesOn, GoesOff DEF RequestApiStop, Running, Stages, Opening, Ready
<1>2. NobodyWins
  BY <1>1 DEF NobodyWins, Won, StageInv, Others, Moves, Ends, Stages, Opening, Ready
<1>3. RunTypeOK'
  BY <1>1 DEF RequestApiStop, RunTypeOK, Others, Moves, Ends
<1>4. TicketInv'
  BY <1>1 DEF RequestApiStop, TicketInv, Spending, Others, Moves, Ends
<1>5. StageInv'
  BY <1>1 DEF Opening, StageInv, Others, Moves, Ends
<1>6. WinnerInv'
  BY <1>2, WinnersStay DEF RequestApiStop
<1>7. CastInv'
  BY <1>1 DEF RequestApiStop, Ready, CastInv, Others, Moves, Ends
<1>8. WriteInv'
  BY <1>2, WritesStay DEF RequestApiStop
<1>9. UpkeepInv'
  BY <1>1 DEF UpkeepInv
<1>. QED  BY <1>3, <1>4, <1>5, <1>6, <1>7, <1>8, <1>9 DEF RunInv

LEMMA AwaitApiProcessGoneKeeps ==
    ASSUME RunInv, AwaitApiProcessGone
    PROVE  RunInv'
<1>. /\ RunTypeOK /\ TicketInv /\ StageInv /\ WinnerInv /\ CastInv /\ WriteInv
     /\ UpkeepInv /\ procs \in [Starts -> Processes]
     /\ \A c \in casting : c.by \in Starts
     /\ \A w \in pending \cup landed : w.by \in Starts
  BY DEF RunInv, RunTypeOK
<1>1. RunTypeOK'
  BY RunLifecycleAssumption DEF AwaitApiProcessGone, ApiGone, Running, RunTypeOK, Directories
<1>2. TicketInv'
  BY DEF AwaitApiProcessGone, TicketInv, Spending
<1>3. StageInv'
  BY DEF AwaitApiProcessGone, StageInv
<1>4. WinnerInv'
  BY DEF AwaitApiProcessGone, WinnerInv, Won
<1>5. CastInv'
  BY DEF AwaitApiProcessGone, CastInv
<1>6. WriteInv'
  BY DEF AwaitApiProcessGone, WriteInv
<1>7. UpkeepInv'
  BY RunLifecycleAssumption DEF AwaitApiProcessGone, ApiGone, Running, UpkeepInv, Live
<1>. QED  BY <1>1, <1>2, <1>3, <1>4, <1>5, <1>6, <1>7 DEF RunInv

LEMMA StopMongoKeeps ==
    ASSUME RunInv, StopMongo
    PROVE  RunInv'
<1>. /\ RunTypeOK /\ TicketInv /\ StageInv /\ WinnerInv /\ CastInv /\ WriteInv
     /\ UpkeepInv /\ procs \in [Starts -> Processes]
     /\ \A c \in casting : c.by \in Starts
     /\ \A w \in pending \cup landed : w.by \in Starts
  BY DEF RunInv, RunTypeOK
<1>1. RunTypeOK'
  BY RunLifecycleAssumption DEF StopMongo, RunTypeOK, Directories
<1>2. TicketInv'
  BY DEF StopMongo, TicketInv, Spending
<1>3. StageInv'
  BY DEF StopMongo, StageInv
<1>4. WinnerInv'
  BY DEF StopMongo, WinnerInv, Won
<1>5. CastInv'
  BY RunLifecycleAssumption DEF StopMongo, CastInv
<1>6. WriteInv'
  BY RunLifecycleAssumption DEF StopMongo, WriteInv
<1>7. UpkeepInv'
  BY RunLifecycleAssumption DEF StopMongo, UpkeepInv, Live
<1>. QED  BY <1>1, <1>2, <1>3, <1>4, <1>5, <1>6, <1>7 DEF RunInv

LEMMA VerifyNoLateWorkKeeps ==
    ASSUME RunInv, VerifyNoLateWork
    PROVE  RunInv'
<1>. /\ RunTypeOK /\ TicketInv /\ StageInv /\ WinnerInv /\ CastInv /\ WriteInv
     /\ UpkeepInv /\ procs \in [Starts -> Processes]
     /\ \A c \in casting : c.by \in Starts
     /\ \A w \in pending \cup landed : w.by \in Starts
  BY DEF RunInv, RunTypeOK
<1>1. RunTypeOK'
  BY RunLifecycleAssumption DEF VerifyNoLateWork, Running, Processes, RunTypeOK, Directories
<1>2. TicketInv'
  BY DEF VerifyNoLateWork, TicketInv, Spending
<1>3. StageInv'
  BY DEF VerifyNoLateWork, StageInv
<1>4. WinnerInv'
  BY DEF VerifyNoLateWork, WinnerInv, Won
<1>5. CastInv'
  BY DEF VerifyNoLateWork, CastInv
<1>6. WriteInv'
  BY DEF VerifyNoLateWork, WriteInv
<1>7. UpkeepInv'
  BY RunLifecycleAssumption DEF VerifyNoLateWork, Running, Processes, UpkeepInv, Live
<1>. QED  BY <1>1, <1>2, <1>3, <1>4, <1>5, <1>6, <1>7 DEF RunInv

LEMMA MaintenanceFailsKeeps ==
    ASSUME RunInv, MaintenanceFails
    PROVE  RunInv'
<1>. /\ RunTypeOK /\ TicketInv /\ StageInv /\ WinnerInv /\ CastInv /\ WriteInv
     /\ UpkeepInv /\ procs \in [Starts -> Processes]
     /\ \A c \in casting : c.by \in Starts
     /\ \A w \in pending \cup landed : w.by \in Starts
  BY DEF RunInv, RunTypeOK
<1>1. RunTypeOK'
  BY RunLifecycleAssumption DEF MaintenanceFails, RunTypeOK, Directories
<1>2. TicketInv'
  BY DEF MaintenanceFails, TicketInv, Spending
<1>3. StageInv'
  BY DEF MaintenanceFails, StageInv
<1>4. WinnerInv'
  BY DEF MaintenanceFails, WinnerInv, Won
<1>5. CastInv'
  BY DEF MaintenanceFails, CastInv
<1>6. WriteInv'
  BY DEF MaintenanceFails, WriteInv
<1>7. UpkeepInv'
  BY RunLifecycleAssumption DEF MaintenanceFails, UpkeepInv, Live
<1>. QED  BY <1>1, <1>2, <1>3, <1>4, <1>5, <1>6, <1>7 DEF RunInv

LEMMA ResetAndSeedKeeps ==
    ASSUME RunInv, ResetAndSeed
    PROVE  RunInv'
<1>. /\ RunTypeOK /\ TicketInv /\ StageInv /\ WinnerInv /\ CastInv /\ WriteInv
     /\ UpkeepInv /\ procs \in [Starts -> Processes]
     /\ \A c \in casting : c.by \in Starts
     /\ \A w \in pending \cup landed : w.by \in Starts
  BY DEF RunInv, RunTypeOK
<1>1. RunTypeOK'
  BY RunLifecycleAssumption DEF ResetAndSeed, RunTypeOK, Directories
<1>2. TicketInv'
  BY DEF ResetAndSeed, TicketInv, Spending
<1>3. StageInv'
  BY DEF ResetAndSeed, StageInv
<1>4. WinnerInv'
  <2>1. metadata.epoch \in Nat /\ metadata'.epoch = metadata.epoch + 1
        /\ \A q \in Starts : procs[q].epoch \in Nat
    BY DEF ResetAndSeed, RunTypeOK, Processes
  <2>2. UNCHANGED procs
    BY DEF ResetAndSeed
  <2>. QED  BY <2>1, <2>2 DEF WinnerInv, Won
<1>5. CastInv'
  BY DEF ResetAndSeed, CastInv
<1>6. WriteInv'
  <2>1. pending = {} /\ UNCHANGED <<pending, landed, procs>>
    BY DEF ResetAndSeed, UpkeepInv
  <2>. QED  BY <2>1 DEF WriteInv
<1>7. UpkeepInv'
  BY DEF ResetAndSeed, UpkeepInv, Live
<1>. QED  BY <1>1, <1>2, <1>3, <1>4, <1>5, <1>6, <1>7 DEF RunInv

LEMMA RunStarts == RunInit => RunInv
<1>. SUFFICES ASSUME RunInit PROVE RunInv
  OBVIOUS
<1>. USE RunLifecycleAssumption
<1>1. NoTicket \in Tickets /\ NoProcess \in Processes
  BY DEF Tickets, Processes, NoProcess, Stages
<1>2. RunTypeOK
  BY <1>1 DEF RunInit, RunTypeOK, Directories
<1>3. \A p \in Starts : procs[p].stage = "NONE" /\ ~procs[p].opened
  BY DEF RunInit, NoProcess
<1>4. TicketInv /\ StageInv /\ WinnerInv /\ CastInv /\ WriteInv /\ UpkeepInv
  BY <1>3 DEF RunInit, TicketInv, Spending, StageInv, WinnerInv, Won, CastInv, WriteInv,
     UpkeepInv, Opening
<1>. QED  BY <1>2, <1>4 DEF RunInv

LEMMA RunKeeps == RunInv /\ [RunNext]_runVars => RunInv'
<1>. SUFFICES ASSUME RunInv, [RunNext]_runVars PROVE RunInv'
  OBVIOUS
<1>1. ASSUME NEW p \in Starts, ProcessStep(p)
      PROVE  RunInv'
  BY <1>1, ExitKeeps, VerifyDatasetKeeps, ReadTicketKeeps, CreateMarkerKeeps, SyncMarkerKeeps,
     UnlinkTicketKeeps, SyncUnlinkKeeps, SendClaimKeeps, ComposeKeeps, AuthorizeReadyKeeps,
     CompositionFailsKeeps, BeginWriteKeeps DEF ProcessStep
<1>2. CASE RunNext
  BY <1>1, <1>2, StartKeeps, ProvisionRunKeeps, IssueTicketKeeps, PublishEpochKeeps,
     HostCrashKeeps, ServerClaimsKeeps, ServerAppliesKeeps, AcquireMarkerKeeps,
     DrainPrivateRuntimeKeeps, RequestApiStopKeeps, AwaitApiProcessGoneKeeps, StopMongoKeeps,
     VerifyNoLateWorkKeeps, MaintenanceFailsKeeps, ResetAndSeedKeeps DEF RunNext
<1>3. CASE UNCHANGED runVars
  BY <1>3 DEF runVars, RunInv, RunTypeOK, TicketInv, Spending, StageInv, WinnerInv, Won,
     CastInv, WriteInv, UpkeepInv, Live
<1>. QED  BY <1>2, <1>3

LEMMA RunInvIsEnough == RunInv => EpochsHaveOneWriter
<1>. SUFFICES ASSUME RunInv PROVE EpochsHaveOneWriter
  OBVIOUS
<1>1. ASSUME NEW p \in Starts, procs[p].opened, NEW w \in landed, w.epoch = procs[p].epoch
      PROVE  w.by = p
  <2>1. w.by \in Starts /\ procs[w.by].opened /\ procs[w.by].epoch = procs[p].epoch
    BY <1>1 DEF RunInv, RunTypeOK, WriteInv
  <2>. QED  BY <1>1, <2>1 DEF RunInv, WinnerInv, Won
<1>2. OneProcessPerEpoch
  BY <1>1 DEF OneProcessPerEpoch, RunInv, WinnerInv, Won
<1>. QED  BY <1>2 DEF EpochsHaveOneWriter, RunsAreClaimedOnce, TicketsAreSpentOnce,
             WritesLandInTheirEpoch, RunInv, TicketInv, WriteInv, UpkeepInv

\* Every file, process and command of the life of the host is of its type.
THEOREM RunTypeCorrect == RunSpec => []RunTypeOK
<1>1. RunInv => RunTypeOK
  BY DEF RunInv
<1>. QED  BY <1>1, RunStarts, RunKeeps, PTL DEF RunSpec

\* A run is claimed by one process at most, a ticket is spent once, and what is
\* written in an epoch is written by the process that opened in it, however the
\* host, its processes and the server stop, lag and restart in between
\* (start-run.ts, epoch tickets and the claim of the deployment metadata).
THEOREM RunsAreExclusive == RunSpec => []EpochsHaveOneWriter
<1>. QED  BY RunStarts, RunKeeps, RunInvIsEnough, PTL DEF RunSpec

-----------------------------------------------------------------------------
(* The start and the shutdown of one process.  ProcessClosesInOrder speaks of  *)
(* the ends of a sequence of awaits; the invariant says at each of its steps   *)
(* what is open.  Held is about the resources, Timed about signals, deadline   *)
(* and exit code, and Connected about the requests.                            *)

Settled == {"CLOSED", "STUCK"}

NotOpen == {"NONE", "CLOSED", "STUCK"}

\* The runtime of the application: the owner's sink and its control socket.
RuntimeOpen == resource["sink"] = "OPEN" /\ resource["socket"] = "OPEN"

RuntimeNotOpen == resource["sink"] \in NotOpen /\ resource["socket"] \in NotOpen

\* What is open while the process starts.
HeldStarting ==
    /\ main = "CONNECTING" => resource["mongo"] = "NONE"
    /\ main \in {"CONNECTING", "CLAIMING", "COMPOSING"} =>
          resource["sink"] = "NONE" /\ resource["socket"] = "NONE" /\ owner = "NEW"
    /\ main = "SOCKET" =>
          resource["sink"] = "OPEN" /\ resource["socket"] = "NONE" /\ owner = "STARTING"
    /\ main = "HTTP" => RuntimeOpen /\ owner = "RUNNING"
    /\ main \in Starting \ {"LISTENING"} => ~app /\ gate # "OPEN"
    /\ main \in (Starting \ {"CONNECTING"}) \cup {"READY", "UNDOING"} =>
          resource["mongo"] = "OPEN"
    /\ main \in {"LISTENING", "READY"} =>
          IF app THEN RuntimeOpen /\ owner = "RUNNING"
                 ELSE RuntimeNotOpen /\ gate # "OPEN"

\* What is open while a sequence of closes is at each of its resources.
HeldClosing ==
    /\ main \in Closings =>
          /\ gate # "OPEN"
          /\ closing # "none"
          /\ closing = "http" => (IF app THEN RuntimeOpen ELSE RuntimeNotOpen)
          /\ closing = "socket" => RuntimeOpen
          /\ closing = "sink" => resource["sink"] = "OPEN" /\ resource["socket"] \in NotOpen
          /\ closing \in {"mongo", "done"} => RuntimeNotOpen
    /\ main \in {"CLEANING", "CLOSING"} =>
          /\ closing # "done" => resource["mongo"] = "OPEN"
          /\ closing = "done" => resource["mongo"] \in Settled
          /\ closing \in {"socket", "sink"} => app
    /\ main = "UNDOING" => closing # "mongo" /\ (closing = "http" => app)
    /\ main = "OVER" => gate # "OPEN" /\ RuntimeNotOpen /\ resource["mongo"] \in Settled
    /\ main \in Starting \cup {"READY"} => closing = "none"

\* A shutdown without a failure has closed what lies behind it.
Closed ==
    /\ main = "CLOSING" /\ ~failed =>
          /\ closing # "http" => resource["http"] = "CLOSED"
          /\ closing = "done" => resource["mongo"] = "CLOSED"
          /\ app /\ closing \in {"sink", "mongo", "done"} => resource["socket"] = "CLOSED"
          /\ app /\ closing \in {"mongo", "done"} => resource["sink"] = "CLOSED"
    /\ main = "OVER" /\ exitCode = 0 =>
          /\ resource["http"] = "CLOSED" /\ resource["mongo"] = "CLOSED"
          /\ app => resource["sink"] = "CLOSED" /\ resource["socket"] = "CLOSED"

\* Signals, deadline and exit code.
Timed ==
    /\ main \in Starting \cup {"READY", "UNDOING", "CLEANING"} =>
          heard = {} /\ exitCode = 0
    /\ main \in Starting \cup {"READY"} => ~failed
    /\ main = "CLOSING" => deadline = "ARMED" /\ exitCode = 0
    /\ main = "OVER" /\ heard # {} /\ exitCode = 1 => deadline = "ARMED"

\* Requests come when the server listens, and are handled by an application
\* that nobody closes but for its HTTP server.
Connected ==
    /\ main \in Starting \cup {"UNDOING", "CLEANING"} =>
          \A c \in Connections : conn[c] = "NONE"
    /\ Alive /\ resource["http"] = "OPEN" =>
          main = "READY" \/ (main = "CLOSING" /\ closing = "http")
    /\ Alive => \A c \in Connections :
          /\ conn[c] \in {"OPEN", "HANDLED"} => resource["http"] \in {"OPEN", "STUCK"}
          /\ conn[c] = "HANDLED" => app

ProductionInv ==
    ProductionTypeOK /\ HeldStarting /\ HeldClosing /\ Closed /\ Timed /\ Connected

\* A step of the start keeps the invariant.
LEMMA StartStep ==
    ASSUME ProductionInv,
           \/ ConnectMongo
           \/ ClaimRun
           \/ ComposeClaimed
           \/ CompositionThrows
           \/ OpenControlSocket
           \/ CompleteComposition
           \/ HttpFails
           \/ ListenHttp
           \/ ListenHttpFails
    PROVE  ProductionInv'
<1> USE DEF ProductionInv, ProductionTypeOK, Resources, Starting, Closings, Mains
<1>1. ASSUME ConnectMongo PROVE ProductionInv'
  <2>0. ProductionTypeOK'
    BY <1>1 DEF ConnectMongo, Closes
  <2>1. HeldStarting'
    BY <1>1 DEF ConnectMongo, Closes, HeldStarting
  <2>2. HeldClosing'
    BY <1>1 DEF ConnectMongo, Closes, HeldClosing, RuntimeNotOpen, NotOpen,
           HeldStarting
  <2>3. Closed'
    BY <1>1 DEF ConnectMongo, Closes, Closed
  <2>4. Timed'
    BY <1>1 DEF ConnectMongo, Closes, Timed
  <2>5. Connected'
    BY <1>1 DEF ConnectMongo, Connected, Alive
  <2> QED BY <2>0, <2>1, <2>2, <2>3, <2>4, <2>5
<1>2. ASSUME ClaimRun PROVE ProductionInv'
  <2>0. ProductionTypeOK'
    BY <1>2 DEF ClaimRun, Closes
  <2>1. HeldStarting'
    BY <1>2 DEF ClaimRun, Closes, HeldStarting, RuntimeNotOpen, NotOpen
  <2>2. HeldClosing'
    BY <1>2 DEF ClaimRun, Closes, HeldClosing, RuntimeNotOpen, NotOpen,
           HeldStarting
  <2>3. Closed'
    BY <1>2 DEF ClaimRun, Closes, Closed
  <2>4. Timed'
    BY <1>2 DEF ClaimRun, Closes, Timed
  <2>5. Connected'
    BY <1>2 DEF ClaimRun, Connected, Alive
  <2> QED BY <2>0, <2>1, <2>2, <2>3, <2>4, <2>5
<1>3. ASSUME ComposeClaimed PROVE ProductionInv'
  <2>0. ProductionTypeOK'
    BY <1>3 DEF ComposeClaimed
  <2>1. HeldStarting'
    BY <1>3 DEF ComposeClaimed, HeldStarting
  <2>2. HeldClosing'
    BY <1>3 DEF ComposeClaimed, HeldClosing
  <2>3. Closed'
    BY <1>3 DEF ComposeClaimed, Closed
  <2>4. Timed'
    BY <1>3 DEF ComposeClaimed, Timed
  <2>5. Connected'
    BY <1>3 DEF ComposeClaimed, Connected, Alive
  <2> QED BY <2>0, <2>1, <2>2, <2>3, <2>4, <2>5
<1>4. ASSUME CompositionThrows PROVE ProductionInv'
  <2>0. ProductionTypeOK'
    BY <1>4 DEF CompositionThrows
  <2>1. HeldStarting'
    BY <1>4 DEF CompositionThrows, HeldStarting, RuntimeNotOpen, NotOpen
  <2>2. HeldClosing'
    BY <1>4 DEF CompositionThrows, HeldClosing
  <2>3. Closed'
    BY <1>4 DEF CompositionThrows, Closed
  <2>4. Timed'
    BY <1>4 DEF CompositionThrows, Timed
  <2>5. Connected'
    BY <1>4 DEF CompositionThrows, Connected, Alive
  <2> QED BY <2>0, <2>1, <2>2, <2>3, <2>4, <2>5
<1>5. ASSUME OpenControlSocket PROVE ProductionInv'
  <2>0. ProductionTypeOK'
    BY <1>5 DEF OpenControlSocket, Closes
  <2>1. HeldStarting'
    BY <1>5 DEF OpenControlSocket, Closes, HeldStarting, RuntimeOpen
  <2>2. HeldClosing'
    BY <1>5 DEF OpenControlSocket, Closes, HeldClosing, NotOpen, HeldStarting
  <2>3. Closed'
    BY <1>5 DEF OpenControlSocket, Closes, Closed
  <2>4. Timed'
    BY <1>5 DEF OpenControlSocket, Closes, Timed
  <2>5. Connected'
    BY <1>5 DEF OpenControlSocket, Connected, Alive
  <2> QED BY <2>0, <2>1, <2>2, <2>3, <2>4, <2>5
<1>6. ASSUME CompleteComposition PROVE ProductionInv'
  <2>0. ProductionTypeOK'
    BY <1>6 DEF CompleteComposition, Closes
  <2>1. HeldStarting'
    BY <1>6 DEF CompleteComposition, Closes, HeldStarting, RuntimeOpen
  <2>2. HeldClosing'
    BY <1>6 DEF CompleteComposition, Closes, HeldClosing, RuntimeOpen,
           HeldStarting
  <2>3. Closed'
    BY <1>6 DEF CompleteComposition, Closes, Closed
  <2>4. Timed'
    BY <1>6 DEF CompleteComposition, Closes, Timed
  <2>5. Connected'
    BY <1>6 DEF CompleteComposition, Connected
  <2> QED BY <2>0, <2>1, <2>2, <2>3, <2>4, <2>5
<1>7. ASSUME HttpFails PROVE ProductionInv'
  <2>0. ProductionTypeOK'
    BY <1>7 DEF HttpFails, Closes
  <2>1. HeldStarting'
    BY <1>7 DEF HttpFails, Closes, HeldStarting
  <2>2. HeldClosing'
    BY <1>7 DEF HttpFails, Closes, HeldClosing, RuntimeOpen, HeldStarting
  <2>3. Closed'
    BY <1>7 DEF HttpFails, Closes, Closed
  <2>4. Timed'
    BY <1>7 DEF HttpFails, Closes, Timed
  <2>5. Connected'
    BY <1>7 DEF HttpFails, Connected, Alive
  <2> QED BY <2>0, <2>1, <2>2, <2>3, <2>4, <2>5
<1>8. ASSUME ListenHttp PROVE ProductionInv'
  <2>0. ProductionTypeOK'
    BY <1>8 DEF ListenHttp
  <2>1. HeldStarting'
    BY <1>8 DEF ListenHttp, HeldStarting, RuntimeOpen, RuntimeNotOpen
  <2>2. HeldClosing'
    BY <1>8 DEF ListenHttp, HeldClosing
  <2>3. Closed'
    BY <1>8 DEF ListenHttp, Closed
  <2>4. Timed'
    BY <1>8 DEF ListenHttp, Timed
  <2>5. Connected'
    BY <1>8 DEF ListenHttp, Connected
  <2> QED BY <2>0, <2>1, <2>2, <2>3, <2>4, <2>5
<1>9. ASSUME ListenHttpFails PROVE ProductionInv'
  <2>0. ProductionTypeOK'
    BY <1>9 DEF ListenHttpFails, Closes
  <2>1. HeldStarting'
    BY <1>9 DEF ListenHttpFails, Closes, HeldStarting
  <2>2. HeldClosing'
    BY <1>9 DEF ListenHttpFails, Closes, HeldClosing, RuntimeOpen,
           RuntimeNotOpen, HeldStarting
  <2>3. Closed'
    BY <1>9 DEF ListenHttpFails, Closes, Closed
  <2>4. Timed'
    BY <1>9 DEF ListenHttpFails, Closes, Timed
  <2>5. Connected'
    BY <1>9 DEF ListenHttpFails, Connected, Alive
  <2> QED BY <2>0, <2>1, <2>2, <2>3, <2>4, <2>5
<1> QED BY <1>1, <1>2, <1>3, <1>4, <1>5, <1>6, <1>7, <1>8, <1>9

\* A step of a sequence of closes, and of what follows it, keeps the invariant.
LEMMA CloseStep ==
    ASSUME ProductionInv,
           \/ CloseSettles
           \/ Undone
           \/ StartHasFailed
           \/ ShutdownIsOver
           \/ DeadlineExpires
           \/ LoopEnds
           \/ \E s \in Signals : Signal(s)
    PROVE  ProductionInv'
<1> USE DEF ProductionInv, ProductionTypeOK, Resources, Starting, Closings, Mains
<1>1. ASSUME CloseSettles PROVE ProductionInv'
  <2>6. AfterClose(closing) \in Resources \cup {"done"}
    BY <1>1 DEF CloseSettles, AfterClose
  <2>7. OwnerCloses(closing) \in {"NEW", "STARTING", "RUNNING", "FAILED", "CLOSING", "CLOSED"}
    BY <1>1 DEF CloseSettles, OwnerCloses
  <2>8. resource' \in [Resources -> {"NONE", "MADE", "OPEN", "CLOSED", "STUCK"}]
    BY <1>1 DEF CloseSettles
  <2>9. failed' \in BOOLEAN
    BY <1>1 DEF CloseSettles
  <2>0. ProductionTypeOK'
    BY <1>1, <2>6, <2>7, <2>8, <2>9 DEF CloseSettles
  <2>1. HeldStarting'
    BY <1>1 DEF CloseSettles, HeldStarting, HeldClosing
  <2>2. HeldClosing'
    <3>1. CASE closing = "http"
      <4>1. \A x \in {"mongo", "sink", "socket"} : resource'[x] = resource[x]
        BY <1>1, <3>1 DEF CloseSettles
      <4>2. closing' = (IF app THEN "socket" ELSE "mongo") /\ main' = main
            /\ gate' = gate /\ app' = app /\ main \in Closings
        BY <1>1, <3>1 DEF CloseSettles, AfterClose
      <4>3. resource["mongo"] = "OPEN" /\ IF app THEN RuntimeOpen ELSE RuntimeNotOpen
        BY <3>1, <4>2 DEF HeldStarting, HeldClosing
      <4>4. main = "UNDOING" => app
        BY <3>1 DEF HeldClosing
      <4> QED BY <4>1, <4>2, <4>3, <4>4 DEF HeldClosing, RuntimeOpen, RuntimeNotOpen
    <3>2. CASE closing = "socket"
      BY <1>1, <3>2 DEF CloseSettles, AfterClose, HeldStarting,
                       HeldClosing, RuntimeOpen, RuntimeNotOpen, NotOpen, Settled
    <3>3. CASE closing = "sink"
      BY <1>1, <3>3 DEF CloseSettles, AfterClose, HeldStarting,
                       HeldClosing, RuntimeOpen, RuntimeNotOpen, NotOpen, Settled
    <3>4. CASE closing = "mongo"
      BY <1>1, <3>4 DEF CloseSettles, AfterClose, HeldStarting,
                       HeldClosing, RuntimeOpen, RuntimeNotOpen, NotOpen, Settled
    <3> QED BY <1>1, <3>1, <3>2, <3>3, <3>4 DEF CloseSettles
  <2>3. Closed'
    BY <1>1 DEF CloseSettles, AfterClose, Closed
  <2>4. Timed'
    BY <1>1 DEF CloseSettles, Timed
  <2>5. Connected'
    BY <1>1 DEF CloseSettles, ConnectionsOpen, Connected, Alive
  <2> QED BY <2>0, <2>1, <2>2, <2>3, <2>4, <2>5
<1>2. ASSUME Undone PROVE ProductionInv'
  <2>0. ProductionTypeOK'
    BY <1>2 DEF Undone
  <2>1. HeldStarting'
    BY <1>2 DEF Undone, HeldStarting, RuntimeNotOpen, HeldClosing
  <2>2. HeldClosing'
    BY <1>2 DEF Undone, HeldClosing
  <2>3. Closed'
    BY <1>2 DEF Undone, Closed
  <2>4. Timed'
    BY <1>2 DEF Undone, Timed
  <2>5. Connected'
    BY <1>2 DEF Undone, Connected
  <2> QED BY <2>0, <2>1, <2>2, <2>3, <2>4, <2>5
<1>3. ASSUME StartHasFailed PROVE ProductionInv'
  <2>0. ProductionTypeOK'
    BY <1>3 DEF StartHasFailed
  <2>1. HeldStarting'
    BY <1>3 DEF StartHasFailed, HeldStarting
  <2>2. HeldClosing'
    BY <1>3 DEF StartHasFailed, HeldClosing, RuntimeNotOpen
  <2>3. Closed'
    BY <1>3 DEF StartHasFailed, Closed
  <2>4. Timed'
    BY <1>3 DEF StartHasFailed, Timed
  <2>5. Connected'
    BY <1>3 DEF StartHasFailed, Connected, Alive
  <2> QED BY <2>0, <2>1, <2>2, <2>3, <2>4, <2>5
<1>4. ASSUME ShutdownIsOver PROVE ProductionInv'
  <2>0. ProductionTypeOK'
    BY <1>4 DEF ShutdownIsOver
  <2>1. HeldStarting'
    BY <1>4 DEF ShutdownIsOver, HeldStarting
  <2>2. HeldClosing'
    BY <1>4 DEF ShutdownIsOver, HeldClosing, RuntimeNotOpen
  <2>3. Closed'
    BY <1>4 DEF ShutdownIsOver, Closed
  <2>4. Timed'
    BY <1>4 DEF ShutdownIsOver, Timed
  <2>5. Connected'
    BY <1>4 DEF ShutdownIsOver, Connected, Alive
  <2> QED BY <2>0, <2>1, <2>2, <2>3, <2>4, <2>5
<1>5. ASSUME DeadlineExpires PROVE ProductionInv'
  <2>0. ProductionTypeOK'
    BY <1>5 DEF DeadlineExpires
  <2>1. HeldStarting'
    BY <1>5 DEF DeadlineExpires, HeldStarting
  <2>2. HeldClosing'
    BY <1>5 DEF DeadlineExpires, HeldClosing
  <2>3. Closed'
    BY <1>5 DEF DeadlineExpires, Closed
  <2>4. Timed'
    BY <1>5 DEF DeadlineExpires, Timed
  <2>5. Connected'
    BY <1>5 DEF DeadlineExpires, Alive, Connected
  <2> QED BY <2>0, <2>1, <2>2, <2>3, <2>4, <2>5
<1>6. ASSUME LoopEnds PROVE ProductionInv'
  <2>0. ProductionTypeOK'
    BY <1>6 DEF LoopEnds
  <2>1. HeldStarting'
    BY <1>6 DEF LoopEnds, HeldStarting
  <2>2. HeldClosing'
    BY <1>6 DEF LoopEnds, HeldClosing
  <2>3. Closed'
    BY <1>6 DEF LoopEnds, Closed
  <2>4. Timed'
    BY <1>6 DEF LoopEnds, Timed
  <2>5. Connected'
    BY <1>6 DEF LoopEnds, Connected, Alive
  <2> QED BY <2>0, <2>1, <2>2, <2>3, <2>4, <2>5
<1>7. ASSUME NEW s \in Signals, Signal(s) PROVE ProductionInv'
  <2>6. heard' \in SUBSET Signals
    BY <1>7 DEF Signal
  <2>0. ProductionTypeOK'
    BY <1>7, <2>6 DEF Signal, Closes
  <2>1. HeldStarting'
    BY <1>7 DEF Signal, Closes, HeldStarting, RuntimeOpen, RuntimeNotOpen
  <2>2. HeldClosing'
    BY <1>7 DEF Signal, Closes, HeldClosing, RuntimeOpen, RuntimeNotOpen,
           HeldStarting
  <2>3. Closed'
    BY <1>7 DEF Signal, Closes, Closed
  <2>4. Timed'
    BY <1>7 DEF Signal, Closes, Timed
  <2>5. Connected'
    BY <1>7 DEF Signal, Closes, Alive, Connected
  <2> QED BY <2>0, <2>1, <2>2, <2>3, <2>4, <2>5
<1> QED BY <1>1, <1>2, <1>3, <1>4, <1>5, <1>6, <1>7

\* Requests and the drain keep the invariant.
LEMMA RequestStep ==
    ASSUME ProductionInv,
           \/ \E c \in Connections : AcceptConnection(c)
           \/ \E c \in Connections : RequestArrives(c)
           \/ \E c \in Connections : ConnectionEnds(c)
           \/ DrainArrives
    PROVE  ProductionInv'
<1> USE DEF ProductionInv, ProductionTypeOK, Resources, Starting, Closings, Mains
<1>1. ASSUME NEW c \in Connections, AcceptConnection(c) PROVE ProductionInv'
  <2>0. ProductionTypeOK'
    BY <1>1 DEF AcceptConnection
  <2>1. HeldStarting'
    BY <1>1 DEF AcceptConnection, HeldStarting, RuntimeOpen, RuntimeNotOpen
  <2>2. HeldClosing'
    BY <1>1 DEF AcceptConnection, HeldClosing, RuntimeOpen, RuntimeNotOpen
  <2>3. Closed'
    BY <1>1 DEF AcceptConnection, Closed
  <2>4. Timed'
    BY <1>1 DEF AcceptConnection, Timed
  <2>5. Connected'
    BY <1>1 DEF AcceptConnection, Accepts, Connected
  <2> QED BY <2>0, <2>1, <2>2, <2>3, <2>4, <2>5
<1>2. ASSUME NEW c \in Connections, RequestArrives(c) PROVE ProductionInv'
  <2>0. ProductionTypeOK'
    BY <1>2 DEF RequestArrives
  <2>1. HeldStarting'
    BY <1>2 DEF RequestArrives, HeldStarting, RuntimeOpen, RuntimeNotOpen
  <2>2. HeldClosing'
    BY <1>2 DEF RequestArrives, HeldClosing, RuntimeOpen, RuntimeNotOpen
  <2>3. Closed'
    BY <1>2 DEF RequestArrives, Closed
  <2>4. Timed'
    BY <1>2 DEF RequestArrives, Timed
  <2>5. Connected'
    BY <1>2 DEF RequestArrives, Connected
  <2> QED BY <2>0, <2>1, <2>2, <2>3, <2>4, <2>5
<1>3. ASSUME NEW c \in Connections, ConnectionEnds(c) PROVE ProductionInv'
  <2>0. ProductionTypeOK'
    BY <1>3 DEF ConnectionEnds
  <2>1. HeldStarting'
    BY <1>3 DEF ConnectionEnds, HeldStarting, RuntimeOpen, RuntimeNotOpen
  <2>2. HeldClosing'
    BY <1>3 DEF ConnectionEnds, HeldClosing, RuntimeOpen, RuntimeNotOpen
  <2>3. Closed'
    BY <1>3 DEF ConnectionEnds, Closed
  <2>4. Timed'
    BY <1>3 DEF ConnectionEnds, Timed
  <2>5. Connected'
    BY <1>3 DEF ConnectionEnds, Connected
  <2> QED BY <2>0, <2>1, <2>2, <2>3, <2>4, <2>5
<1>4. ASSUME DrainArrives PROVE ProductionInv'
  <2>0. ProductionTypeOK'
    BY <1>4 DEF DrainArrives
  <2>1. HeldStarting'
    BY <1>4 DEF DrainArrives, HeldStarting, RuntimeOpen, RuntimeNotOpen
  <2>2. HeldClosing'
    BY <1>4 DEF DrainArrives, HeldClosing, RuntimeOpen, RuntimeNotOpen
  <2>3. Closed'
    BY <1>4 DEF DrainArrives, Closed
  <2>4. Timed'
    BY <1>4 DEF DrainArrives, Timed
  <2>5. Connected'
    BY <1>4 DEF DrainArrives, Connected
  <2> QED BY <2>0, <2>1, <2>2, <2>3, <2>4, <2>5
<1> QED BY <1>1, <1>2, <1>3, <1>4

LEMMA ProductionInitially == ProductionInit => ProductionInv
BY DEF ProductionInit, ProductionInv, ProductionTypeOK, HeldStarting, HeldClosing,
       Closed, Timed, Connected, Starting, Closings, Mains, Resources

LEMMA ProductionStep ==
    ProductionInv /\ [ProductionNext]_productionVars => ProductionInv'
<1> SUFFICES ASSUME ProductionInv, [ProductionNext]_productionVars
             PROVE  ProductionInv'
  OBVIOUS
<1>1. CASE UNCHANGED productionVars
  BY <1>1 DEF productionVars, ProductionInv, ProductionTypeOK, HeldStarting,
              HeldClosing, Closed, Timed, Connected, RuntimeOpen, RuntimeNotOpen, Alive
<1>2. CASE ProductionNext
  BY <1>2, StartStep, CloseStep, RequestStep DEF ProductionNext
<1> QED BY <1>1, <1>2

\* The invariant says enough of every state in which a property speaks.
LEMMA ProductionInvImplies == ProductionInv => ProcessClosesInOrder
<1> SUFFICES ASSUME ProductionInv PROVE ProcessClosesInOrder OBVIOUS
<1> USE DEF ProductionInv
<1>1. ReadyMeansWhole
  <2> SUFFICES ASSUME Alive, gate = "OPEN"
               PROVE  /\ app /\ owner = "RUNNING" /\ main \in {"LISTENING", "READY"}
                      /\ \A x \in {"mongo", "sink", "socket"} : resource[x] = "OPEN"
    BY DEF ReadyMeansWhole
  <2>1. main \in {"LISTENING", "READY"}
    BY DEF Alive, ProductionTypeOK, Mains, Starting, Closings, HeldStarting, HeldClosing
  <2> QED BY <2>1 DEF HeldStarting, RuntimeOpen, Starting
<1>2. HandledRequestsAreServed
  <2> SUFFICES ASSUME NEW c \in Connections, Alive, conn[c] = "HANDLED",
                      resource["http"] # "STUCK"
               PROVE  \A x \in {"mongo", "sink", "socket"} : resource[x] = "OPEN"
    BY DEF HandledRequestsAreServed
  <2>1. app /\ resource["http"] = "OPEN"
    BY DEF Connected
  <2>2. main = "READY" \/ (main = "CLOSING" /\ closing = "http")
    BY <2>1 DEF Connected
  <2> QED BY <2>1, <2>2 DEF HeldStarting, HeldClosing, RuntimeOpen, Closings, Starting
<1>3. NothingIsLeftOpen
  BY DEF NothingIsLeftOpen, HeldStarting, HeldClosing, Closed, RuntimeNotOpen,
         NotOpen, Settled
<1>4. ShutdownIsBounded
  BY DEF ShutdownIsBounded, Timed
<1> QED BY <1>1, <1>2, <1>3, <1>4 DEF ProcessClosesInOrder

-----------------------------------------------------------------------------

\* Every variable of the process keeps its type through any order of starts,
\* failures, closes and signals.
THEOREM ProductionTypeCorrect == ProductionSpec => []ProductionTypeOK
<1>1. ProductionInv => ProductionTypeOK
  BY DEF ProductionInv
<1> QED BY <1>1, ProductionInitially, ProductionStep, PTL DEF ProductionSpec

\* The process opens and closes in order, whatever fails on the way: a gate
\* that says ready stands before a whole composition, a request in the handler
\* keeps what it works with, nothing stays open unseen, and no shutdown hangs
\* without its deadline.
THEOREM ProductionCloses == ProductionSpec => []ProcessClosesInOrder
<1> QED BY ProductionInitially, ProductionStep, ProductionInvImplies, PTL
        DEF ProductionSpec

-----------------------------------------------------------------------------
(* The rate ledger.  The counters are reset when they are next used, so what   *)
(* they stand for is only known of the minute a category counts in.  The       *)
(* invariant says that this minute is the last one in which anything was       *)
(* allowed and is no later than the clock, so that the next reading finds      *)
(* either this minute or one in which nothing has been allowed yet.            *)

Grants == [category : Categories, minute : Nat, key : RateKeys, nth : Nat]

RateTypeOK ==
    /\ minute \in [Categories -> Int]
    /\ tally \in [Categories -> [RateKeys -> Nat]]
    /\ inAll \in [Categories -> Nat]
    /\ lastNow \in Int /\ lastNow >= -1
    /\ frozen \in BOOLEAN
    /\ granted \in SUBSET Grants

\* What was allowed in a minute of a category, to a key, and to which keys.
In(G, c, m) == {x \in G : x.category = c /\ x.minute = m}

InOf(G, c, m, k) == {x \in In(G, c, m) : x.key = k}

KeysIn(G, c, m) == {x.key : x \in In(G, c, m)}

\* A minute keeps the allowances.
Within(G, c, m) ==
    /\ IsFiniteSet(In(G, c, m)) /\ IsFiniteSet(KeysIn(G, c, m))
    /\ Cardinality(In(G, c, m)) <= InAll[c]
    /\ \A k \in RateKeys : Cardinality(InOf(G, c, m, k)) <= PerKey[c]
    /\ MaxKeys[c] > 0 => Cardinality(KeysIn(G, c, m)) <= MaxKeys[c]

\* Counters stand for a minute, and number what is allowed in it.
Counts(G, c, m, count, total) ==
    /\ total = Cardinality(In(G, c, m))
    /\ \A k \in RateKeys : count[k] = Cardinality(InOf(G, c, m, k))
    /\ \A g \in In(G, c, m) : g.nth <= count[g.key]

\* A category counts in the last minute it allowed anything in, and that is
\* no later than the clock.
Behind ==
    /\ \A c \in Categories : minute[c] <= MinuteOf(lastNow)
    /\ \A g \in granted : g.minute <= minute[g.category]

RateInv ==
    /\ RateTypeOK
    /\ Behind
    /\ \A c \in Categories :
          /\ \A m \in Nat : Within(granted, c, m)
          /\ Counts(granted, c, minute[c], tally[c], inAll[c])

-----------------------------------------------------------------------------
(* The clock. *)

LEMMA MinuteIsWhole ==
    ASSUME NEW now \in Int
    PROVE  /\ MinuteOf(now) \in Int
           /\ MinuteLength * MinuteOf(now) <= now
           /\ now < MinuteLength * (MinuteOf(now) + 1)
  BY RateAssumption DEF MinuteOf

LEMMA MinutesGrow ==
    ASSUME NEW a \in Int, NEW b \in Int, a <= b
    PROVE  MinuteOf(a) <= MinuteOf(b)
<1>. DEFINE p == MinuteOf(a)
            q == MinuteOf(b)
<1>1. /\ p \in Int /\ q \in Int /\ MinuteLength \in Nat
      /\ MinuteLength * p <= a /\ b < MinuteLength * (q + 1)
  BY MinuteIsWhole, RateAssumption
<1>2. ASSUME q < p  PROVE FALSE
  <2>1. MinuteLength * (q + 1) <= MinuteLength * p
    BY <1>1, <1>2
  <2>. QED  BY <1>1, <2>1
<1>. QED  BY <1>1, <1>2

LEMMA MinutesStart ==
    /\ MinuteOf(-1) = -1
    /\ \A now \in Nat : MinuteOf(now) \in Nat
  BY RateAssumption DEF MinuteOf

-----------------------------------------------------------------------------
(* What is allowed. *)

\* The sets of another minute do not change, and neither do those of another
\* category.
LEMMA OthersKeep ==
    ASSUME NEW G \in SUBSET Grants, NEW g \in Grants,
           NEW c, NEW m, g.category # c \/ g.minute # m
    PROVE  /\ In(G \cup {g}, c, m) = In(G, c, m)
           /\ KeysIn(G \cup {g}, c, m) = KeysIn(G, c, m)
           /\ \A k \in RateKeys : InOf(G \cup {g}, c, m, k) = InOf(G, c, m, k)
  BY DEF In, InOf, KeysIn

\* The keys that were allowed something are those that were counted.
LEMMA CountedKeys ==
    ASSUME NEW G \in SUBSET Grants, NEW c, NEW m, NEW count \in [RateKeys -> Nat],
           NEW total, IsFiniteSet(In(G, c, m)), Counts(G, c, m, count, total)
    PROVE  KeysIn(G, c, m) = {k \in RateKeys : count[k] > 0}
<1>1. ASSUME NEW k \in RateKeys
      PROVE  k \in KeysIn(G, c, m) <=> count[k] > 0
  <2>1. InOf(G, c, m, k) \in SUBSET In(G, c, m)
    BY DEF InOf
  <2>2. IsFiniteSet(InOf(G, c, m, k)) /\ Cardinality(InOf(G, c, m, k)) \in Nat
    BY <2>1, FS_Subset, FS_CardinalityType
  <2>3. count[k] = 0 <=> InOf(G, c, m, k) = {}
    BY <2>2, FS_EmptySet DEF Counts
  <2>. QED  BY <2>3 DEF KeysIn, InOf
<1>2. KeysIn(G, c, m) \subseteq RateKeys
  BY DEF KeysIn, In, Grants
<1>. QED  BY <1>1, <1>2

LEMMA AddOne ==
    ASSUME NEW S, IsFiniteSet(S), NEW x, x \notin S
    PROVE  /\ IsFiniteSet(S \cup {x}) /\ Cardinality(S) \in Nat
           /\ Cardinality(S \cup {x}) = Cardinality(S) + 1
  BY FS_AddElement, FS_CardinalityType

\* One more request is allowed: its minute keeps the allowances, and the
\* counters follow.
LEMMA OneMore ==
    ASSUME NEW G \in SUBSET Grants, NEW c \in Categories, NEW m \in Nat,
           NEW count \in [RateKeys -> Nat], NEW total \in Nat, NEW key \in RateKeys,
           Within(G, c, m), Counts(G, c, m, count, total),
           ~Spent(c, key, count, total),
           NEW g \in Grants, g.category = c, g.minute = m, g.key = key,
           g.nth = count[key] + 1,
           NEW H, H = G \cup {g}
    PROVE  /\ Within(H, c, m)
           /\ Counts(H, c, m, [count EXCEPT ![key] = @ + 1], total + 1)
<1>1. g \notin In(G, c, m)
  BY DEF Counts, In, Grants
<1>2. In(H, c, m) = In(G, c, m) \cup {g}
  BY DEF In
<1>3. /\ IsFiniteSet(In(H, c, m))
      /\ Cardinality(In(H, c, m)) = total + 1
      /\ total + 1 <= InAll[c]
  <2>1. IsFiniteSet(In(G, c, m)) /\ total = Cardinality(In(G, c, m))
    BY DEF Within, Counts
  <2>2. total < InAll[c] /\ InAll[c] \in Nat
    BY RateAssumption DEF Spent
  <2>3. g \notin In(G, c, m)
    BY <1>1
  <2>4. /\ IsFiniteSet(In(G, c, m) \cup {g}) /\ Cardinality(In(G, c, m)) \in Nat
        /\ Cardinality(In(G, c, m) \cup {g}) = Cardinality(In(G, c, m)) + 1
    BY ONLY <2>1, <2>3, AddOne
  <2>. QED  BY ONLY <1>2, <2>1, <2>2, <2>4
<1>4. ASSUME NEW k \in RateKeys
      PROVE  Cardinality(InOf(H, c, m, k)) =
                IF k = key THEN count[k] + 1 ELSE count[k]
  <2>1. IsFiniteSet(InOf(G, c, m, k)) /\ Cardinality(InOf(G, c, m, k)) = count[k]
    <3>1. InOf(G, c, m, k) \in SUBSET In(G, c, m)
      BY DEF InOf
    <3>. QED  BY <3>1, FS_Subset DEF Within, Counts
  <2>2. CASE k = key
    <3>1. InOf(H, c, m, k) = InOf(G, c, m, k) \cup {g} /\ g \notin InOf(G, c, m, k)
      BY <1>1, <1>2, <2>2 DEF InOf
    <3>2. Cardinality(InOf(G, c, m, k) \cup {g}) = Cardinality(InOf(G, c, m, k)) + 1
      BY ONLY <3>1, <2>1, AddOne
    <3>. QED  BY ONLY <3>1, <3>2, <2>1, <2>2
  <2>3. CASE k # key
    <3>1. InOf(H, c, m, k) = InOf(G, c, m, k)
      BY <1>2, <2>3 DEF InOf
    <3>. QED  BY <3>1, <2>1, <2>3
  <2>. QED  BY <2>2, <2>3
<1>5. ASSUME NEW k \in RateKeys
      PROVE  Cardinality(InOf(H, c, m, k)) <= PerKey[c]
  <2>1. count[k] = Cardinality(InOf(G, c, m, k)) /\ Cardinality(InOf(G, c, m, k)) <= PerKey[c]
    BY DEF Within, Counts
  <2>2. count[key] < PerKey[c] /\ count[key] \in Nat /\ PerKey[c] \in Nat
    BY RateAssumption DEF Spent
  <2>3. CASE k = key
    BY <1>4, <2>1, <2>2, <2>3
  <2>4. CASE k # key
    BY <1>4, <2>1, <2>4
  <2>. QED  BY <2>3, <2>4
<1>6. IsFiniteSet(KeysIn(H, c, m)) /\ (MaxKeys[c] > 0 => Cardinality(KeysIn(H, c, m)) <= MaxKeys[c])
  <2>1. KeysIn(H, c, m) = KeysIn(G, c, m) \cup {key}
    BY <1>2 DEF KeysIn
  <2>2. IsFiniteSet(KeysIn(G, c, m)) /\ KeysIn(G, c, m) = {k \in RateKeys : count[k] > 0}
    BY CountedKeys DEF Within
  <2>3. CASE key \in KeysIn(G, c, m)
    <3>1. KeysIn(H, c, m) = KeysIn(G, c, m)
      BY <2>1, <2>3
    <3>. QED  BY <3>1 DEF Within
  <2>4. CASE key \notin KeysIn(G, c, m)
    <3>1. count[key] = 0
      BY <2>2, <2>4
    <3>2. MaxKeys[c] > 0 => Cardinality(KeysIn(G, c, m)) < MaxKeys[c]
      <4>1. Cardinality(KeysIn(G, c, m)) \in Nat /\ MaxKeys[c] \in Nat
        BY <2>2, FS_CardinalityType, RateAssumption
      <4>. QED  BY <3>1, <2>2, <4>1 DEF Spent
    <3>3. MaxKeys[c] \in Nat
      BY RateAssumption
    <3>4. /\ IsFiniteSet(KeysIn(G, c, m) \cup {key}) /\ Cardinality(KeysIn(G, c, m)) \in Nat
          /\ Cardinality(KeysIn(G, c, m) \cup {key}) = Cardinality(KeysIn(G, c, m)) + 1
      BY <2>2, <2>4, AddOne
    <3>5. /\ IsFiniteSet(KeysIn(H, c, m))
          /\ Cardinality(KeysIn(H, c, m)) = Cardinality(KeysIn(G, c, m)) + 1
      BY <2>1, <3>4
    <3>. QED  BY <3>2, <3>3, <3>4, <3>5
  <2>. QED  BY <2>3, <2>4
<1>7. \A x \in In(H, c, m) : x.nth <= [count EXCEPT ![key] = @ + 1][x.key]
  <2>1. \A x \in In(G, c, m) : x.nth <= count[x.key] /\ x.key \in RateKeys /\ x.nth \in Nat
    BY DEF Counts, In, Grants
  <2>. QED  BY <1>2, <2>1
<1>. QED  BY <1>3, <1>4, <1>5, <1>6, <1>7 DEF Within, Counts

-----------------------------------------------------------------------------
(* The invariant. *)

LEMMA RateStarts == RateInit => RateInv
<1>. SUFFICES ASSUME RateInit PROVE RateInv
  OBVIOUS
<1>1. RateTypeOK
  <2>1. lastNow \in Int /\ lastNow >= -1
    BY DEF RateInit
  <2>. QED  BY <2>1 DEF RateInit, RateTypeOK, NoCounts
<1>2. Behind
  BY MinutesStart DEF RateInit, Behind
<1>3. ASSUME NEW c \in Categories, NEW m \in Int
      PROVE  Within(granted, c, m) /\ Counts(granted, c, m, NoCounts, 0)
  <2>1. In(granted, c, m) = {} /\ KeysIn(granted, c, m) = {} /\ \A k : InOf(granted, c, m, k) = {}
    BY DEF RateInit, In, InOf, KeysIn
  <2>. QED  BY <2>1, FS_EmptySet, RateAssumption DEF Within, Counts, NoCounts
<1>. QED  BY <1>1, <1>2, <1>3 DEF RateInv, RateInit

LEMMA AllowStep ==
    ASSUME RateInv, NEW c \in Categories, NEW key \in RateKeys,
           NEW now \in 0..LastReading, Allow(c, key, now)
    PROVE  RateInv'
<1>. DEFINE m == MinuteOf(now)
            count == IF Afresh(c, now) THEN NoCounts ELSE tally[c]
            total == IF Afresh(c, now) THEN 0 ELSE inAll[c]
            g == [category |-> c, minute |-> m, key |-> key, nth |-> count[key] + 1]
<1>1. RateTypeOK /\ Behind
  BY DEF RateInv
<1>2. m \in Nat /\ now \in Nat /\ MinuteOf(lastNow) <= m /\ MinuteOf(lastNow) \in Int
  <2>1. now \in Nat /\ lastNow \in Int /\ lastNow <= now
    BY <1>1, RateAssumption DEF Allow, RateTypeOK
  <2>. QED  BY <2>1, MinutesStart, MinutesGrow, MinuteIsWhole
<1>3. count \in [RateKeys -> Nat] /\ total \in Nat
  BY <1>1 DEF RateTypeOK, NoCounts
<1>4. minute[c] <= m /\ (~Afresh(c, now) => minute[c] = m)
  <2>1. minute[c] \in Int /\ minute[c] <= MinuteOf(lastNow)
    BY <1>1 DEF Behind, RateTypeOK
  <2>. QED  BY <2>1, <1>2 DEF Afresh
<1>5. Counts(granted, c, m, count, total)
  <2>1. CASE ~Afresh(c, now)
    BY <2>1, <1>4 DEF RateInv
  <2>2. CASE Afresh(c, now)
    <3>1. In(granted, c, m) = {} /\ \A k : InOf(granted, c, m, k) = {}
      BY <2>2, <1>1, <1>2 DEF Behind, Afresh, In, InOf, RateTypeOK, Grants
    <3>. QED  BY <3>1, <2>2, FS_EmptySet DEF Counts, NoCounts
  <2>. QED  BY <2>1, <2>2
<1>6. \A d \in Categories, n \in Nat : Within(granted, d, n)
  BY DEF RateInv
<1>7. /\ minute' = [minute EXCEPT ![c] = m] /\ lastNow' = now /\ frozen' = frozen
      /\ now \in Int /\ now >= -1
  BY <1>2 DEF Allow
<1>8. CASE Spent(c, key, count, total)
  <2>1. /\ tally' = [tally EXCEPT ![c] = [count EXCEPT ![key] = @ + 0]]
        /\ inAll' = [inAll EXCEPT ![c] = total + 0] /\ granted' = granted
    BY <1>8 DEF Allow
  <2>2. tally' = [tally EXCEPT ![c] = count] /\ inAll' = [inAll EXCEPT ![c] = total]
    <3>. HIDE DEF count, total
    <3>1. [count EXCEPT ![key] = @ + 0] = count /\ total + 0 = total
      BY <1>3
    <3>. QED  BY <2>1, <3>1
  <2>3. RateTypeOK'
    BY <2>1, <2>2, <1>1, <1>2, <1>3, <1>7 DEF RateTypeOK
  <2>4. Behind'
    BY <2>1, <1>1, <1>2, <1>4, <1>7 DEF Behind, RateTypeOK, Grants
  <2>5. \A d \in Categories, n \in Nat : Within(granted', d, n)
    BY <1>6, <2>1
  <2>6. \A d \in Categories : Counts(granted', d, minute'[d], tally'[d], inAll'[d])
    BY <2>1, <2>2, <1>1, <1>5, <1>7 DEF RateInv, RateTypeOK
  <2>. QED  BY <2>3, <2>4, <2>5, <2>6 DEF RateInv, Within, Counts, In, InOf, KeysIn
<1>9. CASE ~Spent(c, key, count, total)
  <2>1. /\ tally' = [tally EXCEPT ![c] = [count EXCEPT ![key] = @ + 1]]
        /\ inAll' = [inAll EXCEPT ![c] = total + 1] /\ granted' = granted \cup {g}
    BY <1>9 DEF Allow
  <2>2. g \in Grants /\ [count EXCEPT ![key] = @ + 1] \in [RateKeys -> Nat] /\ total + 1 \in Nat
    BY <1>2, <1>3 DEF Grants
  <2>3. RateTypeOK'
    BY <2>1, <2>2, <1>1, <1>2, <1>7 DEF RateTypeOK
  <2>4. Behind'
    BY <2>1, <1>1, <1>2, <1>4, <1>7 DEF Behind, RateTypeOK, Grants
  <2>5. /\ Within(granted', c, m)
        /\ Counts(granted', c, m, tally'[c], inAll'[c])
    <3>1. granted \in SUBSET Grants /\ Within(granted, c, m)
      BY <1>1, <1>2, <1>6 DEF RateTypeOK
    <3>2. /\ Within(granted \cup {g}, c, m)
          /\ Counts(granted \cup {g}, c, m, [count EXCEPT ![key] = @ + 1], total + 1)
      <4>1. g.category = c /\ g.minute = m /\ g.key = key /\ g.nth = count[key] + 1
        OBVIOUS
      <4>. HIDE DEF g, count, total, m
      <4>. QED  BY <3>1, <1>2, <1>3, <1>5, <1>9, <2>2, <4>1, OneMore
    <3>. QED  BY <3>2, <2>1, <1>1 DEF RateTypeOK
  <2>6. ASSUME NEW d \in Categories, NEW n \in Int, d # c \/ n # m
        PROVE  /\ In(granted', d, n) = In(granted, d, n)
               /\ KeysIn(granted', d, n) = KeysIn(granted, d, n)
               /\ \A k \in RateKeys : InOf(granted', d, n, k) = InOf(granted, d, n, k)
    <3>1. granted \in SUBSET Grants /\ (g.category # d \/ g.minute # n)
      BY <1>1, <2>6 DEF RateTypeOK
    <3>. HIDE DEF g
    <3>. QED  BY <2>1, <2>2, <3>1, OthersKeep, SMTT(40)
  <2>7. \A d \in Categories, n \in Nat : Within(granted', d, n)
    BY <1>6, <2>5, <2>6 DEF Within
  <2>8. ASSUME NEW d \in Categories
        PROVE  Counts(granted', d, minute'[d], tally'[d], inAll'[d])
    <3>1. CASE d = c
      BY <3>1, <2>5, <1>1, <1>7 DEF RateTypeOK
    <3>2. CASE d # c
      <4>1. /\ minute'[d] = minute[d] /\ tally'[d] = tally[d] /\ inAll'[d] = inAll[d]
            /\ minute[d] \in Int
        BY <3>2, <2>1, <1>1, <1>7 DEF RateTypeOK
      <4>2. Counts(granted, d, minute[d], tally[d], inAll[d])
        BY DEF RateInv
      <4>. QED  BY <4>1, <4>2, <3>2, <2>6 DEF Counts
    <3>. QED  BY <3>1, <3>2
  <2>. QED  BY <2>3, <2>4, <2>7, <2>8 DEF RateInv, Within, Counts, In, InOf, KeysIn
<1>. QED  BY <1>8, <1>9

LEMMA RateKeeps == RateInv /\ [RateNext]_rateVars => RateInv'
<1>. SUFFICES ASSUME RateInv, [RateNext]_rateVars PROVE RateInv'
  OBVIOUS
<1>1. ASSUME NEW c \in Categories, NEW k \in RateKeys, NEW now \in 0..LastReading,
             Allow(c, k, now)
      PROVE  RateInv'
  BY <1>1, AllowStep
<1>2. CASE ClockFails \/ UNCHANGED rateVars
  <2>1. UNCHANGED <<minute, tally, inAll, lastNow, granted>> /\ frozen' \in BOOLEAN
    BY <1>2 DEF ClockFails, rateVars, RateInv, RateTypeOK
  <2>2. RateTypeOK' /\ Behind'
    BY <2>1 DEF RateInv, RateTypeOK, Behind, MinuteOf
  <2>3. ASSUME NEW c \in Categories
        PROVE  /\ \A m \in Nat : Within(granted', c, m)
               /\ Counts(granted', c, minute'[c], tally'[c], inAll'[c])
    BY <2>1 DEF RateInv
  <2>. QED  BY <2>2, <2>3 DEF RateInv, Within, Counts, In, InOf, KeysIn
<1>. QED  BY <1>1, <1>2 DEF RateNext

LEMMA RateInvIsEnough == RateInv => AllowancesHold
<1>. SUFFICES ASSUME RateInv, NEW c \in Categories
              PROVE  /\ \A g \in {x \in granted : x.category = c} :
                          /\ Cardinality(In(granted, c, g.minute)) <= InAll[c]
                          /\ Cardinality({x \in In(granted, c, g.minute) : x.key = g.key}) <= PerKey[c]
                          /\ MaxKeys[c] > 0 =>
                                Cardinality({x.key : x \in In(granted, c, g.minute)}) <= MaxKeys[c]
                     /\ inAll[c] = Cardinality(In(granted, c, minute[c]))
                     /\ \A k \in RateKeys :
                          tally[c][k] = Cardinality({x \in In(granted, c, minute[c]) : x.key = k})
  BY DEF AllowancesHold, In
<1>1. ASSUME NEW g \in {x \in granted : x.category = c}
      PROVE  /\ Cardinality(In(granted, c, g.minute)) <= InAll[c]
             /\ Cardinality({x \in In(granted, c, g.minute) : x.key = g.key}) <= PerKey[c]
             /\ MaxKeys[c] > 0 =>
                   Cardinality({x.key : x \in In(granted, c, g.minute)}) <= MaxKeys[c]
  <2>1. g.minute \in Nat /\ g.key \in RateKeys
    BY DEF RateInv, RateTypeOK, Grants
  <2>. QED  BY <2>1 DEF RateInv, Within, InOf, KeysIn
<1>2. Counts(granted, c, minute[c], tally[c], inAll[c])
  BY DEF RateInv
<1>. QED  BY <1>1, <1>2 DEF Counts, InOf

-----------------------------------------------------------------------------
(* Whatever the clock reads, no key and no category is allowed more than    *)
(* its allowance in any minute, and what is counted against a request is     *)
(* what was allowed in its minute (fixed-minute-rate-ledger.ts, allow).      *)
THEOREM RatesAreKept == RateSpec => []AllowancesHold
<1>1. RateInit => RateInv
  BY RateStarts
<1>2. RateInv /\ [RateNext]_rateVars => RateInv'
  BY RateKeeps
<1>3. RateInv => AllowancesHold
  BY RateInvIsEnough
<1>. QED  BY <1>1, <1>2, <1>3, PTL DEF RateSpec

-----------------------------------------------------------------------------
(* The path of the control socket.  Only one process is between two of its     *)
(* steps, so what lies at the path is known at each stage: a process takes no   *)
(* live socket for a stale one, and puts back what it moved aside.              *)

\* Who waits for nobody; every other process is between two of its steps.
Stepping == {"PROBE", "RECHECK", "RECHECK_AGAIN", "REMOVE", "LISTEN", "CHMOD",
             "CLOSE", "ASIDE", "RESTORE"}

Sockets == 1..(Listeners + 1)

ListenerTypeOK ==
    /\ path \in {0} \cup Sockets
    /\ mode \subseteq Sockets
    /\ listening \subseteq Sockets
    /\ hosts \in [Hosts -> [stage : Stepping \cup Resting,
                            seen : {0} \cup Sockets, aside : {0} \cup Sockets]]

Runs(p) == hosts[p].stage = "RUNNING"

\* At most one process is between two of its steps.
OneSteps ==
    \A p, q \in Hosts :
        hosts[p].stage \in Stepping /\ hosts[q].stage \in Stepping => p = q

\* What a process knows of its own socket, and what lies at the path, at each
\* stage of its start and of its end.
OwnSocket ==
    \A p \in Hosts :
        /\ hosts[p].stage \in {"CHMOD", "RUNNING"} => p \in listening
        /\ hosts[p].stage = "CHMOD" => path = p
        /\ hosts[p].stage = "RUNNING" => hosts[p].seen = p
        /\ hosts[p].stage = "CLOSE" => hosts[p].seen \in {0, p}
        /\ hosts[p].stage \in {"ASIDE", "RESTORE"} => path \in {0, p}

\* The socket that is about to be removed as stale serves nobody: if it is
\* still at the path, it is the one whose connection was refused.
StaleIsDead ==
    \A p \in Hosts :
        /\ hosts[p].stage \in {"RECHECK", "RECHECK_AGAIN", "REMOVE"} =>
                \A q \in Hosts : Runs(q) => ~(path = q /\ hosts[p].seen = q)
        /\ hosts[p].stage = "REMOVE" => path = hosts[p].seen

\* A socket moved aside is held by the process that puts it back.
HeldAside ==
    \A p \in Hosts \ replaced :
        Runs(p) => \/ path = p
                   \/ \E q \in Hosts :
                         hosts[q].stage \in {"ASIDE", "RESTORE"} /\ hosts[q].aside = p

ListenerInv ==
    ListenerTypeOK /\ OneSteps /\ OwnSocket /\ StaleIsDead /\ HeldAside

LEMMA ListenerInitInv == ListenerInit => ListenerInv
BY ListenersAssumption
   DEF ListenerInit, ListenerInv, ListenerTypeOK, OneSteps, OwnSocket, StaleIsDead,
       HeldAside, Hosts, Sockets, Stepping, Resting, Runs

HostStates == [Hosts -> [stage : Stepping \cup Resting,
                         seen : {0} \cup Sockets, aside : {0} \cup Sockets]]

\* A process goes to another stage, and may note what lies at the path.
LEMMA HostMoves ==
    ASSUME hosts \in HostStates
    PROVE  /\ \A p \in Hosts, stage \in Stepping \cup Resting :
                [hosts EXCEPT ![p].stage = stage] \in HostStates
           /\ \A p \in Hosts, stage \in Stepping \cup Resting, h \in {0} \cup Sockets :
                /\ [hosts EXCEPT ![p].stage = stage, ![p].seen = h] \in HostStates
                /\ [hosts EXCEPT ![p].stage = stage, ![p].aside = h] \in HostStates
<1> DEFINE S == Stepping \cup Resting
           H == {0} \cup Sockets
<1>1. /\ hosts \in [Hosts -> [stage : S, seen : H, aside : H]]
      /\ HostStates = [Hosts -> [stage : S, seen : H, aside : H]]
  BY DEF HostStates
<1> HIDE DEF S, H
<1>2. \A p \in Hosts, stage \in S :
         [hosts EXCEPT ![p].stage = stage] \in [Hosts -> [stage : S, seen : H, aside : H]]
  BY <1>1
<1>3. \A p \in Hosts, stage \in S, h \in H :
         [hosts EXCEPT ![p].stage = stage, ![p].seen = h]
             \in [Hosts -> [stage : S, seen : H, aside : H]]
  BY <1>1
<1>4. \A p \in Hosts, stage \in S, h \in H :
         [hosts EXCEPT ![p].stage = stage, ![p].aside = h]
             \in [Hosts -> [stage : S, seen : H, aside : H]]
  BY <1>1
<1> QED BY <1>1, <1>2, <1>3, <1>4, Zenon DEF S, H

LEMMA HostsStay ==
    ASSUME ListenerTypeOK, NEW p \in Hosts,
           \/ LookAtPath(p) \/ Probe(p) \/ Recheck(p) \/ RemoveStale(p)
           \/ Listen(p) \/ Secure(p) \/ StartClose(p) \/ MoveAside(p)
           \/ CloseServer(p) \/ Restore(p) \/ Dies(p)
    PROVE  hosts' \in HostStates
<1> DEFINE S == Stepping \cup Resting
           H == {0} \cup Sockets
<1>1. hosts \in HostStates /\ path \in H /\ 0 \in H /\ p \in H
  BY ListenersAssumption DEF ListenerTypeOK, HostStates, Hosts, Sockets
<1>2. \A stage \in {"DEAD", "LISTEN", "PROBE", "RECHECK", "RECHECK_AGAIN", "REMOVE", "CHMOD",
                    "CLOSE", "RUNNING", "ASIDE", "RESTORE", "CLOSED"} : stage \in S
  BY DEF Stepping, Resting
<1>3. /\ \A stage \in S : [hosts EXCEPT ![p].stage = stage] \in HostStates
      /\ \A stage \in S, h \in H :
           /\ [hosts EXCEPT ![p].stage = stage, ![p].seen = h] \in HostStates
           /\ [hosts EXCEPT ![p].stage = stage, ![p].aside = h] \in HostStates
  BY <1>1, HostMoves
<1> HIDE DEF S, H
<1>4. CASE LookAtPath(p)
  BY <1>1, <1>2, <1>3, <1>4 DEF LookAtPath, HostGoes
<1>5. CASE Probe(p) \/ RemoveStale(p) \/ StartClose(p) \/ CloseServer(p) \/ Dies(p)
  <2>1. \E stage \in {"DEAD", "RECHECK", "LISTEN", "CLOSE", "RESTORE"} : HostGoes(p, stage)
    BY <1>5 DEF Probe, RemoveStale, StartClose, CloseServer, Dies
  <2> QED BY <1>2, <1>3, <2>1 DEF HostGoes
<1>6. CASE Recheck(p)
  <2>1. \E stage \in {"DEAD", "RECHECK_AGAIN", "REMOVE"} : HostGoes(p, stage)
    BY <1>6 DEF Recheck
  <2> QED BY <1>2, <1>3, <2>1 DEF HostGoes
<1>7. CASE Listen(p)
  <2>1. \/ HostGoes(p, "CHMOD")
        \/ hosts' = [hosts EXCEPT ![p].stage = "CLOSE", ![p].seen = 0]
    BY <1>7 DEF Listen
  <2> QED BY <1>1, <1>2, <1>3, <2>1 DEF HostGoes
<1>8. CASE Secure(p)
  <2>1. \/ hosts' = [hosts EXCEPT ![p].stage = "RUNNING", ![p].seen = p]
        \/ \E seen \in {0, path} : hosts' = [hosts EXCEPT ![p].stage = "CLOSE", ![p].seen = seen]
    BY <1>8 DEF Secure
  <2> QED BY <1>1, <1>2, <1>3, <2>1
<1>9. CASE MoveAside(p)
  <2>1. \/ HostGoes(p, "ASIDE")
        \/ hosts' = [hosts EXCEPT ![p].stage = "ASIDE", ![p].aside = path]
    BY <1>9 DEF MoveAside
  <2> QED BY <1>1, <1>2, <1>3, <2>1 DEF HostGoes
<1>10. CASE Restore(p)
  <2>1. hosts' = [hosts EXCEPT ![p].stage = "CLOSED", ![p].aside = 0]
    BY <1>10 DEF Restore
  <2> QED BY <1>1, <1>2, <1>3, <2>1
<1> QED BY <1>4, <1>5, <1>6, <1>7, <1>8, <1>9, <1>10

LEMMA ListenerTypeStep ==
    ASSUME ListenerTypeOK, ListenerNext PROVE ListenerTypeOK'
<1>1. ASSUME NEW p \in Hosts,
           \/ LookAtPath(p) \/ Probe(p) \/ Recheck(p) \/ RemoveStale(p)
           \/ Listen(p) \/ Secure(p) \/ StartClose(p) \/ MoveAside(p)
           \/ CloseServer(p) \/ Restore(p) \/ Dies(p)
      PROVE ListenerTypeOK'
  <2>1. hosts' \in HostStates
    BY <1>1, HostsStay
  <2>2. /\ path \in {0} \cup Sockets /\ hosts[p].aside \in {0} \cup Sockets /\ p \in Sockets
        /\ mode \subseteq Sockets /\ listening \subseteq Sockets
    BY ListenersAssumption DEF ListenerTypeOK, Hosts, Sockets
  <2>3. path' \in {path, 0, p, hosts[p].aside}
    BY <1>1 DEF LookAtPath, Probe, Recheck, RemoveStale, Listen, Secure, StartClose, MoveAside,
                CloseServer, Restore, Dies
  <2>4. mode' \in {mode, mode \cup {p}} /\ listening' \in {listening, listening \cup {p},
                                                          listening \ {p}}
    BY <1>1 DEF LookAtPath, Probe, Recheck, RemoveStale, Listen, Secure, StartClose, MoveAside,
                CloseServer, Restore, Dies
  <2>5. /\ path' \in {0} \cup Sockets
        /\ mode' \subseteq Sockets /\ listening' \subseteq Sockets
    BY <2>2, <2>3, <2>4
  <2> QED BY <2>1, <2>5 DEF ListenerTypeOK, HostStates
<1>2. ASSUME NEW live \in BOOLEAN, Replaced(live) PROVE ListenerTypeOK'
  BY <1>2, ListenersAssumption DEF Replaced, ListenerTypeOK, Sockets, Foreign
<1> QED BY <1>1, <1>2 DEF ListenerNext

\* What a step of one process leaves alone, by its stage before and after.
LEMMA OneMoves ==
    ASSUME ListenerTypeOK, NEW p \in Hosts,
           \/ LookAtPath(p) \/ Probe(p) \/ Recheck(p) \/ RemoveStale(p)
           \/ Listen(p) \/ Secure(p) \/ StartClose(p) \/ MoveAside(p)
           \/ CloseServer(p) \/ Restore(p) \/ Dies(p)
    PROVE  /\ \A q \in Hosts \ {p} : hosts'[q] = hosts[q] /\ (q \in listening' <=> q \in listening)
           /\ hosts[p].stage \in Stepping \/ OthersRest(p) \/ hosts'[p].stage \in Resting
BY ListenersAssumption
   DEF ListenerTypeOK, LookAtPath, Probe, Recheck, RemoveStale, Listen, Secure, StartClose,
       MoveAside, CloseServer, Restore, Dies, HostGoes, OnThePath, Stepping, Resting

LEMMA ListenerOneSteps ==
    ASSUME ListenerInv, ListenerNext PROVE OneSteps'
<1>1. ASSUME NEW p \in Hosts,
           \/ LookAtPath(p) \/ Probe(p) \/ Recheck(p) \/ RemoveStale(p)
           \/ Listen(p) \/ Secure(p) \/ StartClose(p) \/ MoveAside(p)
           \/ CloseServer(p) \/ Restore(p) \/ Dies(p)
      PROVE OneSteps'
  BY <1>1, OneMoves DEF ListenerInv, OneSteps, OthersRest, Stepping, Resting
<1>2. ASSUME NEW live \in BOOLEAN, Replaced(live) PROVE OneSteps'
  BY <1>2 DEF Replaced, ListenerInv, OneSteps
<1> QED BY <1>1, <1>2 DEF ListenerNext

LEMMA ListenerOwnSocket ==
    ASSUME ListenerInv, ListenerNext PROVE OwnSocket'
<1> USE ListenersAssumption DEF ListenerInv, Hosts
<1>1. ASSUME NEW p \in Hosts,
           \/ LookAtPath(p) \/ Probe(p) \/ Recheck(p) \/ RemoveStale(p)
           \/ Listen(p) \/ Secure(p) \/ StartClose(p) \/ MoveAside(p)
           \/ CloseServer(p) \/ Restore(p)
      PROVE OwnSocket'
  <2>1. \A q \in Hosts \ {p} : hosts[q].stage \in Resting
    BY <1>1 DEF LookAtPath, Probe, Recheck, RemoveStale, Listen, Secure, StartClose, MoveAside,
               CloseServer, Restore, OnThePath, OthersRest
  <2>2. \A q \in Hosts \ {p} : hosts'[q] = hosts[q] /\ (q \in listening' <=> q \in listening)
    BY <1>1, OneMoves
  <2>3. SUFFICES
           /\ hosts'[p].stage \in {"CHMOD", "RUNNING"} => p \in listening'
           /\ hosts'[p].stage = "CHMOD" => path' = p
           /\ hosts'[p].stage = "RUNNING" => hosts'[p].seen = p
           /\ hosts'[p].stage = "CLOSE" => hosts'[p].seen \in {0, p}
           /\ hosts'[p].stage \in {"ASIDE", "RESTORE"} => path' \in {0, p}
    BY <2>1, <2>2 DEF OwnSocket, Resting
  <2>4. CASE LookAtPath(p) \/ Probe(p) \/ Recheck(p) \/ RemoveStale(p)
    BY <2>4 DEF LookAtPath, Probe, Recheck, RemoveStale, HostGoes, OnThePath, ListenerTypeOK
  <2>5. CASE Listen(p)
    BY <2>5 DEF Listen, HostGoes, OnThePath, ListenerTypeOK
  <2>6. CASE Secure(p)
    BY <2>6 DEF Secure, OnThePath, ListenerTypeOK, OwnSocket
  <2>7. CASE StartClose(p) \/ MoveAside(p)
    BY <2>7 DEF StartClose, MoveAside, NotMine, HostGoes, OnThePath, ListenerTypeOK, OwnSocket
  <2>8. CASE CloseServer(p) \/ Restore(p)
    BY <2>8 DEF CloseServer, Restore, HostGoes, OnThePath, ListenerTypeOK, OwnSocket
  <2> QED BY <1>1, <2>4, <2>5, <2>6, <2>7, <2>8
<1>2. ASSUME NEW p \in Hosts, Dies(p) PROVE OwnSocket'
  BY <1>2 DEF Dies, HostGoes, OwnSocket, ListenerTypeOK
<1>3. ASSUME NEW live \in BOOLEAN, Replaced(live) PROVE OwnSocket'
  BY <1>3 DEF Replaced, OwnSocket, Resting, Foreign
<1> QED BY <1>1, <1>2, <1>3 DEF ListenerNext

LEMMA ListenerStaleIsDead ==
    ASSUME ListenerInv, ListenerNext PROVE StaleIsDead'
<1> USE ListenersAssumption DEF ListenerInv, Hosts
<1>1. ASSUME NEW p \in Hosts,
           \/ LookAtPath(p) \/ Probe(p) \/ Recheck(p) \/ RemoveStale(p)
           \/ Listen(p) \/ Secure(p) \/ StartClose(p) \/ MoveAside(p)
           \/ CloseServer(p) \/ Restore(p)
      PROVE StaleIsDead'
  <2>1. \A q \in Hosts \ {p} : hosts[q].stage \in Resting
    BY <1>1 DEF LookAtPath, Probe, Recheck, RemoveStale, Listen, Secure, StartClose, MoveAside,
               CloseServer, Restore, OnThePath, OthersRest
  <2>2. \A q \in Hosts \ {p} : hosts'[q] = hosts[q]
    BY <1>1, OneMoves
  <2>3. SUFFICES
        /\ hosts'[p].stage \in {"RECHECK", "RECHECK_AGAIN", "REMOVE"} =>
                \A q \in Hosts \ {p} : Runs(q) => ~(path' = q /\ hosts'[p].seen = q)
        /\ hosts'[p].stage = "REMOVE" => path' = hosts'[p].seen
    BY <2>1, <2>2 DEF StaleIsDead, Resting, Runs
  <2>4. CASE Probe(p)
    BY <2>4 DEF Probe, HostGoes, OnThePath, ListenerTypeOK, OwnSocket, Runs
  <2>5. CASE Recheck(p)
    BY <2>5 DEF Recheck, HostGoes, OnThePath, ListenerTypeOK, StaleIsDead, Runs
  <2>6. CASE LookAtPath(p) \/ RemoveStale(p) \/ Listen(p)
    BY <2>6 DEF LookAtPath, RemoveStale, Listen, HostGoes, OnThePath, ListenerTypeOK
  <2>7. CASE Secure(p) \/ StartClose(p) \/ MoveAside(p) \/ CloseServer(p) \/ Restore(p)
    BY <2>7 DEF Secure, StartClose, MoveAside, CloseServer, Restore, HostGoes, OnThePath,
               ListenerTypeOK
  <2> QED BY <1>1, <2>4, <2>5, <2>6, <2>7
<1>2. ASSUME NEW p \in Hosts, Dies(p) PROVE StaleIsDead'
  BY <1>2 DEF Dies, HostGoes, StaleIsDead, Runs, ListenerTypeOK
<1>3. ASSUME NEW live \in BOOLEAN, Replaced(live) PROVE StaleIsDead'
  BY <1>3 DEF Replaced, StaleIsDead, Resting, Foreign
<1> QED BY <1>1, <1>2, <1>3 DEF ListenerNext

LEMMA ListenerHeldAside ==
    ASSUME ListenerInv, ListenerNext PROVE HeldAside'
<1> USE ListenersAssumption DEF ListenerInv, Hosts
<1>1. ASSUME NEW p \in Hosts,
           \/ LookAtPath(p) \/ Probe(p) \/ Recheck(p) \/ RemoveStale(p)
           \/ Listen(p) \/ Secure(p) \/ StartClose(p) \/ MoveAside(p)
           \/ CloseServer(p) \/ Restore(p)
      PROVE HeldAside'
  <2>1. \A q \in Hosts \ {p} : hosts[q].stage \in Resting
    BY <1>1 DEF LookAtPath, Probe, Recheck, RemoveStale, Listen, Secure, StartClose, MoveAside,
               CloseServer, Restore, OnThePath, OthersRest
  <2>2. /\ \A q \in Hosts \ {p} : hosts'[q] = hosts[q]
        /\ replaced' = replaced
    BY <1>1, OneMoves DEF LookAtPath, Probe, Recheck, RemoveStale, Listen, Secure, StartClose,
               MoveAside, CloseServer, Restore
  <2>3. SUFFICES ASSUME NEW r \in Hosts \ replaced, hosts'[r].stage = "RUNNING"
        PROVE  path' = r \/ (hosts'[p].stage \in {"ASIDE", "RESTORE"} /\ hosts'[p].aside = r)
    BY <2>2 DEF HeldAside, Runs
  <2>4. CASE r = p
    BY <1>1, <2>3, <2>4 DEF LookAtPath, Probe, Recheck, RemoveStale, Listen, Secure, StartClose,
       MoveAside, CloseServer, Restore, HostGoes, OnThePath, ListenerTypeOK, OwnSocket
  <2>5. CASE r # p
    <3>1. /\ Runs(r)
          /\ path = r \/ (hosts[p].stage \in {"ASIDE", "RESTORE"} /\ hosts[p].aside = r)
      BY <2>1, <2>2, <2>3, <2>5 DEF HeldAside, Runs, Resting
    <3>2. CASE LookAtPath(p) \/ Probe(p) \/ Recheck(p) \/ Secure(p) \/ StartClose(p)
      BY <3>1, <3>2, <2>5 DEF LookAtPath, Probe, Recheck, Secure, StartClose, OnThePath
    <3>3. CASE RemoveStale(p)
      BY <3>1, <3>3, <2>5 DEF RemoveStale, OnThePath, StaleIsDead
    <3>4. CASE Listen(p)
      BY <3>1, <3>4, <2>5 DEF Listen, OnThePath
    <3>5. CASE MoveAside(p)
      BY <3>1, <3>5, <2>5 DEF MoveAside, NotMine, HostGoes, OnThePath, OwnSocket, ListenerTypeOK
    <3>6. CASE CloseServer(p) \/ Restore(p)
      BY <3>1, <3>6, <2>5 DEF CloseServer, Restore, HostGoes, OnThePath, OwnSocket,
                             ListenerTypeOK
    <3> QED BY <1>1, <3>2, <3>3, <3>4, <3>5, <3>6
  <2> QED BY <2>4, <2>5
<1>2. ASSUME NEW p \in Hosts, Dies(p) PROVE HeldAside'
  BY <1>2 DEF Dies, HostGoes, HeldAside, Runs, ListenerTypeOK, Resting
<1>3. ASSUME NEW live \in BOOLEAN, Replaced(live) PROVE HeldAside'
  BY <1>3 DEF Replaced, HeldAside, Runs, Resting
<1> QED BY <1>1, <1>2, <1>3 DEF ListenerNext

\* The inductive invariant of the listeners.
THEOREM ListenersHold == ListenerSpec => []ListenerInv
<1>1. ASSUME ListenerInv, [ListenerNext]_listenerVars PROVE ListenerInv'
  <2>1. CASE ListenerNext
    BY <1>1, <2>1, ListenerTypeStep, ListenerOneSteps, ListenerOwnSocket, ListenerStaleIsDead,
       ListenerHeldAside DEF ListenerInv
  <2>2. CASE UNCHANGED listenerVars
    BY <1>1, <2>2 DEF listenerVars, ListenerInv, ListenerTypeOK, OneSteps, OwnSocket,
       StaleIsDead, HeldAside, Runs
  <2> QED BY <1>1, <2>1, <2>2
<1> QED BY <1>1, ListenerInitInv, PTL DEF ListenerSpec

\* A process that serves is reached at its path, however many start and die:
\* the path is only removed or taken when no live socket of a process is there.
THEOREM ListenersAreReached == ListenerSpec => []ListenerIsReached
<1>1. ListenerInv => ListenerIsReached
  BY DEF ListenerInv, HeldAside, ListenerIsReached, Runs
<1> QED BY <1>1, ListenersHold, PTL

-----------------------------------------------------------------------------
(* The exchanges over it.  Each link holds what the core stands for: the        *)
(* commands that were applied only grow, and a drained runtime stays drained.   *)

Exits == {"NONE", "RESULT", "REFUSED", "RESPONSE_PARTIAL", "TIMEOUT", "TRANSPORT_ERROR",
          "CONNECT_FAILED"}

Terminals == {"NONE", "HELD", "RELEASED", "DRAINED", "NOT_DRAINED", "INTERNAL_UNAVAILABLE"}

Refusals == {"REQUEST_CONTROL_CONFLICT", "CONTROL_BUSY", "STALE_REVISION", "MANUAL_HOLD_EXISTS",
             "NO_MANUAL_HOLD", "CONTROL_ID_MISMATCH", "MAINTENANCE_HOLD_EXISTS",
             "INVALID_REQUEST", "LOG_READ_UNAVAILABLE"}

Replied == [ok : BOOLEAN, outcome : Terminals \cup Refusals \cup {"STATUS", "LOGS_READ"}, revision : Nat, quiet : BOOLEAN]

Links == [sends : RuntimeRequests \cup {NoCommand}, exit : Exits, connected : BOOLEAN,
          peer : {"NONE", "CLOSED"} \cup Accepted, arrived : {"NOTHING", "PART", "WHOLE"},
          reply : Replied]

ExchangeTypeOK ==
    /\ link \in [Clients -> Links]
    /\ open \in Nat
    /\ alive \in BOOLEAN
    /\ revision \in Nat /\ manual \in Nat /\ maintenance \in Nat
    /\ current \in RuntimeRequests \cup {NoCommand}
    /\ applied \in Seq(RuntimeRequests)
    /\ last \in [command : RuntimeRequests \cup {NoCommand}, outcome : Terminals, revision : Nat]

\* The last command that was applied is the one that is pending, or terminal;
\* a runtime that drained stays drained.
CoreInv ==
    /\ revision = Len(applied)
    /\ outcome # "NONE" => maintenance # 0
    /\ outcome = "DRAINED" => Quiet
    /\ current = NoCommand <=> outcome # "WAITING"
    /\ current # NoCommand => revision \in DOMAIN applied /\ applied[revision] = current
    /\ last.command = NoCommand => last.outcome = "NONE"
    /\ last.command # NoCommand =>
          last.revision \in DOMAIN applied /\ applied[last.revision] = last.command
    /\ last.outcome = "DRAINED" => outcome = "DRAINED"

\* What was answered is so; who is not connected was never served.
LinkInv ==
    \A c \in Clients :
        /\ link[c].connected => link[c].sends \in RuntimeRequests
        /\ ~link[c].connected =>
              link[c].peer = "NONE" /\ link[c].arrived = "NOTHING" /\ link[c].reply = NoReply
        /\ link[c].exit = "CONNECT_FAILED" => ~link[c].connected
        /\ link[c].exit = "RESULT" => link[c].reply.ok /\ link[c].arrived = "WHOLE"
        /\ link[c].arrived # "NOTHING" => link[c].peer \in {"ENDED", "CLOSED"}
        /\ link[c].peer = "READING" => link[c].sends.kind = "LOGS_READ"
        /\ link[c].reply.ok /\ link[c].sends.kind \in Mutations =>
              /\ link[c].reply.revision \in DOMAIN applied
              /\ applied[link[c].reply.revision] = link[c].sends
        /\ link[c].reply.outcome = "DRAINED" => outcome = "DRAINED"

Served == {c \in Clients : Holding(c)}

SlotInv ==
    /\ IsFiniteSet(Served)
    /\ open = Cardinality(Served)
    /\ open <= MaxConnections

ExchangeInv == ExchangeTypeOK /\ CoreInv /\ LinkInv /\ SlotInv

USE DEF controlVars, replayVars, holdVars, leaseVars

LEMMA ExchangeInitInv == ExchangeInit => ExchangeInv
<1> SUFFICES ASSUME ExchangeInit PROVE ExchangeInv
  OBVIOUS
<1>1. ExchangeTypeOK
  <2>1. NoReply \in Replied
    BY DEF NoReply, Replied, Terminals
  <2>2. NoLink \in Links
    BY <2>1 DEF NoLink, Links, Exits
  <2>3. NothingYet \in [command : RuntimeRequests \cup {NoCommand}, outcome : Terminals,
                        revision : Nat]
    BY DEF NothingYet, Terminals
  <2> QED BY <2>2, <2>3 DEF ExchangeInit, ControlInit, ExchangeTypeOK
<1>2. CoreInv
  BY DEF ExchangeInit, ControlInit, CoreInv, NothingYet, Quiet
<1>3. LinkInv
  BY DEF ExchangeInit, LinkInv, NoLink, NoReply
<1>4. Served = {}
  BY DEF ExchangeInit, Served, Holding, NoLink, Accepted
<1>5. SlotInv
  BY <1>4, FS_EmptySet, ExchangeAssumption DEF SlotInv, ExchangeInit
<1> QED BY <1>1, <1>2, <1>3, <1>5 DEF ExchangeInv

\* A step serves one client: it takes a slot, gives one back, or neither.
LEMMA SlotsMove ==
    ASSUME ExchangeInv, NEW c \in Clients,
           \A d \in Clients \ {c} : link'[d] = link[d],
           \/ /\ ~Holding(c) /\ Holding(c)'
              /\ open' = open + 1 /\ open < MaxConnections
           \/ Holding(c) /\ ~Holding(c)' /\ open' = open - 1
           \/ (Holding(c)' <=> Holding(c)) /\ open' = open
    PROVE  SlotInv' /\ open' \in Nat
<1> USE ExchangeAssumption DEF ExchangeInv, SlotInv
<1>1. CASE ~Holding(c) /\ Holding(c)'
  <2>1. Served' = Served \cup {c} /\ c \notin Served
    BY <1>1 DEF Served, Holding
  <2>2. IsFiniteSet(Served') /\ Cardinality(Served') = Cardinality(Served) + 1
    BY <2>1, FS_AddElement
  <2> QED BY <1>1, <2>2 DEF ExchangeTypeOK
<1>2. CASE Holding(c) /\ ~Holding(c)'
  <2>1. Served' = Served \ {c} /\ c \in Served
    BY <1>2 DEF Served, Holding
  <2>2. IsFiniteSet(Served') /\ Cardinality(Served') = Cardinality(Served) - 1
    BY <2>1, FS_RemoveElement
  <2>3. Cardinality(Served') \in Nat
    BY <2>2, FS_CardinalityType
  <2> QED BY <1>2, <2>2, <2>3 DEF ExchangeTypeOK
<1>3. CASE Holding(c)' <=> Holding(c)
  <2>1. Served' = Served
    BY <1>3 DEF Served, Holding
  <2> QED BY <1>3, <2>1 DEF ExchangeTypeOK
<1> QED BY <1>1, <1>2, <1>3

\* What holds of one link, given what was applied and how the drain came out.
LinkHolds(l, did, drain) ==
    /\ l.connected => l.sends \in RuntimeRequests
    /\ ~l.connected => l.peer = "NONE" /\ l.arrived = "NOTHING" /\ l.reply = NoReply
    /\ l.exit = "CONNECT_FAILED" => ~l.connected
    /\ l.exit = "RESULT" => l.reply.ok /\ l.arrived = "WHOLE"
    /\ l.arrived # "NOTHING" => l.peer \in {"ENDED", "CLOSED"}
    /\ l.peer = "READING" => l.sends.kind = "LOGS_READ"
    /\ l.reply.ok /\ l.sends.kind \in Mutations =>
          l.reply.revision \in DOMAIN did /\ did[l.reply.revision] = l.sends
    /\ l.reply.outcome = "DRAINED" => drain = "DRAINED"

LEMMA EveryLinkHolds ==
    ASSUME ExchangeInv, NEW c \in Clients
    PROVE  link[c] \in Links /\ LinkHolds(link[c], applied, outcome)
BY DEF ExchangeInv, ExchangeTypeOK, LinkInv, LinkHolds

\* The types of the core alone.
CoreTypes ==
    /\ revision \in Nat /\ manual \in Nat /\ maintenance \in Nat
    /\ current \in RuntimeRequests \cup {NoCommand}
    /\ applied \in Seq(RuntimeRequests)
    /\ last \in [command : RuntimeRequests \cup {NoCommand}, outcome : Terminals, revision : Nat]

\* What was applied stays applied, and a drained runtime stays drained.
Grows ==
    /\ \A i \in DOMAIN applied : i \in DOMAIN applied' /\ applied'[i] = applied[i]
    /\ outcome = "DRAINED" => outcome' = "DRAINED"

LEMMA LinksStay ==
    ASSUME ExchangeInv, NEW c \in Clients, Grows
    PROVE  LinkHolds(link[c], applied', outcome')
<1>1. LinkHolds(link[c], applied, outcome)
  BY EveryLinkHolds
<1> QED BY <1>1 DEF LinkHolds, Grows

\* A step that changes one link, to one that holds.
LEMMA LinkMoves ==
    ASSUME ExchangeInv, NEW c \in Clients, NEW l \in Links, LinkHolds(l, applied', outcome'),
           CoreTypes', CoreInv', Grows, link' = [link EXCEPT ![c] = l], UNCHANGED alive,
           \/ /\ link[c].peer \notin Accepted /\ l.peer \in Accepted
              /\ open' = open + 1 /\ open < MaxConnections
           \/ link[c].peer \in Accepted /\ l.peer \notin Accepted /\ open' = open - 1
           \/ (l.peer \in Accepted <=> link[c].peer \in Accepted) /\ open' = open
    PROVE  ExchangeInv'
<1>1. /\ \A d \in Clients \ {c} : link'[d] = link[d]
      /\ link'[c] = l
      /\ link' \in [Clients -> Links]
  BY DEF ExchangeInv, ExchangeTypeOK
<1>2. SlotInv' /\ open' \in Nat
  BY <1>1, SlotsMove DEF Holding
<1>3. ExchangeTypeOK'
  BY <1>1, <1>2 DEF ExchangeInv, ExchangeTypeOK, CoreTypes
<1>4. \A d \in Clients : LinkHolds(link'[d], applied', outcome')
  BY <1>1, LinksStay
<1>5. LinkInv'
  BY <1>4 DEF LinkInv, LinkHolds
<1> QED BY <1>2, <1>3, <1>5 DEF ExchangeInv

\* When the core does not move.
LEMMA CoreStays ==
    ASSUME ExchangeInv, UNCHANGED controlVars
    PROVE  CoreTypes' /\ CoreInv' /\ Grows
BY DEF ExchangeInv, ExchangeTypeOK, CoreTypes, CoreInv, Quiet, Grows

-----------------------------------------------------------------------------
(* The client. *)

LEMMA Connects == ASSUME ExchangeInv, NEW c \in Clients, Connect(c) PROVE ExchangeInv'
<1>1. PICK cmd \in Requests[c] :
        link' = [link EXCEPT ![c].connected = TRUE, ![c].sends = Sent(c, cmd)]
  BY DEF Connect
<1>2. Sent(c, cmd) \in RuntimeRequests
  <2>1. cmd \in RuntimeRequests /\ Inquirer \in Clients
    BY ExchangeAssumption
  <2>2. link[Inquirer].reply.revision \in Nat
    BY <2>1 DEF ExchangeInv, ExchangeTypeOK, Links, Replied
  <2> QED BY <2>1, <2>2 DEF Sent, RuntimeRequests
<1> DEFINE l == [link[c] EXCEPT !.connected = TRUE, !.sends = Sent(c, cmd)]
<1>3. link[c] \in Links /\ LinkHolds(link[c], applied, outcome) /\ ~link[c].connected /\ Pending(c)
  BY EveryLinkHolds DEF Connect
<1>4. /\ l \in Links /\ l.connected /\ l.sends \in RuntimeRequests /\ l.exit = "NONE"
      /\ l.peer = "NONE" /\ l.reply = NoReply /\ l.arrived = "NOTHING"
  BY <1>2, <1>3 DEF Links, LinkHolds, Pending
<1>5. LinkHolds(l, applied, outcome)
  BY <1>4 DEF LinkHolds, NoReply, Terminals
<1>6. link' = [link EXCEPT ![c] = l] /\ UNCHANGED <<open, alive, controlVars>>
  BY <1>1 DEF Connect
<1>7. link[c].peer \notin Accepted /\ l.peer \notin Accepted
  BY <1>3, <1>4 DEF LinkHolds, Accepted
<1> QED
  <2> HIDE DEF l
  <2> QED BY <1>4, <1>5, <1>6, <1>7, CoreStays, LinkMoves

LEMMA ClientStops ==
    ASSUME ExchangeInv, NEW c \in Clients, ClientEnds(c) \/ ClientDeadline(c)
    PROVE  ExchangeInv'
<1>1. link[c] \in Links /\ LinkHolds(link[c], applied, outcome)
  BY EveryLinkHolds
<1>2. PICK how \in Exits :
        /\ link' = [link EXCEPT ![c] = [link[c] EXCEPT !.exit = how]]
        /\ how = "RESULT" => link[c].reply.ok /\ link[c].arrived = "WHOLE"
        /\ how = "CONNECT_FAILED" => ~link[c].connected
  <2>1. PICK eof \in BOOLEAN, late \in BOOLEAN : Terminates(c, eof, late)
    BY DEF ClientEnds, ClientDeadline
  <2> DEFINE how == CASE link[c].arrived = "WHOLE" /\ eof ->
                IF link[c].reply.ok THEN "RESULT" ELSE "REFUSED"
          [] link[c].arrived # "NOTHING" /\ ~(link[c].arrived = "WHOLE" /\ eof) ->
                "RESPONSE_PARTIAL"
          [] OTHER -> IF late THEN "TIMEOUT" ELSE WithoutAnswer(link[c].connected)
  <2>2. /\ how \in Exits /\ (how = "RESULT" => link[c].reply.ok /\ link[c].arrived = "WHOLE")
        /\ how = "CONNECT_FAILED" => ~link[c].connected
    BY DEF WithoutAnswer, Exits
  <2>3. link' = [link EXCEPT ![c] = [link[c] EXCEPT !.exit = how]]
    BY <2>1 DEF Terminates
  <2> HIDE DEF how
  <2> QED BY <2>2, <2>3
<1> DEFINE l == [link[c] EXCEPT !.exit = how]
<1>3. l \in Links
  BY <1>1 DEF Links
<1>4. /\ l.exit = how /\ l.connected = link[c].connected /\ l.sends = link[c].sends
      /\ l.peer = link[c].peer /\ l.arrived = link[c].arrived /\ l.reply = link[c].reply
  BY <1>1 DEF Links
<1>5. UNCHANGED <<open, alive, controlVars>>
  BY DEF ClientEnds, ClientDeadline
<1> HIDE DEF l
<1>6. LinkHolds(l, applied, outcome)
  BY <1>1, <1>2, <1>4 DEF LinkHolds
<1> QED BY <1>2, <1>3, <1>4, <1>5, <1>6, CoreStays, LinkMoves DEF l

-----------------------------------------------------------------------------
(* The server. *)

\* A step of the server's end that changes its stage, and perhaps what arrived.
LEMMA PeerMoves ==
    ASSUME ExchangeInv, NEW c \in Clients, NEW l \in Links,
           link' = [link EXCEPT ![c] = l], UNCHANGED <<alive, controlVars>>,
           l.sends = link[c].sends, l.exit = link[c].exit, l.reply = link[c].reply,
           l.connected = link[c].connected, link[c].connected,
           link[c].exit = "RESULT" => l.arrived = link[c].arrived,
           l.arrived # "NOTHING" => l.peer \in {"ENDED", "CLOSED"},
           l.peer = "READING" => link[c].sends.kind = "LOGS_READ",
           \/ /\ link[c].peer \notin Accepted /\ l.peer \in Accepted
              /\ open' = open + 1 /\ open < MaxConnections
           \/ link[c].peer \in Accepted /\ l.peer \notin Accepted /\ open' = open - 1
           \/ (l.peer \in Accepted <=> link[c].peer \in Accepted) /\ open' = open
    PROVE  ExchangeInv'
<1>1. LinkHolds(link[c], applied, outcome)
  BY EveryLinkHolds
<1>2. LinkHolds(l, applied, outcome)
  BY <1>1 DEF LinkHolds
<1> QED BY <1>2, CoreStays, LinkMoves

\* Who is being served is connected.
LEMMA ServedIsConnected ==
    ASSUME ExchangeInv, NEW c \in Clients, link[c].peer # "NONE"
    PROVE  link[c].connected /\ link[c].sends \in RuntimeRequests /\ link[c] \in Links
BY EveryLinkHolds DEF LinkHolds

LEMMA Plain ==
    ASSUME ExchangeInv, NEW c \in Clients,
           Accept(c) \/ WriteOneResponse(c) \/ FatalDestroy(c) \/ SocketCloses(c)
    PROVE  ExchangeInv'
<1>1. link[c] \in Links /\ link[c].connected
  BY EveryLinkHolds, ServedIsConnected
     DEF Accept, WriteOneResponse, FatalDestroy, SocketCloses, Accepted
<1>2. UNCHANGED <<alive, controlVars>>
  BY DEF Accept, WriteOneResponse, FatalDestroy, SocketCloses
<1>6. /\ link[c].exit = "RESULT" => link[c].arrived = "WHOLE"
      /\ link[c].arrived # "NOTHING" => link[c].peer \in {"ENDED", "CLOSED"}
  BY EveryLinkHolds DEF LinkHolds
<1>3. CASE Accept(c)
  <2>1. PICK p \in {"CLOSED", "ACQUIRING"} :
          /\ link' = [link EXCEPT ![c] = [link[c] EXCEPT !.peer = p]]
          /\ link[c].peer = "NONE"
          /\ \/ p = "CLOSED" /\ open' = open
             \/ p = "ACQUIRING" /\ open' = open + 1 /\ ~(open >= MaxConnections)
    BY <1>3 DEF Accept
  <2>2. open < MaxConnections \/ open >= MaxConnections
    BY ExchangeAssumption DEF ExchangeInv, ExchangeTypeOK
  <2> DEFINE l == [link[c] EXCEPT !.peer = p]
  <2>3. /\ l \in Links /\ l.peer = p /\ l.sends = link[c].sends /\ l.exit = link[c].exit
        /\ l.reply = link[c].reply /\ l.connected = link[c].connected
        /\ l.arrived = link[c].arrived
    BY <1>1 DEF Links, Accepted
  <2> HIDE DEF l
  <2> QED BY <1>1, <1>2, <1>6, <2>1, <2>2, <2>3, PeerMoves DEF Accepted, l
<1>4. CASE WriteOneResponse(c)
  <2>1. PICK got \in {"NOTHING", "PART", "WHOLE"} :
          /\ link' = [link EXCEPT ![c] = [link[c] EXCEPT !.peer = "ENDED", !.arrived = got]]
          /\ link[c].peer = "WRITING" /\ open' = open
    BY <1>4 DEF WriteOneResponse
  <2> DEFINE l == [link[c] EXCEPT !.peer = "ENDED", !.arrived = got]
  <2>3. /\ l \in Links /\ l.peer = "ENDED" /\ l.sends = link[c].sends /\ l.exit = link[c].exit
        /\ l.reply = link[c].reply /\ l.connected = link[c].connected
        /\ l.arrived = got
    BY <1>1 DEF Links, Accepted
  <2> HIDE DEF l
  <2> QED BY <1>1, <1>2, <1>6, <2>1, <2>3, PeerMoves DEF Accepted, l
<1>5. CASE FatalDestroy(c) \/ SocketCloses(c)
  <2>1. PICK p \in {"ENDED", "CLOSED"} :
          /\ link' = [link EXCEPT ![c] = [link[c] EXCEPT !.peer = p]]
          /\ link[c].peer \in Accepted
          /\ \/ p = "ENDED" /\ open' = open
             \/ p = "CLOSED" /\ open' = open - 1
    BY <1>5 DEF FatalDestroy, SocketCloses, Accepted
  <2> DEFINE l == [link[c] EXCEPT !.peer = p]
  <2>3. /\ l \in Links /\ l.peer = p /\ l.sends = link[c].sends /\ l.exit = link[c].exit
        /\ l.reply = link[c].reply /\ l.connected = link[c].connected
        /\ l.arrived = link[c].arrived
    BY <1>1 DEF Links, Accepted
  <2> HIDE DEF l
  <2> QED BY <1>1, <1>2, <1>6, <2>1, <2>3, PeerMoves DEF Accepted, l
<1> QED BY <1>3, <1>4, <1>5

\* An answer is held to what was applied, and to how the drain came out.
LEMMA AnswerMoves ==
    ASSUME ExchangeInv, NEW c \in Clients, NEW ok \in BOOLEAN,
           NEW kind \in Terminals \cup Refusals \cup {"STATUS", "LOGS_READ"}, NEW rev \in Nat,
           Replies(c, ok, kind, rev), UNCHANGED <<open, alive>>,
           link[c].peer \in Accepted \ {"ENDED"},
           CoreTypes', CoreInv', Grows,
           ok /\ link[c].sends.kind \in Mutations =>
              rev \in DOMAIN applied' /\ applied'[rev] = link[c].sends,
           kind = "DRAINED" => outcome' = "DRAINED"
    PROVE  ExchangeInv'
<1>1. link[c] \in Links /\ LinkHolds(link[c], applied', outcome')
  BY EveryLinkHolds, LinksStay
<1>2. link[c].connected /\ link[c].sends \in RuntimeRequests
  BY ServedIsConnected DEF Accepted
<1> DEFINE rep == [ok |-> ok, outcome |-> kind, revision |-> rev, quiet |-> Quiet]
           l == [link[c] EXCEPT !.peer = "WRITING", !.reply = rep]
<1>3. rep \in Replied /\ rep.ok = ok /\ rep.outcome = kind /\ rep.revision = rev
  BY DEF Replied, Quiet
<1>4. link' = [link EXCEPT ![c] = l]
  BY DEF Replies
<1> HIDE DEF rep
<1>5. /\ l \in Links /\ l.peer = "WRITING" /\ l.sends = link[c].sends /\ l.exit = link[c].exit
      /\ l.reply = rep /\ l.connected = link[c].connected /\ l.arrived = link[c].arrived
  BY <1>1, <1>3 DEF Links, Accepted
<1> HIDE DEF l
<1>6. LinkHolds(l, applied', outcome')
  BY <1>1, <1>2, <1>3, <1>5 DEF LinkHolds, Accepted
<1> QED BY <1>4, <1>5, <1>6, LinkMoves DEF Accepted

-----------------------------------------------------------------------------
(* The control core. *)

LEMMA Verdicts ==
    ASSUME NEW c \in RuntimeRequests, c.kind \in Mutations
    PROVE  /\ Verdict(c) \in Refusals \cup {"APPLY", "JOIN", "REPLAY"}
           /\ Verdict(c) = "APPLY" =>
                 current = NoCommand /\ (c.kind = "DRAIN" => maintenance = 0)
           /\ Verdict(c) = "REPLAY" => last.command = c
<1>1. /\ StateVerdict(c) \in Refusals \cup {"APPLY"}
      /\ StateVerdict(c) = "APPLY" /\ c.kind = "DRAIN" => maintenance = 0
  <2>1. CASE c.kind = "HOLD"
    BY <2>1 DEF StateVerdict, Refusals
  <2>2. CASE c.kind = "RELEASE"
    BY <2>2 DEF StateVerdict, Refusals
  <2>3. CASE c.kind = "DRAIN"
    BY <2>3 DEF StateVerdict, Refusals
  <2> QED BY <2>1, <2>2, <2>3 DEF Mutations
<1> QED BY <1>1 DEF Verdict, Refusals

\* A command that applies is the last one that was applied.
LEMMA CommandApplies ==
    ASSUME ExchangeInv, NEW c \in RuntimeRequests,
           Hold(c) \/ Release(c) \/ \E settles \in BOOLEAN : Drain(c, settles)
    PROVE  /\ CoreTypes' /\ CoreInv' /\ Grows
           /\ revision' \in DOMAIN applied' /\ applied'[revision'] = c
           /\ Hold(c) \/ Release(c) => last'.outcome \in {"HELD", "RELEASED"}
<1>1. c # NoCommand /\ c.kind \in Mutations /\ Verdict(c) = "APPLY"
  BY ExchangeAssumption DEF Hold, Release, Drain, Applies, Mutations
<1>2. current = NoCommand /\ (c.kind = "DRAIN" => maintenance = 0)
  BY <1>1, Verdicts
<1>3. /\ revision \in Nat /\ manual \in Nat /\ maintenance \in Nat
      /\ applied \in Seq(RuntimeRequests) /\ revision = Len(applied)
      /\ last \in [command : RuntimeRequests \cup {NoCommand}, outcome : Terminals,
                   revision : Nat]
  BY DEF ExchangeInv, ExchangeTypeOK, CoreInv
<1>4. revision' = revision + 1 /\ applied' = Append(applied, c)
  BY DEF Hold, Release, Drain, Bump
<1>5. /\ applied' \in Seq(RuntimeRequests) /\ revision' = Len(applied')
      /\ revision' \in DOMAIN applied' /\ applied'[revision'] = c
      /\ \A i \in DOMAIN applied : i \in DOMAIN applied' /\ applied'[i] = applied[i]
  BY <1>3, <1>4
<1>6. CASE Hold(c) \/ Release(c)
  <2>1. PICK how \in {"HELD", "RELEASED"} :
          /\ last' = [command |-> c, outcome |-> how, revision |-> revision + 1]
          /\ manual' \in {0, revision + 1}
          /\ UNCHANGED <<current, maintenance, outcome, persistence, reads>>
    BY <1>6 DEF Hold, Release, Terminal
  <2>2. /\ last'.command = c /\ last'.outcome = how /\ last'.revision = revision'
        /\ last' \in [command : RuntimeRequests \cup {NoCommand}, outcome : Terminals,
                      revision : Nat]
    BY <1>3, <1>4, <2>1 DEF Terminals
  <2>3. CoreTypes' /\ Grows
    BY <1>2, <1>3, <1>4, <1>5, <2>1, <2>2 DEF CoreTypes, Grows
  <2>4. CoreInv'
    BY <1>1, <1>2, <1>5, <2>1, <2>2 DEF CoreInv, ExchangeInv, Quiet
  <2> QED BY <1>5, <2>2, <2>3, <2>4
<1>7. CASE \E settles \in BOOLEAN : Drain(c, settles)
  <2>1. /\ maintenance' = revision + 1 /\ manual' = manual
        /\ outcome' \in {"INTERNAL_UNAVAILABLE", "DRAINED", "WAITING"}
        /\ outcome' = "DRAINED" => Quiet
        /\ UNCHANGED <<persistence, reads>> /\ c.kind = "DRAIN"
    BY <1>7 DEF Drain, OutcomeAtStart
  <2>2. \/ outcome' = "WAITING" /\ current' = c /\ last' = last
        \/ /\ outcome' # "WAITING" /\ current' = NoCommand
           /\ last' = [command |-> c, outcome |-> outcome', revision |-> revision + 1]
    BY <1>7 DEF Drain, Terminal
  <2>3. outcome = "NONE"
    BY <1>2, <2>1 DEF ExchangeInv, CoreInv
  <2>4. CoreTypes'
    BY <1>3, <1>4, <1>5, <2>1, <2>2 DEF CoreTypes, Terminals
  <2>5. CoreInv'
    <3>1. CASE outcome' = "WAITING"
      BY <1>1, <1>3, <1>5, <2>1, <2>2, <2>3, <3>1 DEF CoreInv, ExchangeInv
    <3>2. CASE outcome' # "WAITING"
      BY <1>1, <1>3, <1>4, <1>5, <2>1, <2>2, <3>2 DEF CoreInv, ExchangeInv, Quiet
    <3> QED BY <3>1, <3>2
  <2>6. Grows /\ ~Hold(c) /\ ~Release(c)
    BY <1>5, <2>1, <2>3 DEF Grows, Hold, Release
  <2> QED BY <1>5, <2>4, <2>5, <2>6
<1> QED BY <1>6, <1>7

\* A connection that goes on being watched or read, whatever the core does.
LEMMA StageMoves ==
    ASSUME ExchangeInv, NEW c \in Clients, NEW p \in {"OBSERVING", "READING"},
           link' = [link EXCEPT ![c].peer = p], UNCHANGED <<open, alive>>,
           link[c].peer = "ACQUIRING", CoreTypes', CoreInv', Grows,
           p = "READING" => link[c].sends.kind = "LOGS_READ"
    PROVE  ExchangeInv'
<1>1. link[c] \in Links /\ LinkHolds(link[c], applied', outcome') /\ link[c].connected
  BY EveryLinkHolds, LinksStay, ServedIsConnected
<1> DEFINE l == [link[c] EXCEPT !.peer = p]
<1>2. /\ l \in Links /\ l.peer = p /\ l.sends = link[c].sends /\ l.exit = link[c].exit
      /\ l.reply = link[c].reply /\ l.connected = link[c].connected
      /\ l.arrived = link[c].arrived /\ link' = [link EXCEPT ![c] = l]
  BY <1>1 DEF Links, Accepted
<1> HIDE DEF l
<1>3. LinkHolds(l, applied', outcome')
  BY <1>1, <1>2 DEF LinkHolds
<1> QED BY <1>2, <1>3, LinkMoves DEF Accepted

LEMMA Dispatches == ASSUME ExchangeInv, NEW c \in Clients, Dispatch(c) PROVE ExchangeInv'
<1> DEFINE cmd == link[c].sends
<1>1. cmd \in RuntimeRequests /\ link[c].peer = "ACQUIRING" /\ UNCHANGED <<open, alive>>
  BY ServedIsConnected DEF Dispatch
<1>2. revision \in Nat /\ last.revision \in Nat /\ last.outcome \in Terminals
  BY DEF ExchangeInv, ExchangeTypeOK
<1>3. CASE cmd.kind = "STATUS" /\ Replies(c, TRUE, "STATUS", revision) /\ UNCHANGED controlVars
  BY <1>1, <1>2, <1>3, CoreStays, AnswerMoves DEF Accepted, Mutations
<1>4. CASE /\ cmd.kind = "LOGS_READ" /\ link' = [link EXCEPT ![c].peer = "READING"]
           /\ UNCHANGED controlVars
  BY <1>1, <1>4, CoreStays, StageMoves
<1>5. CASE cmd.kind \in Mutations /\ Verdict(cmd) = "REPLAY" /\ RepliesTerminal(c)
           /\ UNCHANGED controlVars
  <2>1. last.command = cmd /\ cmd # NoCommand
    BY <1>1, <1>5, Verdicts, ExchangeAssumption
  <2>2. /\ last.revision \in DOMAIN applied /\ applied[last.revision] = cmd
        /\ last.outcome = "DRAINED" => outcome = "DRAINED"
    BY <2>1 DEF ExchangeInv, CoreInv
  <2>3. Replies(c, last.outcome # "INTERNAL_UNAVAILABLE", last.outcome, last.revision)
    BY <1>5 DEF RepliesTerminal
  <2>4. (last.outcome # "INTERNAL_UNAVAILABLE") \in BOOLEAN
    OBVIOUS
  <2> QED BY <1>1, <1>2, <1>5, <2>2, <2>3, <2>4, CoreStays, AnswerMoves DEF Accepted
<1>6. CASE \/ /\ cmd.kind \in Mutations /\ Verdict(cmd) = "JOIN"
              /\ link' = [link EXCEPT ![c].peer = "OBSERVING"] /\ UNCHANGED controlVars
           \/ /\ \E settles \in BOOLEAN : Drain(cmd, settles)
              /\ link' = [link EXCEPT ![c].peer = "OBSERVING"]
  BY <1>1, <1>6, CoreStays, CommandApplies, StageMoves
<1>7. CASE /\ cmd.kind \in Mutations /\ Verdict(cmd) \notin {"APPLY", "REPLAY", "JOIN"}
           /\ Replies(c, FALSE, Verdict(cmd), 0) /\ UNCHANGED controlVars
  <2>1. Verdict(cmd) \in Refusals /\ Verdict(cmd) # "DRAINED"
    BY <1>1, <1>7, Verdicts DEF Refusals
  <2> QED BY <1>1, <1>7, <2>1, CoreStays, AnswerMoves DEF Accepted
<1>8. CASE (Hold(cmd) \/ Release(cmd)) /\ Replies(c, TRUE, last'.outcome, revision')
  <2>1. /\ CoreTypes' /\ CoreInv' /\ Grows
        /\ revision' \in DOMAIN applied' /\ applied'[revision'] = cmd
        /\ last'.outcome \in {"HELD", "RELEASED"} /\ revision' \in Nat
    BY <1>1, <1>8, CommandApplies DEF CoreTypes
  <2>2. last'.outcome \in Terminals /\ last'.outcome # "DRAINED"
    BY <2>1 DEF Terminals
  <2> QED BY <1>1, <1>8, <2>1, <2>2, AnswerMoves DEF Accepted
<1> QED BY <1>1, <1>3, <1>4, <1>5, <1>6, <1>7, <1>8 DEF Dispatch

LEMMA LaterAnswers ==
    ASSUME ExchangeInv, NEW c \in Clients,
           RefusesRequest(c) \/ DrainAnswered(c) \/ LogsAnswered(c)
    PROVE  ExchangeInv'
<1>1. CASE RefusesRequest(c)
  BY <1>1, CoreStays, AnswerMoves DEF RefusesRequest, Accepted, Refusals
<1>2. CASE DrainAnswered(c)
  <2>1. /\ Replies(c, last.outcome # "INTERNAL_UNAVAILABLE", last.outcome, last.revision)
        /\ link[c].peer = "OBSERVING" /\ last.command = link[c].sends
        /\ UNCHANGED <<open, alive, controlVars>>
    BY <1>2 DEF DrainAnswered, RepliesTerminal
  <2>2. link[c].sends # NoCommand
    BY <2>1, ServedIsConnected, ExchangeAssumption
  <2>3. /\ last.revision \in DOMAIN applied /\ applied[last.revision] = link[c].sends
        /\ last.outcome = "DRAINED" => outcome = "DRAINED"
        /\ last.revision \in Nat /\ last.outcome \in Terminals
    BY <2>1, <2>2 DEF ExchangeInv, ExchangeTypeOK, CoreInv
  <2>4. (last.outcome # "INTERNAL_UNAVAILABLE") \in BOOLEAN
    OBVIOUS
  <2> QED BY <2>1, <2>3, <2>4, CoreStays, AnswerMoves DEF Accepted
<1>3. CASE LogsAnswered(c)
  <2>1. PICK ok \in BOOLEAN, kind \in {"LOGS_READ", "LOG_READ_UNAVAILABLE"} :
          Replies(c, ok, kind, revision)
    BY <1>3 DEF LogsAnswered
  <2>2. /\ link[c].peer = "READING" /\ UNCHANGED <<open, alive, controlVars>>
    BY <1>3 DEF LogsAnswered
  <2>3. link[c].sends.kind = "LOGS_READ"
    BY <2>2, EveryLinkHolds DEF LinkHolds
  <2>4. revision \in Nat /\ kind # "DRAINED"
    BY <2>1 DEF ExchangeInv, ExchangeTypeOK
  <2> QED BY <2>1, <2>2, <2>3, <2>4, CoreStays, AnswerMoves DEF Accepted, Refusals, Mutations
<1> QED BY <1>1, <1>2, <1>3

-----------------------------------------------------------------------------
(* The runtime. *)

LEMMA RuntimeMoves ==
    ASSUME ExchangeInv, UNCHANGED <<link, open, alive>>, CoreTypes', CoreInv', Grows
    PROVE  ExchangeInv'
<1>1. ExchangeTypeOK'
  BY DEF ExchangeInv, ExchangeTypeOK, CoreTypes
<1>2. LinkInv'
  BY LinksStay DEF LinkInv, LinkHolds
<1>3. SlotInv'
  BY DEF ExchangeInv, SlotInv, Served, Holding
<1> QED BY <1>1, <1>2, <1>3 DEF ExchangeInv

LEMMA RuntimeGoesOn ==
    ASSUME ExchangeInv, ObserveDrain \/ (\E h \in Holders : Work(h)) PROVE ExchangeInv'
<1>1. CASE ObserveDrain
  <2>1. PICK result \in {"DRAINED", "NOT_DRAINED", "INTERNAL_UNAVAILABLE"} :
          Finish(result) /\ (result = "DRAINED" => Quiet)
    BY <1>1 DEF ObserveDrain, DrainObserved, DrainExpires, DrainAborts
  <2>2. /\ outcome = "WAITING" /\ outcome' = result /\ current' = NoCommand
        /\ last' = [command |-> current, outcome |-> result, revision |-> revision]
        /\ UNCHANGED <<revision, applied, manual, maintenance, persistence, reads>>
    BY <2>1 DEF Finish, Terminal
  <2>3. current # NoCommand /\ current \in RuntimeRequests /\ revision \in Nat
    BY <2>2 DEF ExchangeInv, ExchangeTypeOK, CoreInv
  <2>4. CoreTypes' /\ Grows
    BY <2>2, <2>3 DEF ExchangeInv, ExchangeTypeOK, CoreTypes, Grows, Terminals
  <2>5. CoreInv'
    BY <2>1, <2>2, <2>3 DEF ExchangeInv, CoreInv, Quiet
  <2> QED BY <1>1, <2>4, <2>5, RuntimeMoves DEF ObserveDrain
<1>2. ASSUME NEW h \in Holders, Work(h) PROVE ExchangeInv'
  <2>1. /\ UNCHANGED <<link, open, alive, replayVars, holdVars, reads>>
        /\ \/ maintenance = 0
           \/ persistence' = persistence \ {h}
    BY <1>2 DEF Work, MayIssue
  <2>2. CoreTypes' /\ Grows
    BY <2>1 DEF ExchangeInv, ExchangeTypeOK, CoreTypes, Grows
  <2>3. CoreInv'
    BY <2>1 DEF ExchangeInv, CoreInv, Quiet
  <2> QED BY <2>1, <2>2, <2>3, RuntimeMoves
<1> QED BY <1>1, <1>2

LEMMA RuntimeEnds == ASSUME ExchangeInv, RuntimeDies PROVE ExchangeInv'
<1>1. /\ alive' = FALSE /\ open' = 0 /\ UNCHANGED controlVars
      /\ link' = [c \in Clients |->
                     IF Holding(c) THEN [link[c] EXCEPT !.peer = "CLOSED"] ELSE link[c]]
  BY DEF RuntimeDies
<1>2. ASSUME NEW c \in Clients
      PROVE  /\ link'[c] \in Links /\ LinkHolds(link'[c], applied, outcome)
             /\ link'[c].peer \notin Accepted
  <2>1. link[c] \in Links /\ LinkHolds(link[c], applied, outcome)
    BY EveryLinkHolds
  <2>2. CASE Holding(c)
    <3> DEFINE l == [link[c] EXCEPT !.peer = "CLOSED"]
    <3>1. /\ l \in Links /\ l.peer = "CLOSED" /\ l.sends = link[c].sends
          /\ l.exit = link[c].exit /\ l.reply = link[c].reply
          /\ l.connected = link[c].connected /\ l.arrived = link[c].arrived
      BY <2>1 DEF Links
    <3>2. link[c].connected
      BY <2>2, ServedIsConnected DEF Holding, Accepted
    <3>3. link'[c] = l
      BY <1>1, <2>2
    <3> HIDE DEF l
    <3> QED BY <2>1, <3>1, <3>2, <3>3 DEF LinkHolds, Accepted
  <2>3. CASE ~Holding(c)
    BY <1>1, <2>1, <2>3 DEF Holding
  <2> QED BY <2>2, <2>3
<1>3. Served' = {}
  BY <1>2 DEF Served, Holding
<1>4. SlotInv'
  BY <1>1, <1>3, FS_EmptySet, ExchangeAssumption DEF SlotInv
<1>5. link' \in [Clients -> Links]
  BY <1>1, <1>2
<1>6. ExchangeTypeOK' /\ CoreInv'
  BY <1>1, <1>5 DEF ExchangeInv, ExchangeTypeOK, CoreInv, Quiet
<1>7. LinkInv'
  BY <1>1, <1>2 DEF LinkInv, LinkHolds
<1> QED BY <1>4, <1>6, <1>7 DEF ExchangeInv

\* The operator can rely on the exit code, and the slots of the control plane
\* neither leak nor double, for any number of clients, requests and holders.
THEOREM ExitsAreHonest == ExchangeSpec => []ExchangesAreHonest
<1>1. ASSUME ExchangeInv, [ExchangeNext]_exchangeVars PROVE ExchangeInv'
  <2>1. CASE ExchangeNext
    BY <1>1, <2>1, Connects, ClientStops, Plain, Dispatches, LaterAnswers, RuntimeGoesOn, RuntimeEnds
       DEF ExchangeNext
  <2>2. CASE UNCHANGED exchangeVars
    <3>1. UNCHANGED <<link, open, alive, controlVars>>
      BY <2>2 DEF exchangeVars
    <3> QED BY <1>1, <3>1, CoreStays, RuntimeMoves
  <2> QED BY <1>1, <2>1, <2>2
<1>2. ExchangeInv => ExchangesAreHonest
  <2> SUFFICES ASSUME ExchangeInv PROVE ExchangesAreHonest
    OBVIOUS
  <2>1. ASSUME NEW c \in Clients PROVE
        /\ link[c].exit = "RESULT" /\ link[c].sends.kind \in Mutations =>
              /\ link[c].reply.revision \in DOMAIN applied
              /\ applied[link[c].reply.revision] = link[c].sends
        /\ link[c].exit = "CONNECT_FAILED" => link[c].peer = "NONE"
    BY EveryLinkHolds DEF LinkHolds
  <2>2. ReportsDrained => outcome = "DRAINED" /\ Quiet
    BY EveryLinkHolds, ExchangeAssumption DEF LinkHolds, ReportsDrained, ExchangeInv, CoreInv
  <2>3. SlotsAreCounted
    BY DEF ExchangeInv, SlotInv, SlotsAreCounted, Served
  <2> QED BY <2>1, <2>2, <2>3 DEF ExchangesAreHonest, ExitCodesAreTrue
<1> QED BY <1>1, <1>2, ExchangeInitInv, PTL DEF ExchangeSpec

-----------------------------------------------------------------------------
(* Listings.  The rank of a row is the number of rows above it; ranks leave no  *)
(* gap, so a page is what has a rank below its size, and the row after it tells *)
(* whether there is more.  The cursor stays below every page that was shown,    *)
(* and a row that is known to a dataset keeps its place.                        *)

Keys == [at : Nat, id : Nat]

Rank(M, k) == Cardinality({l \in M : Below(k, l)})

LEMMA LeastOf ==
    ASSUME NEW T \in SUBSET Nat, T # {}
    PROVE  \E n \in T : \A m \in T : n <= m
<1>1. PICK n \in T : \A m \in T : <<m, n>> \notin OpToRel(<, Nat)
  BY NatLessThanWellFounded, WFMin
<1>2. ASSUME NEW m \in T PROVE n <= m
  <2>1. <<m, n>> \notin OpToRel(<, Nat)
    BY <1>1
  <2>2. ~(m < n)
    BY <2>1 DEF OpToRel
  <2> QED BY <2>2
<1> QED BY <1>2

LEMMA BelowIsTotal ==
    ASSUME NEW k \in Keys, NEW l \in Keys, NEW m \in Keys
    PROVE  /\ ~Below(k, k)
           /\ Below(k, l) => ~Below(l, k)
           /\ k = l \/ Below(k, l) \/ Below(l, k)
           /\ Below(k, l) /\ Below(l, m) => Below(k, m)
BY DEF Below, Keys

LEMMA RankType ==
    ASSUME NEW M \in SUBSET Keys, IsFiniteSet(M), NEW k \in Keys
    PROVE  /\ Rank(M, k) \in Nat
           /\ IsFiniteSet({l \in M : Below(k, l)})
BY FS_Subset, FS_CardinalityType DEF Rank

LEMMA RankFollows ==
    ASSUME NEW M \in SUBSET Keys, IsFiniteSet(M), NEW k \in M, NEW l \in M, Below(k, l)
    PROVE  Rank(M, l) < Rank(M, k)
<1> DEFINE U(x) == {y \in M : Below(x, y)}
<1>1. U(l) \subseteq U(k) /\ l \in U(k) \ U(l)
  BY BelowIsTotal
<1>2. U(l) # U(k)
  BY <1>1
<1>3. IsFiniteSet(U(k)) /\ Rank(M, l) \in Nat /\ Rank(M, k) \in Nat
  BY RankType
<1>4. Cardinality(U(l)) <= Cardinality(U(k)) /\ Cardinality(U(l)) # Cardinality(U(k))
  BY <1>1, <1>2, <1>3, FS_Subset
<1> QED BY <1>3, <1>4 DEF Rank

\* Ranks leave no gap.
LEMMA RankExact ==
    ASSUME NEW M \in SUBSET Keys, IsFiniteSet(M), NEW n \in Nat,
           \E k \in M : Rank(M, k) >= n
    PROVE  \E k \in M : Rank(M, k) = n
<1> DEFINE T == {r \in Nat : r >= n /\ \E k \in M : Rank(M, k) = r}
<1>1. T # {} /\ T \in SUBSET Nat
  BY RankType
<1>2. PICK r \in T : \A s \in T : r <= s
  BY <1>1, LeastOf
<1>3. PICK m \in M : Rank(M, m) = r
  BY <1>2
<1> DEFINE U == {l \in M : Below(m, l)}
<1>4. ASSUME NEW l \in U PROVE Rank(M, l) \in 0..(n - 1)
  <2>1. Rank(M, l) < r /\ Rank(M, l) \in Nat
    BY <1>3, RankFollows, RankType
  <2>2. Rank(M, l) \notin T
    BY <1>2, <2>1
  <2> QED BY <2>1, <2>2
<1>5. SUFFICES ASSUME r # n PROVE FALSE
  BY <1>3
<1> DEFINE f == [l \in U |-> Rank(M, l)]
<1>6. f \in [U -> 0..(n - 1)]
  BY <1>4
<1>7. IsFiniteSet(0..(n - 1)) /\ Cardinality(0..(n - 1)) = n
  BY FS_Interval
<1>8. IsFiniteSet(U) /\ Cardinality(U) = r
  BY <1>3, RankType DEF Rank
<1>9. \E x, y \in U : x # y /\ f[x] = f[y]
  <2> HIDE DEF f, U
  <2> QED BY <1>2, <1>5, <1>6, <1>7, <1>8, FS_PigeonHole
<1>10. PICK x \in U, y \in U : x # y /\ Rank(M, x) = Rank(M, y)
  BY <1>9
<1>11. Below(x, y) \/ Below(y, x)
  BY <1>10, BelowIsTotal
<1>12. Rank(M, x) \in Nat /\ Rank(M, y) \in Nat
  BY RankType
<1> QED BY <1>10, <1>11, <1>12, RankFollows

\* The page of a listing: the highest L of the highest L + 1.
LEMMA PageIsHighest ==
    ASSUME NEW M \in SUBSET Keys, IsFiniteSet(M), NEW L \in Nat \ {0},
           NEW rows, rows = Highest(M, L + 1), NEW page, page = Highest(rows, L)
    PROVE  /\ rows \subseteq M /\ page = {k \in M : Rank(M, k) < L}
           /\ rows = page => page = M
           /\ rows # page => LET low == LastKey(page, rows)
                             IN  /\ low \in page
                                 /\ \A l \in page : l = low \/ Below(low, l)
                                 /\ \A k \in M \ page : Below(k, low)
<1>1. rows = {k \in M : Rank(M, k) <= L} /\ rows \subseteq M
  BY RankType DEF Highest, Rank
<1>0. \A k \in M : Rank(M, k) \in Nat
  BY RankType
<1>2. ASSUME NEW k \in rows PROVE {l \in rows : Below(k, l)} = {l \in M : Below(k, l)}
  <2>1. ASSUME NEW l \in M, Below(k, l) PROVE l \in rows
    <3>1. Rank(M, l) < Rank(M, k)
      BY <1>1, <2>1, RankFollows
    <3> QED BY <1>0, <1>1, <3>1
  <2> QED BY <1>1, <2>1
<1>3. page = {k \in M : Rank(M, k) < L}
  <2>1. page = {k \in rows : Cardinality({l \in M : Below(k, l)}) < L}
    BY <1>2 DEF Highest
  <2> QED BY <2>1, <1>1, RankType DEF Rank
<1>4. ASSUME rows = page PROVE page = M
  <2>1. ASSUME NEW k \in M, k \notin page PROVE FALSE
    <3>1. Rank(M, k) >= L
      BY <1>0, <1>3, <2>1
    <3>2. PICK m \in M : Rank(M, m) = L
      BY <3>1, RankExact
    <3> QED BY <1>1, <1>3, <1>4, <3>2
  <2> QED BY <1>3, <2>1
<1>5. ASSUME rows # page
      PROVE  LET low == LastKey(page, rows)
             IN  /\ low \in page
                 /\ \A l \in page : l = low \/ Below(low, l)
                 /\ \A k \in M \ page : Below(k, low)
  <2>1. PICK k \in M : Rank(M, k) = L
    BY <1>0, <1>1, <1>3, <1>5
  <2>2. PICK m \in M : Rank(M, m) = L - 1
    <3>1. Rank(M, k) >= L - 1 /\ L - 1 \in Nat
      BY <2>1
    <3> QED BY <3>1, RankExact
  <2>3. m \in page
    BY <1>3, <2>2
  <2>4. ASSUME NEW l \in page PROVE m = l \/ Below(m, l)
    <3>1. l \in M /\ Rank(M, l) \in Nat /\ Rank(M, l) < L
      BY <1>0, <1>3
    <3>2. ~Below(l, m)
      BY <2>2, <3>1, RankFollows
    <3> QED BY <3>1, <3>2, BelowIsTotal
  <2>5. \A x \in page : (\A l \in page : x = l \/ Below(x, l)) => x = m
    BY <1>3, <2>3, <2>4, BelowIsTotal
  <2>6. LastKey(page, rows) = m
    BY <2>3, <2>4, <2>5 DEF LastKey
  <2>7. ASSUME NEW x \in M \ page PROVE Below(x, m)
    <3>1. Rank(M, x) \in Nat /\ Rank(M, x) >= L
      BY <1>0, <1>3
    <3>2. ~Below(m, x)
      BY <2>2, <3>1, RankFollows
    <3> QED BY <2>3, <3>2, BelowIsTotal
  <2> QED BY <2>3, <2>4, <2>6, <2>7
<1> QED BY <1>1, <1>3, <1>4, <1>5

Quals == [id : Visitors, created : Instants, entered : {0} \cup Instants,
          presence : {"NOT_ENTERED", "INSIDE", "EXITED"}, bound : BOOLEAN]
Events == [id : EventIds, received : Instants, of : Visitors]

Asks == [stage : {"HELD", "READ", "MAPPED"}, scope : QueryScopes, last : Keys,
         rows : SUBSET Keys, faces : SUBSET Nat]
Walks == [stage : {"MORE", "DONE"}, scope : QueryScopes, epoch : Nat, last : Keys,
          pages : Seq(SUBSET Keys), whole : SUBSET Keys]

\* Identifiers are unique, and what has been in has a time it came in.
StoreInv ==
    /\ quals \in SUBSET Quals /\ IsFiniteSet(quals)
    /\ events \in SUBSET Events /\ IsFiniteSet(events)
    /\ \A q, x \in quals : q.id = x.id => q = x
    /\ \A e, x \in events : e.id = x.id => e = x

QueryTypeOK ==
    /\ dataset \in Nat
    /\ writer \in {"NONE", "WAITING", "RUNNING", "APPLIED"}
    /\ asks \in [Readers -> {NoAsk} \cup Asks]
    /\ walks \in [Readers -> {NoWalk} \cup Walks]
    /\ changes \in Nat

\* A request that reads keeps the writers out, and reads on where the walk of
\* its reader is.
LeaseInv ==
    \A r \in Readers : asks[r].stage # "NONE" =>
        /\ writer \in {"NONE", "WAITING"}
        /\ walks[r].stage = "MORE" /\ walks[r].epoch = dataset
        /\ walks[r].scope = asks[r].scope /\ walks[r].last = asks[r].last

\* The row of the key is, or was, in the listing: its place in it never changes.
Known(qs, es, scope, k) ==
    CASE scope.endpoint \in {"qualifications", "qualification"} ->
           \E q \in qs : q.id = k.id /\ q.created = k.at
      [] scope.endpoint = "inside" ->
           \E q \in qs : q.id = k.id /\ q.entered = k.at /\ q.presence # "NOT_ENTERED"
      [] scope.endpoint = "events" ->
           \E e \in es : e.id = k.id /\ e.received = k.at
      [] OTHER -> FALSE

Shown(w) == UNION {w.pages[i] : i \in 1..Len(w.pages)}

\* Pages go down, the cursor is below all of them, and what was there from the
\* first page on is on one of them or below the cursor.
WalkHolds(w, qs, es, ds) ==
    /\ \A i, j \in 1..Len(w.pages) :
          i < j => \A k \in w.pages[i], l \in w.pages[j] : Below(l, k) /\ l.id # k.id
    /\ w.epoch <= ds
    /\ w.epoch = ds =>
          /\ w.whole \subseteq MatchingIn(qs, es, w.scope)
          /\ \A k \in Shown(w) : Known(qs, es, w.scope, k)
          /\ \A k \in w.whole : k \in Shown(w) \/ (w.stage = "MORE" /\ Below(k, w.last))
    /\ w.stage = "MORE" => \A k \in Shown(w) : k = w.last \/ Below(w.last, k)

WalksInv ==
    \A r \in Readers : walks[r].stage # "NONE" => WalkHolds(walks[r], quals, events, dataset)

QueryInv == StoreInv /\ QueryTypeOK /\ LeaseInv /\ PagesAreSnapshots /\ WalksInv

-----------------------------------------------------------------------------
(* Listings. *)

LEMMA ImageIsFinite ==
    ASSUME NEW S, IsFiniteSet(S), NEW T, NEW f \in [S -> T], \A t \in T : \E s \in S : f[s] = t
    PROVE  IsFiniteSet(T)
<1>1. f \in Surjection(S, T)
  BY DEF Surjection
<1> QED BY <1>1, FS_Surjection

LEMMA ListingsAreFinite ==
    ASSUME NEW qs \in SUBSET Quals, IsFiniteSet(qs), NEW es \in SUBSET Events, IsFiniteSet(es),
           NEW scope \in QueryScopes
    PROVE  /\ MatchingIn(qs, es, scope) \in SUBSET Keys
           /\ IsFiniteSet(MatchingIn(qs, es, scope))
           /\ \A k \in MatchingIn(qs, es, scope) :
                 Below(k, FromTheTop) /\ Known(qs, es, scope, k)
<1> USE QueriesAssumption
<1> DEFINE M == MatchingIn(qs, es, scope)
<1>1. CASE scope.endpoint = "qualifications"
  <2>1. M = {[at |-> q.created, id |-> q.id] : q \in qs}
    BY <1>1 DEF MatchingIn
  <2>2. IsFiniteSet(M)
    <3> DEFINE f == [q \in qs |-> [at |-> q.created, id |-> q.id]]
    <3>1. f \in [qs -> M] /\ \A k \in M : \E q \in qs : f[q] = k
      BY <2>1
    <3> HIDE DEF f, M
    <3> QED BY <3>1, ImageIsFinite
  <2> QED BY <1>1, <2>1, <2>2 DEF Quals, Keys, Instants, Below, FromTheTop, Known
<1>2. CASE scope.endpoint = "inside"
  <2> DEFINE S == {x \in qs : x.presence = "INSIDE"}
  <2>1. M = {[at |-> q.entered, id |-> q.id] : q \in S}
    BY <1>2 DEF MatchingIn
  <2>2. IsFiniteSet(M)
    <3> DEFINE f == [q \in S |-> [at |-> q.entered, id |-> q.id]]
    <3>1. f \in [S -> M] /\ \A k \in M : \E q \in S : f[q] = k
      BY <2>1
    <3>2. IsFiniteSet(S)
      BY FS_Subset
    <3> HIDE DEF f, M, S
    <3> QED BY <3>1, <3>2, ImageIsFinite
  <2> QED BY <1>2, <2>1, <2>2 DEF Quals, Keys, Instants, Below, FromTheTop, Known
<1>3. CASE scope.endpoint = "events"
  <2> DEFINE S == {x \in es : scope.of \in {0, x.of}}
  <2>1. M = {[at |-> e.received, id |-> e.id] : e \in S}
    BY <1>3 DEF MatchingIn
  <2>2. IsFiniteSet(M)
    <3> DEFINE f == [e \in S |-> [at |-> e.received, id |-> e.id]]
    <3>1. f \in [S -> M] /\ \A k \in M : \E e \in S : f[e] = k
      BY <2>1
    <3>2. IsFiniteSet(S)
      BY FS_Subset
    <3> HIDE DEF f, M, S
    <3> QED BY <3>1, <3>2, ImageIsFinite
  <2> QED BY <1>3, <2>1, <2>2 DEF Events, Keys, Instants, Below, FromTheTop, Known
<1>4. CASE scope.endpoint = "qualification"
  <2> DEFINE S == {x \in qs : x.id = scope.of}
  <2>1. M = {[at |-> q.created, id |-> q.id] : q \in S}
    BY <1>4 DEF MatchingIn
  <2>2. IsFiniteSet(M)
    <3> DEFINE f == [q \in S |-> [at |-> q.created, id |-> q.id]]
    <3>1. f \in [S -> M] /\ \A k \in M : \E q \in S : f[q] = k
      BY <2>1
    <3>2. IsFiniteSet(S)
      BY FS_Subset
    <3> HIDE DEF f, M, S
    <3> QED BY <3>1, <3>2, ImageIsFinite
  <2> QED BY <1>4, <2>1, <2>2 DEF Quals, Keys, Instants, Below, FromTheTop, Known
<1> QED BY <1>1, <1>2, <1>3, <1>4

\* A row that is known has one place.
LEMMA KnownPlace ==
    ASSUME StoreInv, NEW scope \in QueryScopes, NEW k \in Keys, NEW l \in Matching(scope),
           Known(quals, events, scope, k), l.id = k.id
    PROVE  l.at = k.at
<1> USE QueriesAssumption DEF StoreInv, Matching
<1>1. CASE scope.endpoint \in {"qualifications", "qualification"}
  BY <1>1 DEF MatchingIn, Known
<1>2. CASE scope.endpoint = "inside"
  BY <1>2 DEF MatchingIn, Known
<1>3. CASE scope.endpoint = "events"
  BY <1>3 DEF MatchingIn, Known
<1> QED BY <1>1, <1>2, <1>3

LEMMA QueryInitInv == QueryInit => QueryInv
<1> SUFFICES ASSUME QueryInit PROVE QueryInv
  OBVIOUS
<1>1. StoreInv
  BY FS_EmptySet DEF QueryInit, StoreInv
<1>2. QueryTypeOK /\ LeaseInv /\ WalksInv
  BY DEF QueryInit, QueryTypeOK, LeaseInv, WalksInv, NoAsk, NoWalk
<1>3. PagesAreSnapshots
  BY DEF QueryInit, PagesAreSnapshots, NoAsk
<1> QED BY <1>1, <1>2, <1>3 DEF QueryInv

\* One more page, of all that lies below the cursor.
LEMMA PageAdded ==
    ASSUME StoreInv, dataset \in Nat,
           NEW w \in Walks, WalkHolds(w, quals, events, dataset), w.stage = "MORE",
           w.epoch = dataset,
           NEW rows, rows = Fetched(w.scope, w.last), NEW page, page = Highest(rows, QueryLimit),
           NEW v, v = [w EXCEPT !.pages = Append(@, page),
                                !.stage = IF rows = page THEN "DONE" ELSE "MORE",
                                !.last = IF rows = page THEN @ ELSE LastKey(page, rows)]
    PROVE  v \in Walks /\ WalkHolds(v, quals, events, dataset)
<1> USE QueriesAssumption
<1> DEFINE M == {k \in Matching(w.scope) : AfterCursor(k, w.last)}
<1>1. /\ w.scope \in QueryScopes /\ w.last \in Keys /\ w.pages \in Seq(SUBSET Keys)
      /\ w.whole \in SUBSET Keys
  BY DEF Walks
<1>2. /\ Matching(w.scope) \in SUBSET Keys /\ IsFiniteSet(Matching(w.scope))
      /\ \A k \in Matching(w.scope) : Known(quals, events, w.scope, k)
  BY <1>1, ListingsAreFinite DEF Matching, StoreInv
<1>3. M \in SUBSET Keys /\ IsFiniteSet(M) /\ M \subseteq Matching(w.scope)
  BY <1>2, FS_Subset
<1>4. \A k \in M : Below(k, w.last)
  BY DEF AfterCursor, Below
<1>5. /\ rows \subseteq M /\ page \subseteq M
      /\ rows = page => page = M
      /\ rows # page => LET low == LastKey(page, rows)
                        IN  /\ low \in page
                            /\ \A l \in page : l = low \/ Below(low, l)
                            /\ \A k \in M \ page : Below(k, low)
  <2> HIDE DEF M
  <2>1. rows = Highest(M, QueryLimit + 1)
    BY DEF Fetched, M
  <2> QED BY <1>3, <2>1, PageIsHighest
<1>6. /\ page \in SUBSET Keys
      /\ v.pages = Append(w.pages, page) /\ v.scope = w.scope /\ v.epoch = w.epoch
      /\ v.whole = w.whole
      /\ v.stage = IF rows = page THEN "DONE" ELSE "MORE"
      /\ v.last = IF rows = page THEN w.last ELSE LastKey(page, rows)
  BY <1>3, <1>5 DEF Walks
<1> HIDE DEF M
<1>7. v \in Walks
  <2>1. Append(w.pages, page) \in Seq(SUBSET Keys)
    BY <1>1, <1>6
  <2>2. (IF rows = page THEN w.last ELSE LastKey(page, rows)) \in Keys
    BY <1>1, <1>5, <1>6
  <2> QED BY <2>1, <2>2 DEF Walks
<1>8. /\ Len(v.pages) = Len(w.pages) + 1 /\ Len(w.pages) \in Nat
      /\ \A i \in 1..Len(w.pages) : v.pages[i] = w.pages[i]
      /\ v.pages[Len(v.pages)] = page
  BY <1>1, <1>6
<1>9. Shown(v) = Shown(w) \cup page
  BY <1>8 DEF Shown
<1>10. \A k \in Shown(w) : k \in Keys /\ (k = w.last \/ Below(w.last, k))
                           /\ Known(quals, events, w.scope, k)
  BY <1>1 DEF WalkHolds, Shown
<1>11. ASSUME NEW k \in Shown(w), NEW l \in page PROVE Below(l, k) /\ l.id # k.id
  <2>1. l \in Keys /\ k \in Keys /\ Below(l, w.last) /\ l \in Matching(w.scope)
    BY <1>3, <1>4, <1>5, <1>10
  <2>2. Below(l, k)
    BY <1>1, <1>10, <2>1, BelowIsTotal
  <2>3. l.id = k.id => l.at = k.at
    BY <1>1, <1>10, <2>1, KnownPlace
  <2> QED BY <2>1, <2>2, <2>3 DEF Below, Keys
<1>12. ASSUME NEW i \in 1..Len(v.pages), NEW j \in 1..Len(v.pages), i < j,
              NEW k \in v.pages[i], NEW l \in v.pages[j]
       PROVE  Below(l, k) /\ l.id # k.id
  <2>1. CASE j = Len(v.pages)
    <3>1. i \in 1..Len(w.pages)
      BY <1>8, <1>12, <2>1
    <3>2. k \in Shown(w) /\ l \in page
      BY <1>8, <1>12, <2>1, <3>1 DEF Shown
    <3> QED BY <1>11, <3>2
  <2>2. CASE j # Len(v.pages)
    <3>1. i \in 1..Len(w.pages) /\ j \in 1..Len(w.pages)
      BY <1>8, <1>12, <2>2
    <3>2. k \in w.pages[i] /\ l \in w.pages[j]
      BY <1>8, <1>12, <3>1
    <3> QED BY <1>12, <3>1, <3>2 DEF WalkHolds
  <2> QED BY <2>1, <2>2
<1>13. ASSUME NEW k \in v.whole
       PROVE  k \in Shown(v) \/ (v.stage = "MORE" /\ Below(k, v.last))
  <2>1. CASE k \in Shown(w)
    BY <2>1, <1>9
  <2>2. CASE k \notin Shown(w)
    <3>1. k \in M
      BY <1>6, <2>2 DEF WalkHolds, M, AfterCursor, Below, Matching
    <3> QED BY <3>1, <1>5, <1>6, <1>9
  <2> QED BY <2>1, <2>2
<1>14. v.stage = "MORE" => \A k \in Shown(v) : k = v.last \/ Below(v.last, k)
  <2> SUFFICES ASSUME rows # page, NEW k \in Shown(v) PROVE k = v.last \/ Below(v.last, k)
    BY <1>6
  <2>1. v.last \in page /\ \A l \in page : l = v.last \/ Below(v.last, l)
    BY <1>5, <1>6
  <2> QED BY <2>1, <1>9, <1>11
<1>15. \A k \in Shown(v) : Known(quals, events, v.scope, k)
  BY <1>2, <1>3, <1>5, <1>6, <1>9, <1>10
<1>16. v.epoch <= dataset /\ v.whole \subseteq MatchingIn(quals, events, v.scope)
  BY <1>6 DEF WalkHolds
<1> QED BY <1>7, <1>12, <1>13, <1>14, <1>15, <1>16 DEF WalkHolds

\* What a write does to the store: nothing that is known is lost.
LEMMA WritesKeepPlaces ==
    ASSUME StoreInv, Created \/ Moved \/ Rebound
    PROVE  /\ StoreInv'
           /\ \A scope, k : Known(quals, events, scope, k) => Known(quals', events', scope, k)
<1> USE QueriesAssumption DEF StoreInv
<1>1. CASE Created
  <2>1. PICK id \in Visitors, at \in Instants, bound \in BOOLEAN :
          /\ \A q \in quals : q.id # id
          /\ quals' = quals \cup {[id |-> id, created |-> at, entered |-> 0,
                                   presence |-> "NOT_ENTERED", bound |-> bound]}
          /\ events' = events
    BY <1>1 DEF Created
  <2>2. IsFiniteSet(quals')
    BY <2>1, FS_AddElement
  <2> QED BY <2>1, <2>2 DEF Quals, Known
<1>2. ASSUME NEW q \in quals, NEW x \in Quals, Changed(q, x), x.id = q.id,
             x.created = q.created, q.presence # "NOT_ENTERED" => x.entered = q.entered,
             x.presence = "NOT_ENTERED" => q.presence = "NOT_ENTERED"
      PROVE  /\ quals' \in SUBSET Quals /\ IsFiniteSet(quals')
             /\ \A a, b \in quals' : a.id = b.id => a = b
             /\ \A id, at :
                  /\ (\E a \in quals : a.id = id /\ a.created = at) =>
                       \E a \in quals' : a.id = id /\ a.created = at
                  /\ (\E a \in quals : a.id = id /\ a.entered = at /\ a.presence # "NOT_ENTERED") =>
                       \E a \in quals' : a.id = id /\ a.entered = at /\ a.presence # "NOT_ENTERED"
  <2>1. quals' = (quals \ {q}) \cup {x}
    BY <1>2 DEF Changed
  <2>2. IsFiniteSet(quals')
    BY <2>1, FS_AddElement, FS_RemoveElement
  <2>3. x \in quals' /\ \A a \in quals : a # q => a \in quals'
    BY <2>1
  <2> QED BY <1>2, <2>1, <2>2, <2>3
<1>3. CASE Moved
  <2>1. PICK q \in quals, at \in Instants :
        /\ q.presence # "EXITED"
        /\ IF q.presence = "NOT_ENTERED"
           THEN Changed(q, [q EXCEPT !.presence = "INSIDE", !.entered = at])
           ELSE Changed(q, [q EXCEPT !.presence = "EXITED", !.bound = FALSE])
        /\ Logged(q, at)
    BY <1>3 DEF Moved
  <2>2. PICK id \in EventIds : /\ \A e \in events : e.id # id
                               /\ events' = events \cup {[id |-> id, received |-> at, of |-> q.id]}
    BY <2>1 DEF Logged
  <2> DEFINE new == [id |-> id, received |-> at, of |-> q.id]
  <2>a. new \in Events /\ new.id = id
    BY DEF Events, Quals
  <2>b. IsFiniteSet(events')
    BY <2>2, FS_AddElement
  <2> HIDE DEF new
  <2>c. events' = events \cup {new}
    BY <2>2 DEF new
  <2>3. /\ events' \in SUBSET Events /\ IsFiniteSet(events')
        /\ \A e, x \in events' : e.id = x.id => e = x
        /\ events \subseteq events'
    BY <2>2, <2>a, <2>b, <2>c
  <2>4. PICK x \in Quals : /\ Changed(q, x) /\ x.id = q.id /\ x.created = q.created
                           /\ q.presence # "NOT_ENTERED" => x.entered = q.entered
                           /\ x.presence # "NOT_ENTERED"
    <3>1. CASE q.presence = "NOT_ENTERED"
      <4> DEFINE x == [q EXCEPT !.presence = "INSIDE", !.entered = at]
      <4>1. q \in Quals
        OBVIOUS
      <4>2. x \in Quals
        BY <4>1 DEF Quals
      <4>3. x.id = q.id /\ x.created = q.created /\ x.presence = "INSIDE"
        BY <4>1 DEF Quals
      <4> QED BY <2>1, <3>1, <4>2, <4>3
    <3>2. CASE q.presence # "NOT_ENTERED"
      <4> DEFINE x == [q EXCEPT !.presence = "EXITED", !.bound = FALSE]
      <4>1. q \in Quals
        OBVIOUS
      <4>2. x \in Quals
        BY <4>1 DEF Quals
      <4>3. /\ x.id = q.id /\ x.created = q.created /\ x.presence = "EXITED"
            /\ x.entered = q.entered
        BY <4>1 DEF Quals
      <4> QED BY <2>1, <3>2, <4>2, <4>3
    <3> QED BY <3>1, <3>2
  <2> QED BY <1>2, <2>3, <2>4 DEF Known
<1>4. CASE Rebound
  <2>1. PICK q \in quals : Changed(q, [q EXCEPT !.bound = ~@]) /\ events' = events
    BY <1>4 DEF Rebound
  <2> DEFINE x == [q EXCEPT !.bound = ~@]
  <2>a. q \in Quals
    OBVIOUS
  <2>b. x \in Quals
    BY <2>a DEF Quals
  <2>2. /\ x \in Quals /\ x.id = q.id /\ x.created = q.created /\ x.entered = q.entered
        /\ x.presence = q.presence
    BY <2>a, <2>b DEF Quals
  <2> HIDE DEF x
  <2>3. Changed(q, x)
    BY <2>1 DEF x
  <2> QED BY <1>2, <2>1, <2>2, <2>3 DEF Known
<1> QED BY <1>1, <1>3, <1>4

\* A walk goes on holding while writes are applied: what left the listing is
\* no longer asked of it.
LEMMA WalkKept ==
    ASSUME NEW w \in Walks, StoreInv, WalkHolds(w, quals, events, dataset),
           \A scope, k : Known(quals, events, scope, k) => Known(quals', events', scope, k),
           NEW v, v = [w EXCEPT !.whole = @ \cap MatchingIn(quals', events', w.scope)]
    PROVE  v \in Walks /\ WalkHolds(v, quals', events', dataset)
<1>1. /\ v.pages = w.pages /\ v.scope = w.scope /\ v.epoch = w.epoch /\ v.stage = w.stage
      /\ v.last = w.last /\ v.whole = w.whole \cap MatchingIn(quals', events', w.scope)
  BY DEF Walks
<1>2. v \in Walks
  BY <1>1 DEF Walks
<1>3. Shown(v) = Shown(w)
  BY <1>1 DEF Shown
<1>4. \A k \in Shown(v) : v.epoch = dataset => Known(quals', events', v.scope, k)
  BY <1>1, <1>3 DEF WalkHolds
<1>5. \A k \in v.whole : k \in w.whole /\ k \in MatchingIn(quals', events', v.scope)
  BY <1>1
<1>6. \A i, j \in 1..Len(v.pages) :
          i < j => \A k \in v.pages[i], l \in v.pages[j] : Below(l, k) /\ l.id # k.id
  BY <1>1 DEF WalkHolds
<1>7. v.stage = "MORE" => \A k \in Shown(v) : k = v.last \/ Below(v.last, k)
  BY <1>1, <1>3 DEF WalkHolds
<1>8. v.epoch <= dataset
  BY <1>1 DEF WalkHolds
<1>9. v.epoch = dataset =>
        /\ v.whole \subseteq MatchingIn(quals', events', v.scope)
        /\ \A k \in v.whole : k \in Shown(v) \/ (v.stage = "MORE" /\ Below(k, v.last))
  BY <1>1, <1>3, <1>5 DEF WalkHolds
<1> QED BY <1>2, <1>4, <1>6, <1>7, <1>8, <1>9 DEF WalkHolds

\* What is fetched and what is bound depends on the store alone.
LEMMA StoreReads ==
    ASSUME UNCHANGED <<quals, events>>
    PROVE  /\ \A scope, from : Fetched(scope, from)' = Fetched(scope, from)
           /\ \A rows : Bound(rows)' = Bound(rows)
BY DEF Fetched, Matching, Bound

LEMMA AsksFirst ==
    ASSUME QueryInv, NEW r \in Readers, NEW scope \in QueryScopes, AskFirst(r, scope)
    PROVE  QueryInv'
<1> USE QueriesAssumption
<1> DEFINE w == [stage |-> "MORE", scope |-> scope, epoch |-> dataset,
                 last |-> FromTheTop, pages |-> <<>>, whole |-> Matching(scope)]
           a == [stage |-> "HELD", scope |-> scope, last |-> FromTheTop,
                 rows |-> {}, faces |-> {}]
<1>1. /\ walks' = [walks EXCEPT ![r] = w] /\ asks' = [asks EXCEPT ![r] = a]
      /\ UNCHANGED <<quals, events, dataset, writer, changes>>
      /\ writer = "NONE"
  BY DEF AskFirst, Acquire, Busy
<1>2. FromTheTop \in Keys
  BY DEF FromTheTop, Keys
<1>3. /\ Matching(scope) \in SUBSET Keys
      /\ \A k \in Matching(scope) : Below(k, FromTheTop)
  BY ListingsAreFinite DEF Matching, QueryInv, StoreInv
<1>4. w \in Walks /\ a \in Asks
  BY <1>2, <1>3 DEF Walks, Asks, QueryInv, QueryTypeOK
<1>5. WalkHolds(w, quals, events, dataset)
  <2>1. Shown(w) = {}
    BY DEF Shown
  <2> QED BY <1>3, <2>1 DEF WalkHolds, Matching, QueryInv, QueryTypeOK
<1>6. w.stage = "MORE" /\ w.epoch = dataset /\ w.scope = scope /\ w.last = FromTheTop
      /\ a.stage = "HELD" /\ a.scope = scope /\ a.last = FromTheTop
  OBVIOUS
<1> HIDE DEF w, a
<1>7. QueryTypeOK'
  BY <1>1, <1>4 DEF QueryInv, QueryTypeOK
<1>8. LeaseInv'
  BY <1>1, <1>6 DEF QueryInv, QueryTypeOK, LeaseInv
<1>9. PagesAreSnapshots'
  BY <1>1, <1>6, StoreReads DEF QueryInv, QueryTypeOK, PagesAreSnapshots
<1>10. WalksInv'
  BY <1>1, <1>5 DEF QueryInv, QueryTypeOK, WalksInv
<1>11. StoreInv'
  BY <1>1 DEF QueryInv, StoreInv
<1> QED BY <1>7, <1>8, <1>9, <1>10, <1>11 DEF QueryInv

LEMMA AsksNext ==
    ASSUME QueryInv, NEW r \in Readers, NEW scope \in QueryScopes, AskNext(r, scope)
    PROVE  QueryInv'
<1> DEFINE a == [stage |-> "HELD", scope |-> scope, last |-> walks[r].last,
                 rows |-> {}, faces |-> {}]
<1>1. /\ asks' = [asks EXCEPT ![r] = a]
      /\ UNCHANGED <<quals, events, dataset, writer, walks, changes>>
      /\ writer = "NONE"
      /\ walks[r].stage = "MORE" /\ walks[r].epoch = dataset /\ walks[r].scope = scope
  BY DEF AskNext, Acquire, Busy, CursorFits
<1>2. walks[r].last \in Keys
  BY <1>1 DEF QueryInv, QueryTypeOK, NoWalk, Walks
<1>3. /\ a \in Asks /\ a.stage = "HELD" /\ a.scope = scope /\ a.last = walks[r].last
  BY <1>2 DEF Asks
<1> HIDE DEF a
<1>4. QueryTypeOK'
  BY <1>1, <1>3 DEF QueryInv, QueryTypeOK
<1>5. LeaseInv'
  BY <1>1, <1>3 DEF QueryInv, QueryTypeOK, LeaseInv
<1>6. PagesAreSnapshots'
  BY <1>1, <1>3, StoreReads DEF QueryInv, QueryTypeOK, PagesAreSnapshots
<1>7. WalksInv' /\ StoreInv'
  BY <1>1 DEF QueryInv, WalksInv, StoreInv
<1> QED BY <1>4, <1>5, <1>6, <1>7 DEF QueryInv

LEMMA ReadsOn ==
    ASSUME QueryInv, NEW r \in Readers, ReadRows(r) \/ LookUpFaces(r)
    PROVE  QueryInv'
<1>1. asks[r] \in Asks /\ asks[r].scope \in QueryScopes
  BY DEF QueryInv, QueryTypeOK, ReadRows, LookUpFaces, NoAsk, Asks
<1>2. UNCHANGED <<quals, events, dataset, writer, walks, changes>>
  BY DEF ReadRows, LookUpFaces
<1>3. Fetched(asks[r].scope, asks[r].last) \in SUBSET Keys
  <2>1. Matching(asks[r].scope) \in SUBSET Keys
    BY <1>1, ListingsAreFinite DEF Matching, QueryInv, StoreInv
  <2> QED BY <2>1 DEF Fetched, Highest
<1>4. Bound(asks[r].rows) \in SUBSET Nat
  BY <1>1 DEF Bound, Asks, Keys
<1>5. PICK a \in Asks :
        /\ asks' = [asks EXCEPT ![r] = a]
        /\ asks[r].stage # "NONE" /\ a.stage \in {"READ", "MAPPED"}
        /\ a.scope = asks[r].scope /\ a.last = asks[r].last
        /\ a.rows = Fetched(a.scope, a.last)
        /\ a.stage = "MAPPED" => a.faces = Bound(a.rows)
  <2>1. CASE ReadRows(r)
    <3> DEFINE a == [asks[r] EXCEPT !.stage = "READ",
                                    !.rows = Fetched(asks[r].scope, asks[r].last)]
    <3>1. a \in Asks
      BY <1>1, <1>3 DEF Asks
    <3>2. /\ a.stage = "READ" /\ a.scope = asks[r].scope /\ a.last = asks[r].last
          /\ a.rows = Fetched(asks[r].scope, asks[r].last)
      BY <1>1 DEF Asks
    <3>3. asks' = [asks EXCEPT ![r] = a] /\ asks[r].stage # "NONE"
      BY <2>1 DEF ReadRows
    <3> QED BY <3>1, <3>2, <3>3
  <2>2. CASE LookUpFaces(r)
    <3> DEFINE a == [asks[r] EXCEPT !.stage = "MAPPED", !.faces = Bound(asks[r].rows)]
    <3>1. a \in Asks
      BY <1>1, <1>4 DEF Asks
    <3>2. /\ a.stage = "MAPPED" /\ a.scope = asks[r].scope /\ a.last = asks[r].last
          /\ a.rows = asks[r].rows /\ a.faces = Bound(asks[r].rows)
      BY <1>1 DEF Asks
    <3>3. asks' = [asks EXCEPT ![r] = a] /\ asks[r].stage = "READ"
      BY <2>2 DEF LookUpFaces
    <3>4. asks[r].rows = Fetched(asks[r].scope, asks[r].last)
      BY <3>3 DEF QueryInv, PagesAreSnapshots
    <3> QED BY <3>1, <3>2, <3>3, <3>4
  <2> QED BY <2>1, <2>2
<1>6. QueryTypeOK'
  BY <1>2, <1>5 DEF QueryInv, QueryTypeOK
<1>7. LeaseInv'
  BY <1>2, <1>5 DEF QueryInv, QueryTypeOK, LeaseInv
<1>8. PagesAreSnapshots'
  BY <1>2, <1>5, StoreReads DEF QueryInv, QueryTypeOK, PagesAreSnapshots
<1>9. WalksInv' /\ StoreInv'
  BY <1>2 DEF QueryInv, WalksInv, StoreInv
<1> QED BY <1>6, <1>7, <1>8, <1>9 DEF QueryInv

LEMMA RequestsEnd ==
    ASSUME QueryInv, NEW r \in Readers, AnswerPage(r) \/ AskFails(r)
    PROVE  QueryInv'
<1>1. /\ asks' = [asks EXCEPT ![r] = NoAsk]
      /\ UNCHANGED <<quals, events, dataset, writer, changes>>
  BY DEF AnswerPage, AskFails
<1>2. /\ walks' \in [Readers -> {NoWalk} \cup Walks]
      /\ \A q \in Readers \ {r} : walks'[q] = walks[q]
      /\ walks'[r].stage # "NONE" => WalkHolds(walks'[r], quals, events, dataset)
  <2>1. CASE AskFails(r)
    BY <2>1 DEF AskFails, QueryInv, QueryTypeOK, WalksInv
  <2>2. CASE AnswerPage(r)
    <3> DEFINE rows == asks[r].rows
               page == Highest(rows, QueryLimit)
               v == [walks[r] EXCEPT
                       !.pages = Append(@, page),
                       !.stage = IF rows = page THEN "DONE" ELSE "MORE",
                       !.last = IF rows = page THEN @ ELSE LastKey(page, rows)]
    <3>1. /\ walks[r].stage = "MORE" /\ walks[r].epoch = dataset
          /\ walks[r].scope = asks[r].scope /\ walks[r].last = asks[r].last
          /\ asks[r].rows = Fetched(asks[r].scope, asks[r].last)
      BY <2>2 DEF AnswerPage, QueryInv, LeaseInv, PagesAreSnapshots
    <3>2. walks[r] \in Walks /\ WalkHolds(walks[r], quals, events, dataset)
      BY <3>1 DEF QueryInv, QueryTypeOK, WalksInv, NoWalk
    <3>3. walks' = [walks EXCEPT ![r] = v]
      BY <2>2 DEF AnswerPage
    <3>4. v \in Walks /\ WalkHolds(v, quals, events, dataset)
      <4> HIDE DEF v
      <4>1. StoreInv /\ dataset \in Nat
        BY DEF QueryInv, QueryTypeOK
      <4> QED BY <3>1, <3>2, <4>1, PageAdded DEF v
    <3> HIDE DEF v
    <3> QED BY <3>3, <3>4 DEF QueryInv, QueryTypeOK
  <2> QED BY <2>1, <2>2
<1>3. QueryTypeOK'
  BY <1>1, <1>2 DEF QueryInv, QueryTypeOK
<1>4. LeaseInv' /\ PagesAreSnapshots'
  BY <1>1, <1>2
     DEF QueryInv, QueryTypeOK, LeaseInv, PagesAreSnapshots, Fetched, Matching, Bound, NoAsk
<1>5. WalksInv' /\ StoreInv'
  BY <1>1, <1>2 DEF QueryInv, WalksInv, StoreInv
<1> QED BY <1>3, <1>4, <1>5 DEF QueryInv

LEMMA WritersMove ==
    ASSUME QueryInv, RegisterWrite \/ StartWrite \/ SettleWrite
    PROVE  QueryInv'
<1>1. UNCHANGED <<quals, events, dataset, asks, walks, changes>>
  BY DEF RegisterWrite, StartWrite, SettleWrite
<1>2. writer' \in {"NONE", "WAITING"} \/ (writer' = "RUNNING" /\ ~LeaseHeld)
  BY DEF RegisterWrite, StartWrite, SettleWrite
<1>3. QueryTypeOK' /\ LeaseInv'
  BY <1>1, <1>2 DEF QueryInv, QueryTypeOK, LeaseInv, LeaseHeld
<1> QED BY <1>1, <1>3
        DEF QueryInv, StoreInv, WalksInv, PagesAreSnapshots, Fetched, Matching, Bound

LEMMA WritesApply == ASSUME QueryInv, ApplyWrite PROVE QueryInv'
<1>1. /\ StoreInv'
      /\ \A scope, k : Known(quals, events, scope, k) => Known(quals', events', scope, k)
  BY WritesKeepPlaces DEF QueryInv, ApplyWrite
<1>2. /\ writer = "RUNNING" /\ writer' = "APPLIED" /\ changes' = changes + 1
      /\ UNCHANGED <<dataset, asks>>
      /\ walks' = [r \in Readers |->
           IF walks[r].stage = "NONE" THEN walks[r]
           ELSE [walks[r] EXCEPT !.whole = @ \cap MatchingIn(quals', events', walks[r].scope)]]
  BY DEF ApplyWrite
<1>3. \A r \in Readers : asks[r].stage = "NONE"
  BY <1>2 DEF QueryInv, LeaseInv
<1>4. ASSUME NEW r \in Readers, walks[r].stage # "NONE"
      PROVE  walks'[r] \in Walks /\ WalkHolds(walks'[r], quals', events', dataset)
  <2>1. walks[r] \in Walks /\ WalkHolds(walks[r], quals, events, dataset)
    BY <1>4 DEF QueryInv, QueryTypeOK, WalksInv, NoWalk
  <2> QED BY <1>1, <1>2, <1>4, <2>1, WalkKept DEF QueryInv
<1>5. walks' \in [Readers -> {NoWalk} \cup Walks]
  <2> SUFFICES ASSUME NEW r \in Readers PROVE walks'[r] \in {NoWalk} \cup Walks
    BY <1>2
  <2>1. walks[r].stage = "NONE" => walks'[r] = walks[r]
    BY <1>2
  <2> QED BY <1>4, <2>1 DEF QueryInv, QueryTypeOK
<1>6. \A r \in Readers : walks[r].stage = "NONE" => walks'[r].stage = "NONE"
  BY <1>2
<1>7. WalksInv'
  BY <1>2, <1>4, <1>6 DEF WalksInv
<1>8. QueryTypeOK' /\ LeaseInv' /\ PagesAreSnapshots'
  BY <1>2, <1>3, <1>5 DEF QueryInv, QueryTypeOK, LeaseInv, PagesAreSnapshots
<1> QED BY <1>1, <1>7, <1>8 DEF QueryInv

LEMMA DatasetsFollow == ASSUME QueryInv, Reseeded PROVE QueryInv'
<1>1. StoreInv'
  BY FS_EmptySet DEF Reseeded, StoreInv
<1>2. QueryTypeOK' /\ LeaseInv' /\ PagesAreSnapshots'
  BY DEF Reseeded, QueryInv, QueryTypeOK, LeaseInv, PagesAreSnapshots, NoAsk
<1>3. WalksInv'
  BY DEF Reseeded, QueryInv, QueryTypeOK, WalksInv, WalkHolds, Walks, NoWalk
<1> QED BY <1>1, <1>2, <1>3 DEF QueryInv

\* Every page is one state of the store, and whoever follows the cursors sees
\* no row twice and misses none that stayed, for any number of readers, rows,
\* instants, writes and datasets, and any size of a page.
THEOREM PagesAreTrue == QuerySpec => []ListingsAreTrue
<1>1. ASSUME QueryInv, [QueryNext]_queryVars PROVE QueryInv'
  <2>1. CASE QueryNext
    BY <1>1, <2>1, AsksFirst, AsksNext, ReadsOn, RequestsEnd, WritersMove, WritesApply,
       DatasetsFollow DEF QueryNext
  <2>2. CASE UNCHANGED queryVars
    <3>1. PagesAreSnapshots'
      BY <1>1, <2>2, StoreReads DEF queryVars, QueryInv, PagesAreSnapshots
    <3>2. WalksInv'
      BY <1>1, <2>2 DEF queryVars, QueryInv, WalksInv
    <3> QED BY <1>1, <2>2, <3>1, <3>2 DEF queryVars, QueryInv, StoreInv, QueryTypeOK, LeaseInv
  <2> QED BY <1>1, <2>1, <2>2
<1>2. QueryInv => ListingsAreTrue
  <2> SUFFICES ASSUME QueryInv PROVE ListingsAreTrue
    OBVIOUS
  <2>1. PagesAreSnapshots
    BY DEF QueryInv
  <2>2. WalksAreComplete
    BY DEF QueryInv, WalksInv, WalkHolds, Shown, WalksAreComplete
  <2> QED BY <2>1, <2>2 DEF ListingsAreTrue
<1> QED BY <1>1, <1>2, QueryInitInv, PTL DEF QuerySpec

-----------------------------------------------------------------------------
(* The bodies of requests.                                                      *)

Codes == {"INVALID_HTTP_HEADERS", "BODY_NOT_ALLOWED", "REQUEST_BODY_TOO_LARGE",
          "RAW_READER_CAPACITY_EXHAUSTED", "REQUEST_BODY_TIMEOUT", "INVALID_JSON_BODY"}

IngressTypeOK ==
    /\ request \in [Uploads -> IngressRequests \cup {NoRequest}]
    /\ reading \in [Uploads -> [settled : BOOLEAN, byteLength : Nat, timer : BOOLEAN]]
    /\ stream \in [Uploads -> {"NONE", "OPEN", "COMPLETE", "ENDED", "GONE"}]
    /\ ingressAnswer \in [Uploads -> Codes \cup {"NONE", "HANDED_OFF"}]
    /\ activeReaders \in Nat

Reading == {r \in Uploads : Listening(r)}

\* The places are those of the bodies being read.
PlacesInv ==
    /\ IsFiniteSet(Reading)
    /\ activeReaders = Cardinality(Reading)
    /\ activeReaders <= MaxReaders

\* A body being read has its timer, no answer yet, and no more than fits; what
\* was handed on is whole.
BodyInv ==
    \A r \in Uploads :
        /\ stream[r] = "NONE" => ~Listening(r) /\ ingressAnswer[r] = "NONE"
        /\ Listening(r) => /\ ingressAnswer[r] = "NONE"
                           /\ reading[r].byteLength <= MaxBody
                           /\ stream[r] \in {"COMPLETE", "ENDED"} =>
                                 reading[r].byteLength = request[r].size
        /\ reading[r].timer <=> Listening(r)
        /\ ingressAnswer[r] = "HANDED_OFF" /\ request[r].json =>
                reading[r].byteLength = request[r].size /\ request[r].size <= MaxBody

IngressInv == IngressTypeOK /\ PlacesInv /\ BodyInv

LEMMA IngressInitInv == IngressInit => IngressInv
<1> SUFFICES ASSUME IngressInit PROVE IngressInv
  OBVIOUS
<1>1. IngressTypeOK /\ BodyInv
  BY BodyReaderAssumption DEF IngressInit, IngressTypeOK, BodyInv, NoReading, Listening
<1>2. Reading = {}
  BY DEF IngressInit, NoReading, Listening, Reading
<1>3. PlacesInv
  BY <1>2, FS_EmptySet, BodyReaderAssumption DEF PlacesInv, IngressInit
<1> QED BY <1>1, <1>3 DEF IngressInv

\* A step serves one request; it takes a place, gives one back, or neither.
LEMMA PlacesMove ==
    ASSUME IngressInv, NEW r \in Uploads,
           \A q \in Uploads \ {r} : reading'[q] = reading[q],
           \/ /\ ~Listening(r) /\ Listening(r)'
              /\ activeReaders' = activeReaders + 1 /\ activeReaders < MaxReaders
           \/ Listening(r) /\ ~Listening(r)' /\ activeReaders' = activeReaders - 1
           \/ (Listening(r)' <=> Listening(r)) /\ activeReaders' = activeReaders
    PROVE  PlacesInv'
<1> USE DEF IngressInv, PlacesInv
<1>1. CASE ~Listening(r) /\ Listening(r)'
  <2>1. Reading' = Reading \cup {r} /\ r \notin Reading
    BY <1>1 DEF Reading, Listening
  <2>2. IsFiniteSet(Reading') /\ Cardinality(Reading') = Cardinality(Reading) + 1
    BY <2>1, FS_AddElement
  <2> QED BY <1>1, <2>2, BodyReaderAssumption DEF IngressTypeOK
<1>2. CASE Listening(r) /\ ~Listening(r)'
  <2>1. Reading' = Reading \ {r} /\ r \in Reading
    BY <1>2 DEF Reading, Listening
  <2>2. IsFiniteSet(Reading') /\ Cardinality(Reading') = Cardinality(Reading) - 1
    BY <2>1, FS_RemoveElement
  <2> QED BY <1>2, <2>2, BodyReaderAssumption DEF IngressTypeOK
<1>3. CASE Listening(r)' <=> Listening(r)
  <2>1. Reading' = Reading
    BY <1>3 DEF Reading, Listening
  <2> QED BY <1>3, <2>1
<1> QED BY <1>1, <1>2, <1>3

\* What a cleanup and an answer leave behind is of the right kind.
LEMMA Typed ==
    ASSUME IngressTypeOK, NEW r \in Uploads
    PROVE  /\ Cleanup(r) /\ activeReaders - 1 \in Nat =>
                /\ reading' \in [Uploads -> [settled : BOOLEAN, byteLength : Nat, timer : BOOLEAN]]
                /\ activeReaders' \in Nat
           /\ \A what \in Codes \cup {"NONE", "HANDED_OFF"} :
                Answers(r, what) =>
                    ingressAnswer' \in [Uploads -> Codes \cup {"NONE", "HANDED_OFF"}]
<1>1. Cleanup(r) /\ activeReaders - 1 \in Nat =>
          /\ reading' \in [Uploads -> [settled : BOOLEAN, byteLength : Nat, timer : BOOLEAN]]
          /\ activeReaders' \in Nat
  <2> SUFFICES ASSUME Cleanup(r), activeReaders - 1 \in Nat
      PROVE  /\ reading' \in [Uploads -> [settled : BOOLEAN, byteLength : Nat, timer : BOOLEAN]]
             /\ activeReaders' \in Nat
    OBVIOUS
  <2>1. /\ reading' = [reading EXCEPT ![r] = [reading[r] EXCEPT !.settled = TRUE, !.timer = FALSE]]
        /\ activeReaders' = activeReaders - 1
    BY DEF Cleanup
  <2>2. [reading[r] EXCEPT !.settled = TRUE, !.timer = FALSE]
            \in [settled : BOOLEAN, byteLength : Nat, timer : BOOLEAN]
    BY DEF IngressTypeOK
  <2> QED BY <2>1, <2>2 DEF IngressTypeOK
<1>2. \A what \in Codes \cup {"NONE", "HANDED_OFF"} :
          Answers(r, what) => ingressAnswer' \in [Uploads -> Codes \cup {"NONE", "HANDED_OFF"}]
  BY DEF IngressTypeOK, Answers
<1> QED BY <1>1, <1>2

\* One that gives its place back has one.
LEMMA APlaceIsHeld ==
    ASSUME IngressInv, NEW r \in Uploads, Listening(r) PROVE activeReaders - 1 \in Nat
<1>1. r \in Reading /\ IsFiniteSet(Reading) /\ activeReaders = Cardinality(Reading)
  BY DEF IngressInv, PlacesInv, Reading
<1>2. Cardinality(Reading) # 0
  BY <1>1, FS_EmptySet
<1> QED BY <1>1, <1>2 DEF IngressInv, IngressTypeOK

LEMMA Receives ==
    ASSUME IngressInv, NEW r \in Uploads, NEW m \in IngressRequests, Receive(r, m)
    PROVE  IngressInv'
<1> USE BodyReaderAssumption
<1>1. RefusedOnHeaders(m) \in SUBSET Codes
  BY DEF RefusedOnHeaders, Codes
<1>2. m \in [json : BOOLEAN, valid : BOOLEAN, declares : BOOLEAN, size : 0..(MaxBody + 1)]
  BY DEF IngressRequests
<1>3. ~Listening(r) /\ ingressAnswer[r] = "NONE" /\ stream[r] = "NONE"
  BY DEF IngressInv, BodyInv, Receive
<1>4. RefusedOnHeaders(m) = {} /\ m.json => activeReaders < MaxReaders
  BY <1>2 DEF RefusedOnHeaders, PlaceFree
<1>5. RefusedOnHeaders(m) # {} => "HANDED_OFF" \notin RefusedOnHeaders(m)
  BY <1>1 DEF Codes
<1>6. IngressTypeOK'
  <2>1. request' \in [Uploads -> IngressRequests \cup {NoRequest}]
    BY DEF IngressInv, IngressTypeOK, Receive
  <2>2. stream' \in [Uploads -> {"NONE", "OPEN", "COMPLETE", "ENDED", "GONE"}]
    BY DEF IngressInv, IngressTypeOK, Receive
  <2>3. reading' \in [Uploads -> [settled : BOOLEAN, byteLength : Nat, timer : BOOLEAN]]
    <3>1. \/ reading' = reading
          \/ reading' = [reading EXCEPT ![r] = [settled |-> FALSE, byteLength |-> 0, timer |-> TRUE]]
      BY DEF Receive
    <3>2. CASE reading' = reading
      BY <3>2 DEF IngressInv, IngressTypeOK
    <3>3. CASE reading' = [reading EXCEPT ![r] = [settled |-> FALSE, byteLength |-> 0, timer |-> TRUE]]
      BY <3>3 DEF IngressInv, IngressTypeOK
    <3> QED BY <3>1, <3>2, <3>3
  <2>4. ingressAnswer' \in [Uploads -> Codes \cup {"NONE", "HANDED_OFF"}]
    BY <1>1 DEF IngressInv, IngressTypeOK, Receive, Answers, Codes
  <2>5. activeReaders' \in Nat
    <3>1. activeReaders' \in {activeReaders, activeReaders + 1}
      BY DEF Receive
    <3> QED BY <3>1 DEF IngressInv, IngressTypeOK
  <2> QED BY <2>1, <2>2, <2>3, <2>4, <2>5 DEF IngressTypeOK
<1>7. BodyInv'
  BY <1>1, <1>2, <1>3, <1>5
     DEF IngressInv, IngressTypeOK, BodyInv, Receive, Answers, Listening
<1>8. PlacesInv'
  BY <1>3, <1>4, PlacesMove DEF IngressInv, IngressTypeOK, Receive, Listening
<1> QED BY <1>6, <1>7, <1>8 DEF IngressInv

LEMMA Reads ==
    ASSUME IngressInv, NEW r \in Uploads,
           OnData(r) \/ Completes(r) \/ OnEnd(r) \/ OnAborted(r) \/ OnClose(r) \/ OnTimer(r)
    PROVE  IngressInv'
<1> USE BodyReaderAssumption DEF Cleanup, Fail, Rejects, Answers, Listening
<1>1. Listening(r) => activeReaders - 1 \in Nat
  BY APlaceIsHeld
<1>a. request[r].size \in Nat
  BY DEF IngressInv, IngressTypeOK, IngressRequests, NoRequest
<1>2. CASE OnData(r)
  <2>1. IngressTypeOK'
    <3>1. reading' \in [Uploads -> [settled : BOOLEAN, byteLength : Nat, timer : BOOLEAN]]
      BY <1>2, <1>1, Typed, SMTT(40) DEF IngressInv, IngressTypeOK, OnData
    <3>2. ingressAnswer' \in [Uploads -> Codes \cup {"NONE", "HANDED_OFF"}]
      BY <1>2, Typed DEF IngressInv, IngressTypeOK, OnData, Codes
    <3>3. activeReaders' \in Nat
      BY <1>2, <1>1 DEF IngressInv, IngressTypeOK, OnData
    <3>4. /\ request' \in [Uploads -> IngressRequests \cup {NoRequest}]
          /\ stream' \in [Uploads -> {"NONE", "OPEN", "COMPLETE", "ENDED", "GONE"}]
      BY <1>2 DEF IngressInv, IngressTypeOK, OnData
    <3> QED BY <3>1, <3>2, <3>3, <3>4 DEF IngressTypeOK
  <2>2. BodyInv'
    BY <1>2, <1>a DEF IngressInv, IngressTypeOK, BodyInv, OnData
  <2>3. PlacesInv'
    BY <1>2, PlacesMove DEF IngressInv, IngressTypeOK, OnData
  <2> QED BY <2>1, <2>2, <2>3 DEF IngressInv
<1>3. CASE Completes(r) \/ OnClose(r)
  <2>1. IngressTypeOK'
    BY <1>3 DEF IngressInv, IngressTypeOK, Completes, OnClose
  <2>2. BodyInv'
    BY <1>3 DEF IngressInv, IngressTypeOK, BodyInv, Completes, OnClose
  <2>3. PlacesInv'
    BY <1>3, PlacesMove DEF Completes, OnClose
  <2> QED BY <2>1, <2>2, <2>3 DEF IngressInv
<1>4. CASE OnEnd(r)
  <2>1. IngressTypeOK'
    <3>1. reading' \in [Uploads -> [settled : BOOLEAN, byteLength : Nat, timer : BOOLEAN]]
      BY <1>4, <1>1, Typed DEF IngressInv, IngressTypeOK, OnEnd
    <3>2. ingressAnswer' \in [Uploads -> Codes \cup {"NONE", "HANDED_OFF"}]
      BY <1>4, Typed DEF IngressInv, IngressTypeOK, OnEnd, Codes
    <3>3. activeReaders' \in Nat
      BY <1>4, <1>1 DEF IngressInv, IngressTypeOK, OnEnd
    <3>4. /\ request' \in [Uploads -> IngressRequests \cup {NoRequest}]
          /\ stream' \in [Uploads -> {"NONE", "OPEN", "COMPLETE", "ENDED", "GONE"}]
      BY <1>4 DEF IngressInv, IngressTypeOK, OnEnd
    <3> QED BY <3>1, <3>2, <3>3, <3>4 DEF IngressTypeOK
  <2>2. BodyInv'
    BY <1>4, <1>a DEF IngressInv, IngressTypeOK, BodyInv, OnEnd
  <2>3. PlacesInv'
    BY <1>4, PlacesMove DEF IngressInv, IngressTypeOK, OnEnd
  <2> QED BY <2>1, <2>2, <2>3 DEF IngressInv
<1>5. CASE OnAborted(r)
  <2>1. IngressTypeOK'
    <3>1. reading' \in [Uploads -> [settled : BOOLEAN, byteLength : Nat, timer : BOOLEAN]]
      BY <1>5, <1>1, Typed DEF IngressInv, IngressTypeOK, OnAborted
    <3>2. ingressAnswer' \in [Uploads -> Codes \cup {"NONE", "HANDED_OFF"}]
      BY <1>5, Typed DEF IngressInv, IngressTypeOK, OnAborted, Codes
    <3>3. activeReaders' \in Nat
      BY <1>5, <1>1 DEF IngressInv, IngressTypeOK, OnAborted
    <3>4. /\ request' \in [Uploads -> IngressRequests \cup {NoRequest}]
          /\ stream' \in [Uploads -> {"NONE", "OPEN", "COMPLETE", "ENDED", "GONE"}]
      BY <1>5 DEF IngressInv, IngressTypeOK, OnAborted
    <3> QED BY <3>1, <3>2, <3>3, <3>4 DEF IngressTypeOK
  <2>2. BodyInv'
    BY <1>5 DEF IngressInv, IngressTypeOK, BodyInv, OnAborted
  <2>3. PlacesInv'
    BY <1>5, PlacesMove DEF IngressInv, IngressTypeOK, OnAborted
  <2> QED BY <2>1, <2>2, <2>3 DEF IngressInv
<1>6. CASE OnTimer(r)
  <2>0. Listening(r)
    BY <1>6 DEF IngressInv, BodyInv, OnTimer
  <2>1. IngressTypeOK'
    <3>1. reading' \in [Uploads -> [settled : BOOLEAN, byteLength : Nat, timer : BOOLEAN]]
      BY <1>6, <2>0, <1>1, Typed DEF IngressInv, IngressTypeOK, OnTimer
    <3>2. ingressAnswer' \in [Uploads -> Codes \cup {"NONE", "HANDED_OFF"}]
      BY <1>6, <2>0, Typed DEF IngressInv, IngressTypeOK, OnTimer, Codes
    <3>3. activeReaders' \in Nat
      BY <1>6, <2>0, <1>1 DEF IngressInv, IngressTypeOK, OnTimer
    <3>4. /\ request' \in [Uploads -> IngressRequests \cup {NoRequest}]
          /\ stream' \in [Uploads -> {"NONE", "OPEN", "COMPLETE", "ENDED", "GONE"}]
      BY <1>6, <2>0 DEF IngressInv, IngressTypeOK, OnTimer
    <3> QED BY <3>1, <3>2, <3>3, <3>4 DEF IngressTypeOK
  <2>2. BodyInv'
    BY <1>6 DEF IngressInv, IngressTypeOK, BodyInv, OnTimer
  <2>3. PlacesInv'
    BY <1>6, <2>0, PlacesMove DEF IngressInv, IngressTypeOK, OnTimer
  <2> QED BY <2>1, <2>2, <2>3 DEF IngressInv
<1> QED BY <1>2, <1>3, <1>4, <1>5, <1>6

\* The readers' places are counted right, and only whole bodies are handed on,
\* for any number of requests, readers and chunks.
THEOREM BodiesAreCounted == IngressSpec => []ReadersAreCounted
<1>1. ASSUME IngressInv, [IngressNext]_ingressVars PROVE IngressInv'
  <2>1. CASE IngressNext
    BY <1>1, <2>1, Receives, Reads DEF IngressNext
  <2>2. CASE UNCHANGED ingressVars
    BY <1>1, <2>2 DEF ingressVars, IngressInv, IngressTypeOK, PlacesInv, BodyInv, Reading,
                      Listening
  <2> QED BY <1>1, <2>1, <2>2
<1>2. IngressInv => ReadersAreCounted
  BY DEF IngressInv, PlacesInv, BodyInv, ReadersAreCounted, Reading
<1> QED BY <1>1, <1>2, IngressInitInv, PTL DEF IngressSpec

-----------------------------------------------------------------------------
(* The log.  A rotation moves one name at a time and a death may fall between   *)
(* any two moves, so the invariant orders the records by the files that have    *)
(* names and not by the moves.  RingInv is about the files, StepInv about the   *)
(* step the store is at, OrderInv about the lines on their way, WorkerInv and   *)
(* ToldInv about the sink and what it tells, ReaderInv about a reader.          *)

LogFiles == [records : Seq(Nat), torn : BOOLEAN]

Sinks == [queue : Seq(Nat), writing : BOOLEAN, closed : BOOLEAN, awaited : BOOLEAN,
          abandoned : BOOLEAN, degraded : BOOLEAN, dropped : Nat, generation : Nat]

\* A line that is with the driver and not on disk.
WithDriver == {"CALLED", "LOCKED", "ROTATE", "CREATE", "APPEND"}

Stores == [failed : BOOLEAN, step : WithDriver \cup {"NONE", "RESOLVED", "REJECTED"},
           turn : Names, record : Nat, generation : Nat]

\* A reader's snapshot is of the names that were there.
Snapshots == UNION {[S -> [file : Nat, torn : BOOLEAN, length : Nat]] : S \in SUBSET Names}

Readings == [open : Snapshots, left : SUBSET Names, got : Seq(Nat), held : SUBSET Nat,
             active : BOOLEAN]

LogTypeOK ==
    /\ files \in Seq(LogFiles)
    /\ names \in [Names -> 0..Len(files)]
    /\ written \subseteq 0..records /\ records \in Nat
    /\ sink \in Sinks
    /\ store \in Stores
    /\ health \in [degraded : BOOLEAN, dropped : Nat]
    /\ counts \in [offered : Nat, acknowledged : Nat, landed : Nat]
    /\ opened \in [processes : Nat, up : BOOLEAN]
    /\ reader \in Readings

\* Names are of different files, each in its order.
RingInv ==
    /\ \A m, n \in Ring : names[m] = names[n] => m = n
    /\ \A f \in DOMAIN files : Increasing(files[f].records)
    /\ LogIsASuffix

\* A rotation moves into a free name, a new file gets a free one, and a line is
\* appended to a file that is there.
StepInv ==
    /\ store.step = "ROTATE" /\ store.turn < Archives => names[store.turn + 1] = 0
    /\ store.step = "CREATE" => names[0] = 0
    /\ store.failed => store.step \in {"NONE", "CALLED", "REJECTED"}
    /\ \/ names[0] # 0 \/ store.failed \/ store.step = "CREATE"
       \/ sink.abandoned /\ store.step = "NONE"

\* What waits is newer than what is with the driver, and this than what was
\* written.
OrderInv ==
    /\ Increasing(sink.queue)
    /\ \A i \in 1..Len(sink.queue) :
         /\ sink.queue[i] <= records
         /\ \A a \in written : a < sink.queue[i]
         /\ store.step \in WithDriver => store.record < sink.queue[i]
    /\ store.step \in WithDriver =>
         /\ store.record <= records
         /\ \A a \in written : a < store.record

\* The worker and its driver.
WorkerInv ==
    /\ sink.writing => store.step # "NONE" /\ store.generation = sink.generation
    /\ ~sink.writing /\ store.step # "NONE" =>
         sink.abandoned /\ store.generation < sink.generation
    /\ sink.abandoned => sink.queue = <<>> /\ ~sink.writing
    /\ ~sink.writing => sink.queue = <<>>
    /\ sink.awaited => ~Idle(sink)

\* A line that the worker waits for is one of its records.
InFlight(s) == IF s.writing THEN 1 ELSE 0

\* What the sink tells.
ToldInv ==
    /\ health = [degraded |-> sink.degraded, dropped |-> sink.dropped]
    /\ counts.offered = Len(sink.queue) + InFlight(sink)
                        + counts.acknowledged + sink.dropped
    /\ counts.landed \in counts.acknowledged..(counts.acknowledged + 1)
    /\ store.step \in WithDriver => counts.landed = counts.acknowledged
    /\ ~sink.abandoned /\ store.step = "NONE" => counts.landed = counts.acknowledged
    /\ store.step = "RESOLVED" => counts.landed = counts.acknowledged + 1
    /\ ~opened.up =>
         /\ store = NoWrite /\ sink.dropped = 0
         /\ counts = [offered |-> 0, acknowledged |-> 0, landed |-> 0]

\* What a reader still has to read is later than what it has got, and both
\* together are what the ring held.
ReaderInv ==
    /\ reader.left \subseteq DOMAIN reader.open
    /\ \A n \in reader.left :
         /\ reader.open[n].file \in DOMAIN files
         /\ reader.open[n].length \in 0..Len(files[reader.open[n].file].records)
    /\ Increasing(reader.got)
    /\ \A n \in reader.left : Increasing(ReadsFile(n))
    /\ \A n \in reader.left : \A a \in Range(reader.got), b \in Range(ReadsFile(n)) : a < b
    /\ \A m, n \in reader.left : m < n =>
         \A a \in Range(ReadsFile(n)), b \in Range(ReadsFile(m)) : a < b
    /\ reader.held = Range(reader.got) \cup UNION {Range(ReadsFile(n)) : n \in reader.left}

LogInv == LogTypeOK /\ RingInv /\ StepInv /\ OrderInv /\ WorkerInv /\ ToldInv /\ ReaderInv

LEMMA OneOrNone ==
  \A s : /\ s.writing = TRUE => InFlight(s) = 1
         /\ s.writing = FALSE => InFlight(s) = 0
  BY DEF InFlight
LEMMA OneMoreDropped ==
  \A o, q, i, a, d \in Nat : o = q + i + a + d => o + 1 = q + i + a + (d + 1)
  OBVIOUS

LEMMA OneMoreWaiting ==
  \A o, q, i, a, d \in Nat : o = q + i + a + d => o + 1 = (q + 1) + i + a + d
  OBVIOUS

LEMMA OneMoreAcknowledged ==
  \A o, p, q, a, d \in Nat : o = q + 1 + a + d /\ p = q => o = p + (a + 1) + d
  OBVIOUS


\* The files of an earlier deployment follow each other.
LEMMA FullFiles ==
  ASSUME NEW f \in Nat \ {0}, NEW g \in Nat, f < g, NEW i \in 1..FileRecords, NEW j \in 1..FileRecords
  PROVE  (f - 1) * FileRecords + i < (g - 1) * FileRecords + j
  <1> USE RuntimeLogAssumption
  <1> DEFINE d == g - 1 - f
  <1>1. d \in Nat /\ d * FileRecords \in Nat /\ f * FileRecords \in Nat
    OBVIOUS
  <1>2. (g - 1) * FileRecords = f * FileRecords + d * FileRecords
    <2>1. g - 1 = f + d BY DEF d
    <2> QED BY <2>1, <1>1
  <1>3. (f - 1) * FileRecords + FileRecords = f * FileRecords
    OBVIOUS
  <1> HIDE DEF d
  <1>4. (f - 1) * FileRecords \in Nat
    OBVIOUS
  <1> QED BY <1>1, <1>2, <1>3, <1>4

LEMMA LogInitInv == LogInit => LogInv
  <1> SUFFICES ASSUME LogInit PROVE LogInv
    OBVIOUS
  <1> USE RuntimeLogAssumption
  <1>1. PICK k \in 0..(Archives + 1) : Left(k)
    BY DEF LogInit
  <1> DEFINE Records(f) == [i \in 1..FileRecords |-> (f - 1) * FileRecords + i]
  <1>2. /\ \A f \in 1..k : files[f] = [records |-> Records(f), torn |-> FALSE]
        /\ DOMAIN files = 1..k /\ Len(files) = k
        /\ names = [n \in Names |-> IF n < k THEN k - n ELSE 0]
    BY <1>1 DEF Left
  <1>3. \A f \in 1..k : Records(f) \in Seq(Nat) /\ Len(Records(f)) = FileRecords
    <2> TAKE f \in 1..k
    <2>1. (f - 1) * FileRecords \in Nat
      OBVIOUS
    <2> QED BY <2>1
  <1>15. \A f \in 1..k : \A a \in Range(files[f].records) :
            \E i \in 1..FileRecords : a = (f - 1) * FileRecords + i
    <2> TAKE f \in 1..k
    <2>1. files[f].records = Records(f) /\ DOMAIN Records(f) = 1..FileRecords
      BY <1>2
    <2>2. \A i \in 1..FileRecords : Records(f)[i] = (f - 1) * FileRecords + i
      OBVIOUS
    <2> HIDE DEF Records
    <2>3. \A a \in Range(Records(f)) : \E i \in 1..FileRecords : a = Records(f)[i]
      BY <2>1 DEF Range
    <2> QED BY <2>1, <2>2, <2>3
  <1>4. files \in Seq(LogFiles)
    <2>1. files = [f \in 1..k |-> [records |-> Records(f), torn |-> FALSE]]
      BY <1>1 DEF Left
    <2>2. \A f \in 1..k : [records |-> Records(f), torn |-> FALSE] \in LogFiles
      BY <1>3 DEF LogFiles
    <2> HIDE DEF Records
    <2> QED BY <2>1, <2>2
  <1>5. k * FileRecords \in Nat
    OBVIOUS
  <1>6. \A f \in 1..k, i \in 1..FileRecords :
          (f - 1) * FileRecords + i \in 0..(k * FileRecords)
    <2> TAKE f \in 1..k, i \in 1..FileRecords
    <2>1. CASE f = k
      <3>1. (k - 1) * FileRecords = k * FileRecords - FileRecords
        BY <2>1
      <3> QED BY <2>1, <3>1, <1>5
    <2>2. CASE f < k
      <3>1. (f - 1) * FileRecords + i < (k - 1) * FileRecords + 1
        BY <2>2, FullFiles
      <3>2. (k - 1) * FileRecords = k * FileRecords - FileRecords
        BY <2>2
      <3>3. (f - 1) * FileRecords \in Nat
        OBVIOUS
      <3> QED BY <3>1, <3>2, <3>3, <1>5
    <2> QED BY <2>1, <2>2
  <1>7. written \subseteq 0..records /\ records \in Nat
    <2>1. written = UNION {Range(files[f].records) : f \in 1..k} /\ records = k * FileRecords
      BY <1>1 DEF Left
    <2>2. ASSUME NEW f \in 1..k, NEW a \in Range(files[f].records)
          PROVE  a \in 0..(k * FileRecords)
      <3>1. \E i \in 1..FileRecords : a = (f - 1) * FileRecords + i
        BY <2>2, <1>15
      <3> QED BY <3>1, <1>6
    <2> QED BY <2>1, <2>2, <1>5
  <1>8. LogTypeOK
    <2>1. names \in [Names -> 0..Len(files)]
      BY <1>2 DEF Names
    <2>2. reader \in Readings
      <3>1. <<>> \in [{} -> [file : Nat, torn : BOOLEAN, length : Nat]]
        OBVIOUS
      <3>2. <<>> \in Snapshots
        BY <3>1 DEF Snapshots
      <3> QED BY <3>2 DEF LogInit, NotReading, Readings
    <2> QED BY <1>4, <1>7, <2>1, <2>2 DEF LogInit, LogTypeOK, NewSink, NoWrite, Sinks, Stores, WithDriver, Names
  <1>9. RingInv
    <2>1. \A n \in Ring : n < k /\ names[n] = k - n /\ names[n] \in 1..k
      BY <1>2 DEF Ring, Names
    <2>2. \A m, n \in Ring : names[m] = names[n] => m = n
      BY <2>1 DEF Ring, Names
    <2>3. \A f \in DOMAIN files : Increasing(files[f].records)
      <3> TAKE f \in DOMAIN files
      <3>1. (f - 1) * FileRecords \in Nat
        BY <1>2
      <3>2. files[f].records = Records(f) /\ Len(Records(f)) = FileRecords
        BY <1>2, <1>3
      <3>3. Increasing(Records(f))
        BY <1>3, <3>1, <3>2 DEF Increasing
      <3> QED BY <3>2, <3>3
    <2>4. ASSUME NEW m \in Ring, NEW n \in Ring, m < n, NEW a \in Recorded(n), NEW b \in Recorded(m)
          PROVE  a < b
      <3>1. names[n] \in 1..k /\ names[m] \in 1..k /\ names[n] < names[m]
        BY <2>1, <2>4 DEF Ring, Names
      <3>2. PICK i \in 1..FileRecords : a = (names[n] - 1) * FileRecords + i
        BY <3>1, <1>15 DEF Recorded
      <3>3. PICK j \in 1..FileRecords : b = (names[m] - 1) * FileRecords + j
        BY <3>1, <1>15 DEF Recorded
      <3> QED BY <3>1, <3>2, <3>3, FullFiles
    <2>5. Held = written
      <3>1. \A f \in 1..k : \E n \in Ring : names[n] = f
        <4> TAKE f \in 1..k
        <4>1. k - f \in Names /\ k - f < k /\ k - (k - f) = f
          BY DEF Names
        <4> QED BY <4>1, <1>2 DEF Ring
      <3>2. written = UNION {Range(files[f].records) : f \in 1..k}
        BY <1>1 DEF Left
      <3> QED BY <2>1, <3>1, <3>2 DEF Held, Recorded
    <2>6. \A n \in Ring : Increasing(files[names[n]].records)
      BY <2>1, <2>3, <1>2
    <2> QED BY <2>2, <2>3, <2>4, <2>5, <2>6 DEF RingInv, LogIsASuffix
  <1>10. StepInv
    BY DEF LogInit, StepInv, NoWrite, NewSink
  <1>11. OrderInv
    BY DEF LogInit, OrderInv, NoWrite, NewSink, WithDriver, Increasing
  <1>12. WorkerInv
    BY DEF LogInit, WorkerInv, NoWrite, NewSink, WithDriver, Idle
  <1>13. ToldInv
    BY OneOrNone DEF LogInit, ToldInv, NoWrite, NewSink, WithDriver
  <1>14. ReaderInv
    BY DEF LogInit, ReaderInv, NotReading, Increasing, Range
  <1> QED BY <1>8, <1>9, <1>10, <1>11, <1>12, <1>13, <1>14 DEF LogInv

-----------------------------------------------------------------------------

\* What startWorker makes of a sink.
LEMMA SinkWorks ==
  ASSUME NEW s \in Sinks, NEW resting \in Stores, SinkBecomes(s, resting)
  PROVE  /\ sink' \in Sinks /\ store' \in Stores
         /\ sink'.abandoned = s.abandoned /\ sink'.degraded = s.degraded
         /\ sink'.dropped = s.dropped /\ sink'.generation = s.generation
         /\ store'.failed = resting.failed
         /\ \/ /\ s.writing = FALSE /\ s.abandoned = FALSE /\ s.queue # <<>>
               /\ sink'.queue = Tail(s.queue) /\ sink'.writing = TRUE
               /\ store'.step = "CALLED" /\ store'.record = Head(s.queue)
               /\ store'.generation = s.generation
            \/ /\ s.writing = TRUE \/ s.abandoned = TRUE \/ s.queue = <<>>
               /\ sink'.queue = s.queue /\ sink'.writing = s.writing
               /\ store' = resting
               /\ sink'.awaited = TRUE => ~Idle(s)
  <1>1. CASE s.writing = FALSE /\ s.abandoned = FALSE /\ s.queue # <<>>
    <2>1. /\ sink' = [s EXCEPT !.queue = Tail(@), !.writing = TRUE]
          /\ store' = [resting EXCEPT !.step = "CALLED", !.record = Head(s.queue),
                                      !.generation = s.generation]
      BY <1>1 DEF SinkBecomes
    <2>2. s.queue \in Seq(Nat) /\ Tail(s.queue) \in Seq(Nat) /\ Head(s.queue) \in Nat
      BY <1>1 DEF Sinks
    <2>3. sink' \in Sinks
      BY <2>1, <2>2 DEF Sinks
    <2>4. store' \in Stores
      BY <2>1, <2>2 DEF Stores, Sinks, WithDriver
    <2> QED BY <1>1, <2>1, <2>3, <2>4 DEF Sinks, Stores
  <1>2. CASE ~(s.writing = FALSE /\ s.abandoned = FALSE /\ s.queue # <<>>)
    <2>1. s.writing \in BOOLEAN /\ s.abandoned \in BOOLEAN /\ s.awaited \in BOOLEAN
      BY DEF Sinks
    <2>2. /\ sink' = [s EXCEPT !.awaited = @ /\ ~Idle(s)]
          /\ store' = resting
      BY <1>2, <2>1 DEF SinkBecomes
    <2>3. sink' \in Sinks
      BY <2>1, <2>2 DEF Sinks, Idle
    <2> QED BY <1>2, <2>1, <2>2, <2>3 DEF Sinks
  <1> QED BY <1>1, <1>2

LEMMA Published ==
  ASSUME LogInv, NEW s \in Sinks, Publish(s),
         s.dropped # sink.dropped \/ s.degraded = sink.degraded
  PROVE  health' = [degraded |-> s.degraded, dropped |-> s.dropped]
  BY DEF Publish, LogInv, ToldInv

\* The sink's steps leave the ring and its readers alone.
LEMMA FilesStay ==
  ASSUME LogInv, UNCHANGED <<names, files, written, reader>>
  PROVE  RingInv' /\ ReaderInv'
  <1>1. RingInv'
    <2>1. Ring' = Ring /\ \A n \in Ring : Recorded(n)' = Recorded(n)
      BY DEF Ring, Recorded
    <2>2. Held' = Held
      BY <2>1 DEF Held
    <2> QED BY <2>1, <2>2 DEF LogInv, RingInv, LogIsASuffix
  <1>2. ReaderInv'
    <2>1. \A n \in reader.left : ReadsFile(n)' = ReadsFile(n)
      BY DEF ReadsFile
    <2> QED BY <2>1 DEF LogInv, ReaderInv
  <1> QED BY <1>1, <1>2

LEMMA SequenceFacts ==
  /\ \A q \in Seq(Nat) : q # <<>> =>
       /\ Tail(q) \in Seq(Nat) /\ Len(Tail(q)) = Len(q) - 1 /\ Len(q) > 0
       /\ Head(q) = q[1] /\ \A i \in 1..Len(Tail(q)) : Tail(q)[i] = q[i + 1]
  /\ \A q \in Seq(Nat), r \in Nat :
       /\ Append(q, r) \in Seq(Nat) /\ Len(Append(q, r)) = Len(q) + 1
       /\ Append(q, r)[Len(q) + 1] = r /\ \A i \in 1..Len(q) : Append(q, r)[i] = q[i]
  OBVIOUS

\* A line that goes to the driver is one that waits no more.
LEMMA WaitsAsMuch ==
  ASSUME NEW s \in Sinks, NEW resting \in Stores, SinkBecomes(s, resting)
  PROVE  Len(sink'.queue) + InFlight(sink') = Len(s.queue) + InFlight(s)
  <1>1. s.queue # <<>> => Len(Tail(s.queue)) = Len(s.queue) - 1 /\ Len(s.queue) \in Nat
    BY SequenceFacts DEF Sinks
  <1>2. \/ /\ s.writing = FALSE /\ s.queue # <<>>
           /\ sink'.queue = Tail(s.queue) /\ sink'.writing = TRUE
        \/ sink'.queue = s.queue /\ sink'.writing = s.writing
    BY SinkWorks
  <1>3. InFlight(s) \in {0, 1} /\ Len(s.queue) \in Nat
    BY OneOrNone DEF Sinks
  <1>4. CASE /\ s.writing = FALSE /\ s.queue # <<>>
             /\ sink'.queue = Tail(s.queue) /\ sink'.writing = TRUE
    <2>1. InFlight(s) = 0 /\ InFlight(sink') = 1
      BY <1>4, OneOrNone
    <2>2. Len(sink'.queue) = Len(s.queue) - 1
      BY <1>1, <1>4
    <2> QED BY <1>3, <2>1, <2>2
  <1>5. CASE sink'.queue = s.queue /\ sink'.writing = s.writing
    <2>1. InFlight(sink') = InFlight(s)
      BY <1>5, OneOrNone DEF Sinks
    <2> QED BY <1>5, <2>1
  <1> QED BY <1>2, <1>4, <1>5

\* A worker that goes on from a sink s that waits in order, with nothing else
\* at its driver unless it is writing.
LEMMA SinkGoesOn ==
  ASSUME LogInv, NEW s \in Sinks, NEW resting \in Stores, SinkBecomes(s, resting),
         UNCHANGED <<names, files, written>>,
         records' \in Nat, records <= records',
         \* what it waits for
         Increasing(s.queue),
         \A i \in 1..Len(s.queue) :
           /\ s.queue[i] <= records'
           /\ \A a \in written : a < s.queue[i]
           /\ resting.step \in WithDriver => resting.record < s.queue[i],
         resting.step \in WithDriver => store.step \in WithDriver /\ resting.record = store.record,
         \* what it does
         s.writing = TRUE => resting.step # "NONE" /\ resting.generation = s.generation,
         s.writing = FALSE /\ resting.step # "NONE" =>
           s.abandoned = TRUE /\ resting.generation < s.generation,
         s.abandoned = TRUE => s.queue = <<>> /\ s.writing = FALSE,
         s.awaited = TRUE => s.writing = TRUE \/ s.queue # <<>> \/ sink'.awaited = FALSE,
         \* where its files are
         resting.step \in {store.step, "NONE"}, resting.turn = store.turn \/ resting.step = "NONE",
         resting.failed = store.failed,
         resting.step = "NONE" => store.step \in {"NONE", "RESOLVED", "REJECTED"},
         store.step = "REJECTED" /\ resting.step = "NONE" => s.abandoned = TRUE \/ store.failed = TRUE,
         sink.abandoned = TRUE => s.abandoned = TRUE
  PROVE  StepInv' /\ OrderInv' /\ WorkerInv'
  <1>1. /\ sink' \in Sinks /\ store' \in Stores
        /\ sink'.abandoned = s.abandoned /\ sink'.generation = s.generation
        /\ store'.failed = resting.failed
    BY SinkWorks
  <1>2. CASE /\ s.writing = FALSE /\ s.abandoned = FALSE /\ s.queue # <<>>
             /\ sink'.queue = Tail(s.queue) /\ sink'.writing = TRUE
             /\ store'.step = "CALLED" /\ store'.record = Head(s.queue)
             /\ store'.generation = s.generation
    <2>1. StepInv'
      BY <1>1, <1>2 DEF LogInv, StepInv, LogTypeOK, Stores, Sinks
    <2>2. OrderInv'
      <3>1. s.queue \in Seq(Nat) BY DEF Sinks
      <3>2. Increasing(Tail(s.queue))
        BY <1>2, <3>1, SequenceFacts DEF Increasing
      <3>3. \A i \in 1..Len(Tail(s.queue)) :
              /\ i + 1 \in 1..Len(s.queue) /\ Tail(s.queue)[i] = s.queue[i + 1]
              /\ Head(s.queue) < Tail(s.queue)[i]
        BY <1>2, <3>1, SequenceFacts DEF Increasing
      <3>4. 1 \in 1..Len(s.queue) /\ Head(s.queue) = s.queue[1]
        BY <1>2, <3>1, SequenceFacts
      <3> QED BY <1>2, <3>2, <3>3, <3>4 DEF OrderInv
    <2>3. WorkerInv'
      BY <1>1, <1>2 DEF WorkerInv, Idle
    <2> QED BY <2>1, <2>2, <2>3
  <1>3. CASE /\ s.writing = TRUE \/ s.abandoned = TRUE \/ s.queue = <<>>
             /\ sink'.queue = s.queue /\ sink'.writing = s.writing
             /\ store' = resting
             /\ sink'.awaited = TRUE => ~Idle(s)
    <2>1. StepInv'
      BY <1>1, <1>3 DEF LogInv, StepInv, LogTypeOK, Stores, Sinks
    <2>2. OrderInv'
      <3>1. store'.step \in WithDriver =>
              store'.record <= records' /\ \A a \in written' : a < store'.record
        BY <1>3 DEF LogInv, OrderInv, LogTypeOK, Stores
      <3>2. Increasing(sink'.queue)
        BY <1>3
      <3> QED BY <1>3, <3>1, <3>2 DEF OrderInv
    <2>3. WorkerInv'
      BY <1>1, <1>3 DEF WorkerInv, Idle, Sinks
    <2> QED BY <2>1, <2>2, <2>3
  <1> QED BY <1>2, <1>3, SinkWorks

LEMMA IncreasesOn ==
  ASSUME NEW q \in Seq(Nat), NEW r \in Nat, Increasing(q), \A i \in 1..Len(q) : q[i] < r
  PROVE  Increasing(Append(q, r))
  <1>1. \A i \in 1..(Len(q) + 1) : Append(q, r)[i] = IF i = Len(q) + 1 THEN r ELSE q[i]
    BY SequenceFacts
  <1>2. Len(Append(q, r)) = Len(q) + 1 /\ Len(q) \in Nat
    BY SequenceFacts
  <1>3. \A i \in 1..Len(q) : q[i] \in Nat
    OBVIOUS
  <1> QED BY <1>1, <1>2, <1>3 DEF Increasing

\* A new record is dropped at once, or waits behind all others.
LEMMA Offers ==
  ASSUME LogInv, Append1
  PROVE  LogInv'
  <1>1. /\ UNCHANGED <<names, files, written, opened, reader>>
        /\ records' = records + 1 /\ opened.up = TRUE
        /\ counts' = [counts EXCEPT !.offered = @ + 1]
    BY DEF Append1
  <1>2. sink \in Sinks /\ store \in Stores /\ records \in Nat /\ sink.queue \in Seq(Nat)
    BY DEF LogInv, LogTypeOK, Sinks
  <1>3. PICK s : /\ SinkBecomes(s, store)
                 /\ \/ s = Drop(sink, 1)
                    \/ /\ sink.abandoned = FALSE
                       /\ s = [sink EXCEPT !.queue = Append(@, records + 1)]
    BY <1>2 DEF Append1, Sinks
  <1>4. /\ s \in Sinks
        /\ s.writing = sink.writing /\ s.abandoned = sink.abandoned
        /\ s.generation = sink.generation /\ s.awaited = sink.awaited
        /\ \/ s.queue = sink.queue /\ s.dropped = sink.dropped + 1
           \/ /\ sink.abandoned = FALSE /\ s.queue = Append(sink.queue, records + 1)
              /\ s.dropped = sink.dropped /\ s.degraded = sink.degraded
    <2>1. CASE s = Drop(sink, 1)
      <3>1. s = [sink EXCEPT !.degraded = TRUE, !.dropped = @ + 1]
        BY <2>1 DEF Drop
      <3>2. sink.dropped + 1 \in Nat
        BY <1>2 DEF Sinks
      <3>3. s \in Sinks
        BY <1>2, <3>1, <3>2 DEF Sinks
      <3> QED BY <1>2, <3>1, <3>3 DEF Sinks
    <2>2. CASE sink.abandoned = FALSE /\ s = [sink EXCEPT !.queue = Append(@, records + 1)]
      <3>1. Append(sink.queue, records + 1) \in Seq(Nat)
        BY <1>2, SequenceFacts
      <3> QED BY <1>2, <2>2, <3>1 DEF Sinks
    <2> QED BY <1>3, <2>1, <2>2
  <1>5. sink' \in Sinks /\ store' \in Stores
    BY <1>2, <1>3, <1>4, SinkWorks
  <1>6. StepInv' /\ OrderInv' /\ WorkerInv'
    <2>1. Increasing(s.queue)
      <3>1. \A i \in 1..Len(sink.queue) : sink.queue[i] < records + 1
        BY <1>2 DEF LogInv, OrderInv
      <3>2. Increasing(sink.queue)
        BY DEF LogInv, OrderInv
      <3>3. CASE s.queue = Append(sink.queue, records + 1)
        <4>1. records + 1 \in Nat
          BY <1>2
        <4> QED BY <1>2, <3>1, <3>2, <3>3, <4>1, IncreasesOn
      <3> QED BY <1>4, <3>2, <3>3
    <2>2. \A i \in 1..Len(s.queue) :
            /\ s.queue[i] <= records'
            /\ \A a \in written : a < s.queue[i]
            /\ store.step \in WithDriver => store.record < s.queue[i]
      <3>1. CASE s.queue = sink.queue
        BY <1>1, <1>2, <3>1 DEF LogInv, OrderInv
      <3>2. CASE s.queue = Append(sink.queue, records + 1)
        <4> TAKE i \in 1..Len(s.queue)
        <4>1. CASE i \in 1..Len(sink.queue)
          <5>1. s.queue[i] = sink.queue[i] /\ sink.queue[i] \in Nat
            BY <1>2, <3>2, <4>1, SequenceFacts
          <5> QED BY <1>1, <1>2, <4>1, <5>1 DEF LogInv, OrderInv
        <4>2. CASE i = Len(sink.queue) + 1
          <5>1. s.queue[i] = records + 1
            BY <1>2, <3>2, <4>2, SequenceFacts
          <5>2. store.step \in WithDriver => store.record < records + 1
            BY <1>2 DEF LogInv, OrderInv, Stores
          <5>3. \A a \in written : a < records + 1
            BY <1>2 DEF LogInv, LogTypeOK
          <5> QED BY <1>1, <5>1, <5>2, <5>3, <1>2
        <4> QED BY <1>2, <3>2, <4>1, <4>2, SequenceFacts
      <3> QED BY <1>4, <3>1, <3>2
    <2>3. s.abandoned = TRUE => s.queue = <<>> /\ s.writing = FALSE
      BY <1>2, <1>4 DEF LogInv, WorkerInv, Sinks
    <2>4. /\ s.writing = TRUE => store.step # "NONE" /\ store.generation = s.generation
          /\ s.writing = FALSE /\ store.step # "NONE" =>
               s.abandoned = TRUE /\ store.generation < s.generation
          /\ s.awaited = TRUE => s.writing = TRUE \/ s.queue # <<>> \/ sink'.awaited = FALSE
      BY <1>2, <1>4 DEF LogInv, WorkerInv, Sinks, Idle
    <2>5. /\ store.step = "NONE" => store.step \in {"NONE", "RESOLVED", "REJECTED"}
          /\ store.step \in {store.step, "NONE"}
          /\ ~(store.step = "REJECTED" /\ store.step = "NONE")
      OBVIOUS
    <2>6. records' \in Nat /\ records <= records'
      BY <1>1, <1>2
    <2> QED BY <1>1, <1>2, <1>3, <1>4, <2>1, <2>2, <2>3, <2>4, <2>5, <2>6, SinkGoesOn
  <1>7. ToldInv'
    <2>1. health' = [degraded |-> s.degraded, dropped |-> s.dropped]
      <3>1. Publish(s) /\ sink.dropped \in Nat
        BY <1>2, <1>3 DEF SinkBecomes, Sinks
      <3> QED BY <1>4, <3>1, Published
    <2>2. /\ counts'.offered = counts.offered + 1 /\ counts'.acknowledged = counts.acknowledged
          /\ counts'.landed = counts.landed
      BY <1>1 DEF LogInv, LogTypeOK
    <2>3. /\ s.queue \in Seq(Nat) /\ s.writing \in BOOLEAN /\ s.dropped \in Nat
          /\ counts.offered \in Nat /\ counts.acknowledged \in Nat /\ counts.landed \in Nat
      BY <1>4 DEF Sinks, LogInv, LogTypeOK
    <2>4. counts'.offered = Len(sink'.queue) + InFlight(sink')
                            + counts'.acknowledged + sink'.dropped
      <3>1. counts.offered + 1 = Len(s.queue) + InFlight(s)
                                 + counts.acknowledged + s.dropped
        <4> DEFINE o == counts.offered  q == Len(sink.queue)  i == InFlight(sink)
                   a == counts.acknowledged  d == sink.dropped
        <4>1. o = q + i + a + d
          BY DEF LogInv, ToldInv
        <4>2. sink.dropped \in Nat /\ Len(sink.queue) \in Nat /\ sink.writing \in BOOLEAN
          BY <1>2 DEF Sinks
        <4>3. InFlight(s) = InFlight(sink) /\ InFlight(sink) \in {0, 1}
          BY <1>4, <4>2, OneOrNone
        <4>4. o \in Nat /\ q \in Nat /\ i \in Nat /\ a \in Nat /\ d \in Nat
          BY <2>3, <4>2, <4>3
        <4>5. CASE s.queue = sink.queue /\ s.dropped = sink.dropped + 1
          <5>1. Len(s.queue) = q /\ s.dropped = d + 1 /\ InFlight(s) = i
            BY <4>3, <4>5
          <5> HIDE DEF o, q, i, a, d
          <5>2. o + 1 = q + i + a + (d + 1)
            BY ONLY <4>1, <4>4, OneMoreDropped
          <5>3. o + 1 = Len(s.queue) + InFlight(s) + a + s.dropped
            BY ONLY <5>1, <5>2
          <5> QED BY ONLY <5>3 DEF o, a
        <4>6. CASE s.queue = Append(sink.queue, records + 1) /\ s.dropped = sink.dropped
          <5>1. Len(s.queue) = q + 1
            BY <1>2, <4>6, SequenceFacts
          <5>2. s.dropped = d /\ InFlight(s) = i
            BY <4>3, <4>6
          <5> HIDE DEF o, q, i, a, d
          <5>3. o + 1 = (q + 1) + i + a + d
            BY ONLY <4>1, <4>4, OneMoreWaiting
          <5>4. o + 1 = Len(s.queue) + InFlight(s) + a + s.dropped
            BY ONLY <5>1, <5>2, <5>3
          <5> QED BY ONLY <5>4 DEF o, a
        <4> QED BY <1>4, <4>5, <4>6
      <3>2. Len(sink'.queue) + InFlight(sink')
              = Len(s.queue) + InFlight(s)
        BY <1>2, <1>3, <1>4, WaitsAsMuch
      <3>3. sink'.dropped = s.dropped
        BY <1>2, <1>3, <1>4, SinkWorks
      <3>4. Len(sink'.queue) \in Nat
        BY <1>5 DEF Sinks
      <3> QED BY <2>2, <2>3, <3>1, <3>2, <3>3, <3>4
    <2>5. /\ store'.step \in WithDriver => counts.landed = counts.acknowledged
          /\ ~sink'.abandoned /\ store'.step = "NONE" => counts.landed = counts.acknowledged
          /\ store'.step = "RESOLVED" => counts.landed = counts.acknowledged + 1
      <3>1. \/ /\ s.writing = FALSE /\ s.abandoned = FALSE /\ store'.step = "CALLED"
            \/ store'.step = store.step
        BY <1>2, <1>3, <1>4, SinkWorks
      <3>2. sink'.abandoned = sink.abandoned /\ sink.abandoned \in BOOLEAN /\ sink.writing \in BOOLEAN
        BY <1>2, <1>3, <1>4, SinkWorks DEF Sinks
      <3>3. s.writing = FALSE /\ s.abandoned = FALSE => store.step = "NONE"
        BY <1>4, <3>2 DEF LogInv, WorkerInv
      <3> QED BY <1>4, <3>1, <3>2, <3>3 DEF LogInv, ToldInv, WithDriver
    <2>6. sink'.degraded = s.degraded /\ sink'.dropped = s.dropped
      BY <1>2, <1>3, <1>4, SinkWorks
    <2> QED BY <1>1, <2>1, <2>2, <2>4, <2>5, <2>6 DEF LogInv, ToldInv
  <1>8. LogTypeOK'
    <2>1. health' \in [degraded : BOOLEAN, dropped : Nat]
      <3>1. health' = health \/ health' = [degraded |-> s.degraded, dropped |-> s.dropped]
        BY <1>2, <1>3 DEF SinkBecomes, Publish
      <3>2. s.degraded \in BOOLEAN /\ s.dropped \in Nat
        BY <1>4 DEF Sinks
      <3> QED BY <3>1, <3>2 DEF LogInv, LogTypeOK
    <2>2. counts' \in [offered : Nat, acknowledged : Nat, landed : Nat]
      <3>1. counts \in [offered : Nat, acknowledged : Nat, landed : Nat]
        BY DEF LogInv, LogTypeOK
      <3> QED BY ONLY <1>1, <3>1
    <2>3. written' \subseteq 0..records' /\ records' \in Nat
      BY <1>1, <1>2 DEF LogInv, LogTypeOK
    <2> QED BY <1>1, <1>5, <2>1, <2>2, <2>3 DEF LogInv, LogTypeOK
  <1>9. RingInv' /\ ReaderInv'
    BY <1>1, FilesStay
  <1> QED BY <1>6, <1>7, <1>8, <1>9 DEF LogInv

LEMMA FailedDriver ==
  ASSUME LogInv
  PROVE  /\ FailDriver \in Sinks
         /\ FailDriver.queue = <<>> /\ FailDriver.writing = FALSE
         /\ FailDriver.abandoned = TRUE /\ FailDriver.degraded = TRUE
         /\ FailDriver.generation = sink.generation
         /\ FailDriver.awaited = sink.awaited
         /\ FailDriver.dropped = sink.dropped + Len(sink.queue) + InFlight(sink)
  <1> DEFINE n == Len(sink.queue) + (IF sink.writing THEN 1 ELSE 0)
  <1>1. sink \in Sinks /\ Len(sink.queue) \in Nat /\ sink.dropped \in Nat /\ sink.writing \in BOOLEAN
    BY DEF LogInv, LogTypeOK, Sinks
  <1>2. n = Len(sink.queue) + InFlight(sink)
    BY DEF InFlight
  <1>3. InFlight(sink) \in {0, 1}
    BY <1>1, OneOrNone
  <1> HIDE DEF n
  <1>4. sink.dropped + n \in Nat /\ sink.dropped + n = sink.dropped + Len(sink.queue) + InFlight(sink)
    BY <1>1, <1>2, <1>3
  <1>5. FailDriver = [Drop(sink, n) EXCEPT !.writing = FALSE, !.abandoned = TRUE, !.queue = <<>>]
    BY DEF FailDriver, n
  <1>6. /\ Drop(sink, n) \in Sinks /\ Drop(sink, n).degraded = TRUE
        /\ Drop(sink, n).dropped = sink.dropped + n
        /\ Drop(sink, n).generation = sink.generation /\ Drop(sink, n).awaited = sink.awaited
    BY <1>1, <1>4 DEF Drop, Sinks
  <1>7. FailDriver \in Sinks
    <2>1. <<>> \in Seq(Nat)
      OBVIOUS
    <2> QED BY <1>5, <1>6, <2>1 DEF Sinks
  <1> QED BY <1>4, <1>5, <1>6, <1>7 DEF Sinks

\* What is left when a line has been answered.
LEMMA Rests ==
  ASSUME LogInv, NEW resting, resting = [NoWrite EXCEPT !.failed = store.failed]
  PROVE  resting \in Stores /\ resting.step = "NONE" /\ resting.failed = store.failed
  <1>1. NoWrite \in Stores /\ NoWrite.step = "NONE"
    BY RuntimeLogAssumption DEF Stores, NoWrite, Names
  <1> QED BY <1>1 DEF LogInv, LogTypeOK, Stores

\* The worker's line is answered, or the answer comes too late.
LEMMA SettledKeeps ==
  ASSUME LogInv, WriteSettles
  PROVE  LogInv'
  <1>1. /\ UNCHANGED <<names, files, written, opened, records, reader>>
        /\ opened.up = TRUE /\ store.step \in {"RESOLVED", "REJECTED"}
    BY DEF WriteSettles
  <1>2. sink \in Sinks /\ store \in Stores /\ records \in Nat /\ sink.queue \in Seq(Nat)
        /\ sink.writing \in BOOLEAN /\ sink.abandoned \in BOOLEAN
    BY DEF LogInv, LogTypeOK, Sinks
  <1>3. RingInv' /\ ReaderInv'
    BY <1>1, FilesStay
  <1>4. PICK resting : resting = [NoWrite EXCEPT !.failed = store.failed]
    OBVIOUS
  <1>5. resting \in Stores /\ resting.step = "NONE" /\ resting.failed = store.failed
    BY <1>4, Rests
  <1>6. /\ written' \subseteq 0..records' /\ records' \in Nat
        /\ files' \in Seq(LogFiles) /\ names' \in [Names -> 0..Len(files')]
        /\ opened' \in [processes : Nat, up : BOOLEAN] /\ reader' \in Readings
    BY <1>1 DEF LogInv, LogTypeOK
  <1>7. CASE store.generation # sink.generation
    <2>1. store' = resting /\ UNCHANGED <<sink, health, counts>>
      BY <1>4, <1>7 DEF WriteSettles
    <2>2. sink.writing = FALSE /\ sink.abandoned = TRUE /\ sink.queue = <<>>
      BY <1>1, <1>2, <1>7 DEF LogInv, WorkerInv
    <2>3. LogTypeOK'
      BY <1>5, <1>6, <2>1 DEF LogInv, LogTypeOK
    <2>4. StepInv'
      BY <1>1, <1>5, <2>1, <2>2 DEF LogInv, StepInv
    <2>5. OrderInv'
      BY <1>1, <1>5, <2>1, <2>2 DEF OrderInv, WithDriver, Increasing
    <2>6. WorkerInv'
      BY <1>5, <2>1, <2>2 DEF LogInv, WorkerInv
    <2>7. ToldInv'
      BY <1>1, <1>5, <2>1, <2>2 DEF LogInv, ToldInv, WithDriver
    <2> QED BY <1>3, <2>3, <2>4, <2>5, <2>6, <2>7 DEF LogInv
  <1>8. CASE store.generation = sink.generation /\ store.step = "REJECTED"
    <2>1. SinkBecomes(FailDriver, resting) /\ UNCHANGED counts
      BY <1>4, <1>8 DEF WriteSettles
    <2>2. sink.writing = TRUE
      BY <1>1, <1>2, <1>8 DEF LogInv, WorkerInv, LogTypeOK, Sinks, Stores
    <2>3. /\ sink' \in Sinks /\ store' = resting /\ sink'.abandoned = TRUE
          /\ sink'.queue = <<>> /\ sink'.writing = FALSE /\ sink'.degraded = TRUE
          /\ sink'.dropped = FailDriver.dropped /\ sink'.awaited # TRUE
      BY <1>5, <2>1, FailedDriver, SinkWorks DEF Idle
    <2>4. StepInv' /\ OrderInv' /\ WorkerInv'
      <3>1. StepInv'
        BY <1>1, <1>5, <2>3 DEF LogInv, StepInv
      <3>2. OrderInv'
        BY <1>1, <1>5, <2>3 DEF OrderInv, WithDriver, Increasing
      <3>3. WorkerInv'
        BY <1>5, <2>3 DEF WorkerInv, Sinks
      <3> QED BY <3>1, <3>2, <3>3
    <2>5. InFlight(sink) = 1 /\ InFlight(sink') = 0 /\ Len(sink.queue) \in Nat
      BY <1>2, <2>2, <2>3, OneOrNone
    <2>6. sink.dropped \in Nat
      BY <1>2 DEF Sinks
    <2>7. health' = [degraded |-> sink'.degraded, dropped |-> sink'.dropped]
      <3>1. Publish(FailDriver)
        BY <2>1 DEF SinkBecomes
      <3>2. FailDriver.dropped # sink.dropped
        BY <2>5, <2>6, FailedDriver
      <3> QED BY <2>3, <3>1, <3>2, FailedDriver, Published
    <2>8. ToldInv'
      <3>1. counts.offered = Len(sink.queue) + 1 + counts.acknowledged + sink.dropped
        BY <2>5 DEF LogInv, ToldInv
      <3>2. sink'.dropped = sink.dropped + Len(sink.queue) + 1
        BY <2>3, <2>5, FailedDriver
      <3>3. counts'.offered = Len(sink'.queue) + InFlight(sink') + counts'.acknowledged + sink'.dropped
        <4>1. counts.acknowledged \in Nat /\ Len(sink'.queue) = 0
          BY <2>3 DEF LogInv, LogTypeOK
        <4> QED BY <2>1, <2>5, <2>6, <3>1, <3>2, <4>1
      <3>4. counts.landed \in counts.acknowledged..(counts.acknowledged + 1)
        BY DEF LogInv, ToldInv
      <3> QED BY <1>1, <1>5, <2>1, <2>3, <2>7, <3>3, <3>4 DEF LogInv, ToldInv, WithDriver
    <2>9. LogTypeOK'
      <3>1. health' \in [degraded : BOOLEAN, dropped : Nat]
        BY <2>3, <2>7 DEF Sinks
      <3> QED BY <1>5, <1>6, <2>1, <2>3, <3>1 DEF LogInv, LogTypeOK
    <2> QED BY <1>3, <2>4, <2>8, <2>9 DEF LogInv
  <1>9. CASE store.generation = sink.generation /\ store.step = "RESOLVED"
    <2> DEFINE s == [sink EXCEPT !.writing = FALSE]
    <2>1. SinkBecomes(s, resting) /\ counts' = [counts EXCEPT !.acknowledged = @ + 1]
      BY <1>4, <1>9 DEF WriteSettles
    <2>2. sink.writing = TRUE
      BY <1>1, <1>2, <1>9 DEF LogInv, WorkerInv, LogTypeOK, Sinks, Stores
    <2>3. /\ s \in Sinks /\ s.queue = sink.queue /\ s.writing = FALSE
          /\ s.abandoned = sink.abandoned /\ s.dropped = sink.dropped
          /\ s.degraded = sink.degraded /\ s.generation = sink.generation
          /\ s.awaited = sink.awaited /\ s.abandoned = FALSE
      BY <1>2, <2>2 DEF Sinks, LogInv, WorkerInv
    <2> HIDE DEF s
    <2>4. /\ sink' \in Sinks /\ store' \in Stores /\ sink'.dropped = sink.dropped
          /\ sink'.degraded = sink.degraded /\ sink'.abandoned = FALSE
          /\ store'.step \in {"CALLED", "NONE"}
          /\ sink'.awaited = TRUE => s.queue # <<>> \/ sink'.awaited = FALSE
      BY <1>5, <2>1, <2>3, SinkWorks DEF Idle
    <2>5. StepInv' /\ OrderInv' /\ WorkerInv'
      <3>1. Increasing(s.queue) /\ \A i \in 1..Len(s.queue) :
               s.queue[i] <= records /\ \A a \in written : a < s.queue[i]
        BY <2>3 DEF LogInv, OrderInv
      <3>2. records <= records /\ records' = records
        BY <1>1, <1>2
      <3>3. resting.step \notin WithDriver
        BY <1>5 DEF WithDriver
      <3>4. s.awaited = TRUE => s.writing = TRUE \/ s.queue # <<>> \/ sink'.awaited = FALSE
        BY <2>1, <2>3, <2>4, <1>5, SinkWorks DEF Idle, Sinks
      <3> QED BY <1>1, <1>2, <1>5, <1>9, <2>1, <2>3, <2>4, <3>1, <3>2, <3>3, <3>4, SinkGoesOn
    <2>6. health' = [degraded |-> sink'.degraded, dropped |-> sink'.dropped]
      <3>1. Publish(s)
        BY <2>1 DEF SinkBecomes
      <3> QED BY <2>3, <2>4, <3>1, Published
    <2>7. /\ counts' \in [offered : Nat, acknowledged : Nat, landed : Nat]
          /\ counts'.offered = counts.offered /\ counts'.landed = counts.landed
          /\ counts'.acknowledged = counts.acknowledged + 1
      BY <2>1 DEF LogInv, LogTypeOK
    <2>8. counts'.offered = Len(sink'.queue) + InFlight(sink') + counts'.acknowledged + sink'.dropped
      <3> DEFINE o == counts.offered  p == Len(sink'.queue) + InFlight(sink')
                 q == Len(sink.queue)  a == counts.acknowledged  d == sink.dropped
      <3>1. o = q + 1 + a + d
        BY <2>2, OneOrNone DEF LogInv, ToldInv
      <3>2. p = q
        <4>1. InFlight(s) = 0 /\ Len(sink.queue) \in Nat
          BY <1>2, <2>3, OneOrNone
        <4> QED BY <1>5, <2>1, <2>3, <4>1, WaitsAsMuch
      <3>3. o \in Nat /\ q \in Nat /\ a \in Nat /\ d \in Nat
        BY <1>2 DEF Sinks, LogInv, LogTypeOK
      <3>4. counts'.offered = o /\ sink'.dropped = d /\ counts'.acknowledged = a + 1
        BY <2>4, <2>7
      <3>5. o = p + (a + 1) + d
        <4> HIDE DEF o, p, q, a, d
        <4>1. p \in Nat
          BY ONLY <3>2, <3>3
        <4> QED BY ONLY <3>1, <3>2, <3>3, <4>1, OneMoreAcknowledged
      <3> HIDE DEF o, a, d
      <3>6. counts'.offered = p + counts'.acknowledged + sink'.dropped
        BY ONLY <3>4, <3>5
      <3> QED BY ONLY <3>6
    <2>9. ToldInv'
      <3>1. counts'.landed = counts'.acknowledged /\ counts'.acknowledged \in Nat
        BY <1>9, <2>7 DEF LogInv, ToldInv
      <3> QED BY <1>1, <2>4, <2>6, <2>8, <3>1 DEF LogInv, ToldInv, WithDriver
    <2>10. LogTypeOK'
      <3>1. health' \in [degraded : BOOLEAN, dropped : Nat]
        BY <2>4, <2>6 DEF Sinks
      <3> QED BY <1>6, <2>4, <2>7, <3>1 DEF LogInv, LogTypeOK
    <2> QED BY <1>3, <2>5, <2>9, <2>10 DEF LogInv
  <1> QED BY <1>1, <1>7, <1>8, <1>9

\* A wait for an idle sink begins, or its deadline ends it.
LEMMA Waits ==
  ASSUME LogInv, \/ \E close \in BOOLEAN : FlushOrClose(close)
                 \/ SettleTimeout
  PROVE  LogInv'
  <1>1. /\ UNCHANGED <<names, files, written, store, counts, opened, records, reader>>
        /\ opened.up = TRUE
    BY DEF FlushOrClose, SettleTimeout
  <1>2. sink \in Sinks /\ store \in Stores /\ records \in Nat /\ sink.queue \in Seq(Nat)
        /\ sink.writing \in BOOLEAN /\ sink.abandoned \in BOOLEAN /\ sink.dropped \in Nat
        /\ Len(sink.queue) \in Nat /\ sink.generation \in Nat
    BY DEF LogInv, LogTypeOK, Sinks
  <1>3. RingInv' /\ ReaderInv'
    BY <1>1, FilesStay
  <1>4. CASE \E close \in BOOLEAN : FlushOrClose(close)
    <2>1. /\ sink' \in Sinks /\ sink'.queue = sink.queue /\ sink'.writing = sink.writing
          /\ sink'.abandoned = sink.abandoned /\ sink'.degraded = sink.degraded
          /\ sink'.dropped = sink.dropped /\ sink'.generation = sink.generation
          /\ sink'.awaited = TRUE => ~Idle(sink)
      <3>1. PICK close \in BOOLEAN :
              sink' = [sink EXCEPT !.closed = @ \/ close, !.awaited = ~Idle(sink)]
        BY <1>4 DEF FlushOrClose
      <3>2. (sink.closed \/ close) \in BOOLEAN /\ (~Idle(sink)) \in BOOLEAN
        BY <1>2 DEF Sinks, Idle
      <3> QED BY <1>2, <3>1, <3>2 DEF Sinks
    <2>2. UNCHANGED health
      BY <1>4 DEF FlushOrClose
    <2>3. LogTypeOK'
      BY <1>1, <2>1, <2>2 DEF LogInv, LogTypeOK
    <2>4. StepInv' /\ WorkerInv'
      BY <1>1, <2>1 DEF LogInv, StepInv, WorkerInv, Idle
    <2>5. OrderInv'
      BY <1>1, <2>1 DEF LogInv, OrderInv
    <2>6. ToldInv'
      <3>1. InFlight(sink') = InFlight(sink)
        BY <1>2, <2>1, OneOrNone
      <3> QED BY <1>1, <2>1, <2>2, <3>1 DEF LogInv, ToldInv
    <2> QED BY <1>3, <2>3, <2>4, <2>5, <2>6 DEF LogInv
  <1>5. CASE SettleTimeout
    <2>1. sink.awaited = TRUE /\ sink' = [FailDriver EXCEPT !.generation = @ + 1, !.awaited = FALSE]
          /\ Publish(sink')
      BY <1>5 DEF SettleTimeout, LogInv, LogTypeOK, Sinks
    <2>2. /\ sink' \in Sinks /\ sink'.queue = <<>> /\ sink'.writing = FALSE
          /\ sink'.abandoned = TRUE /\ sink'.degraded = TRUE /\ sink'.awaited = FALSE
          /\ sink'.dropped = sink.dropped + Len(sink.queue) + InFlight(sink)
          /\ sink'.generation = sink.generation + 1
      <3>1. FailDriver.generation + 1 \in Nat
        BY <1>2, FailedDriver
      <3> HIDE DEF FailDriver
      <3> QED BY <2>1, <3>1, FailedDriver DEF Sinks
    <2>3. sink.dropped # sink'.dropped
      <3>1. sink.writing = TRUE \/ sink.queue # <<>>
        BY <1>2, <2>1 DEF LogInv, WorkerInv, Idle
      <3>2. sink.queue # <<>> => Len(sink.queue) > 0
        BY <1>2
      <3>3. InFlight(sink) \in {0, 1} /\ (sink.writing = TRUE => InFlight(sink) = 1)
        BY <1>2, OneOrNone
      <3> QED BY <1>2, <2>2, <3>1, <3>2, <3>3
    <2>4. health' = [degraded |-> sink'.degraded, dropped |-> sink'.dropped]
      BY <2>1, <2>3 DEF Publish
    <2>5. LogTypeOK'
      <3>1. health' \in [degraded : BOOLEAN, dropped : Nat]
        BY <2>2, <2>4 DEF Sinks
      <3> QED BY <1>1, <2>2, <3>1 DEF LogInv, LogTypeOK
    <2>6. StepInv'
      <3>1. ~sink.abandoned \/ sink'.abandoned
        BY <2>2
      <3> QED BY <1>1, <2>2, <3>1 DEF LogInv, StepInv
    <2>7. OrderInv'
      BY <1>1, <2>2 DEF LogInv, OrderInv, Increasing
    <2>8. WorkerInv'
      <3>1. store.generation \in Nat
        BY <1>2 DEF Stores
      <3>2. store.step # "NONE" => store.generation < sink.generation + 1
        BY <1>2, <3>1 DEF LogInv, WorkerInv
      <3> QED BY <1>1, <2>2, <3>2 DEF WorkerInv
    <2>9. ToldInv'
      <3>1. InFlight(sink') = 0 /\ InFlight(sink) \in {0, 1} /\ Len(sink'.queue) = 0
        BY <1>2, <2>2, OneOrNone
      <3>2. counts'.offered = Len(sink'.queue) + InFlight(sink') + counts'.acknowledged + sink'.dropped
        <4>1. counts.acknowledged \in Nat
              /\ counts.offered = Len(sink.queue) + InFlight(sink) + counts.acknowledged + sink.dropped
          BY DEF LogInv, LogTypeOK, ToldInv
        <4>2. /\ sink'.dropped = sink.dropped + Len(sink.queue) + InFlight(sink)
              /\ counts'.offered = counts.offered /\ counts'.acknowledged = counts.acknowledged
          BY <1>1, <2>2
        <4>3. sink.dropped \in Nat /\ Len(sink.queue) \in Nat
          BY <1>2
        <4> QED BY <3>1, <4>1, <4>2, <4>3
      <3> QED BY <1>1, <2>2, <2>4, <3>2 DEF LogInv, ToldInv
    <2> QED BY <1>3, <2>5, <2>6, <2>7, <2>8, <2>9 DEF LogInv
  <1> QED BY <1>4, <1>5

-----------------------------------------------------------------------------

\* Files keep what they hold: a longer list, or longer files.
Grown ==
  /\ Len(files') >= Len(files)
  /\ \A f \in 1..Len(files) :
       /\ Len(files'[f].records) >= Len(files[f].records)
       /\ \A i \in 1..Len(files[f].records) : files'[f].records[i] = files[f].records[i]

LEMMA FileIs ==
  ASSUME NEW x \in Seq(LogFiles), NEW f \in 1..Len(x)
  PROVE  /\ x[f] \in LogFiles
         /\ x[f].records \in Seq(Nat) /\ x[f].torn \in BOOLEAN
         /\ DOMAIN x[f].records = 1..Len(x[f].records)
         /\ Len(x[f].records) \in Nat
         /\ \A i \in 1..Len(x[f].records) : x[f].records[i] \in Nat
  <1>1. x[f] \in LogFiles
    OBVIOUS
  <1>2. x[f].records \in Seq(Nat) /\ x[f].torn \in BOOLEAN
    BY <1>1 DEF LogFiles
  <1> QED BY <1>1, <1>2

LEMMA FilesAre ==
  ASSUME LogInv
  PROVE  /\ DOMAIN files = 1..Len(files) /\ Len(files) \in Nat
         /\ \A f \in 1..Len(files) :
              /\ files[f] \in LogFiles
              /\ files[f].records \in Seq(Nat) /\ files[f].torn \in BOOLEAN
              /\ DOMAIN files[f].records = 1..Len(files[f].records)
              /\ Len(files[f].records) \in Nat
         /\ \A n \in Names : names[n] \in 0..Len(files)
         /\ \A n \in Ring : n \in Names /\ names[n] \in 1..Len(files)
  <1>1. files \in Seq(LogFiles) /\ names \in [Names -> 0..Len(files)]
    BY DEF LogInv, LogTypeOK
  <1>2. DOMAIN files = 1..Len(files) /\ Len(files) \in Nat
    BY <1>1
  <1> QED BY <1>1, <1>2, FileIs DEF Ring

\* What a reader opened is not changed by what becomes of the files.
LEMMA ReadersKeep ==
  ASSUME LogInv, files' \in Seq(LogFiles), Grown, UNCHANGED reader
  PROVE  ReaderInv'
  <1>1. \A n \in reader.left : ReadsFile(n)' = ReadsFile(n)
    <2> TAKE n \in reader.left
    <2> DEFINE f == reader.open[n].file
               l == reader.open[n].length
    <2>1. f \in 1..Len(files) /\ l \in 0..Len(files[f].records)
      BY FilesAre DEF LogInv, ReaderInv
    <2>2. f \in 1..Len(files')
      BY <2>1, FilesAre DEF Grown
    <2>3. files[f].records \in Seq(Nat) /\ files'[f].records \in Seq(Nat)
      <3> HIDE DEF f, l
      <3>1. files[f].records \in Seq(Nat)
        <4>1. \A g \in 1..Len(files) : files[g].records \in Seq(Nat)
          BY FilesAre
        <4>2. f \in 1..Len(files)
          BY <2>1
        <4> QED BY ONLY <4>1, <4>2
      <3>2. files'[f].records \in Seq(Nat)
        BY <2>2, FileIs
      <3> QED BY <3>1, <3>2
    <2>4. \A i \in 1..l : files'[f].records[i] = files[f].records[i]
      <3>1. 1..l \subseteq 1..Len(files[f].records)
        <4> HIDE DEF f, l
        <4>1. \A g \in 1..Len(files) : Len(files[g].records) \in Nat
          BY FilesAre
        <4>2. f \in 1..Len(files) /\ l \in 0..Len(files[f].records)
          BY <2>1
        <4> QED BY ONLY <4>1, <4>2
      <3> QED BY <2>1, <3>1 DEF Grown
    <2>5. SubSeq(files'[f].records, 1, l) = SubSeq(files[f].records, 1, l)
      BY <2>1, <2>3, <2>4
    <2> QED BY <2>5 DEF ReadsFile
  <1>2. \A n \in reader.left :
          /\ reader.open[n].file \in DOMAIN files'
          /\ reader.open[n].length \in 0..Len(files'[reader.open[n].file].records)
    <2> TAKE n \in reader.left
    <2> DEFINE f == reader.open[n].file
               l == reader.open[n].length
    <2>1. f \in 1..Len(files) /\ l \in 0..Len(files[f].records)
      BY FilesAre DEF LogInv, ReaderInv
    <2>2. Len(files') \in Nat /\ DOMAIN files' = 1..Len(files')
      OBVIOUS
    <2>3. f \in 1..Len(files')
      BY <2>1, <2>2, FilesAre DEF Grown
    <2>4. Len(files'[f].records) \in Nat
      BY <2>3, FileIs
    <2>5. Len(files'[f].records) >= Len(files[f].records) /\ Len(files[f].records) \in Nat
      BY <2>1, FilesAre DEF Grown
    <2>6. l \in 0..Len(files'[f].records)
      <3>1. l \in 0..Len(files[f].records)
        BY <2>1
      <3> HIDE DEF f, l
      <3> QED BY <2>4, <2>5, <3>1
    <2> QED BY <2>2, <2>3, <2>6
  <1>3. reader' = reader
    OBVIOUS
  <1> QED BY <1>1, <1>2, <1>3 DEF LogInv, ReaderInv

\* The ring where the files' lines, if not their ends, are the same.
LEMMA RingKept ==
  ASSUME LogInv, UNCHANGED <<names, written>>, files' \in Seq(LogFiles),
         Len(files') = Len(files),
         \A f \in 1..Len(files) : files'[f].records = files[f].records
  PROVE  RingInv' /\ Grown
  <1>1. DOMAIN files' = DOMAIN files
    BY FilesAre
  <1>2. Ring' = Ring /\ \A n \in Ring : Recorded(n)' = Recorded(n) /\ names[n] \in 1..Len(files)
    BY FilesAre DEF Ring, Recorded
  <1>3. Held' = Held
    BY <1>2 DEF Held
  <1>4. RingInv'
    BY <1>1, <1>2, <1>3, FilesAre DEF LogInv, RingInv, LogIsASuffix
  <1>5. Grown
    BY FilesAre DEF Grown
  <1> QED BY <1>4, <1>5

\* A line that is still with its driver, or comes back unwritten.
LEMMA LineKept ==
  ASSUME LogInv, store.step \in WithDriver, store' \in Stores,
         store'.step \in WithDriver \cup {"REJECTED"},
         store'.record = store.record, store'.generation = store.generation,
         UNCHANGED <<written, sink, health, counts, opened, records>>
  PROVE  OrderInv' /\ WorkerInv' /\ ToldInv'
  <1>1. OrderInv'
    BY DEF LogInv, OrderInv
  <1>2. WorkerInv'
    BY DEF LogInv, WorkerInv, WithDriver, Idle
  <1>3. ToldInv'
    <2>1. opened.up
      BY DEF LogInv, ToldInv, WithDriver, NoWrite
    <2>2. counts.landed = counts.acknowledged
      BY DEF LogInv, ToldInv
    <2>3. store'.step \notin {"NONE", "RESOLVED"}
      BY DEF WithDriver
    <2> QED BY <2>1, <2>2, <2>3 DEF LogInv, ToldInv, InFlight
  <1> QED BY <1>1, <1>2, <1>3

\* The driver takes its mutex and looks at the active file.
LEMMA Looks ==
  ASSUME LogInv, Locks \/ MeasuresActive
  PROVE  LogInv'
  <1>1. UNCHANGED <<names, files, written, sink, health, counts, opened, records, reader>>
    BY DEF Locks, MeasuresActive
  <1>2. store \in Stores /\ Archives \in Names /\ store.failed \in BOOLEAN
    BY RuntimeLogAssumption DEF LogInv, LogTypeOK, Stores, Names
  <1>3. /\ store.step \in WithDriver /\ store' \in Stores
        /\ store'.step \in WithDriver \cup {"REJECTED"}
        /\ store'.record = store.record /\ store'.generation = store.generation
        /\ store'.step # "CREATE" /\ (store'.step = "ROTATE" => store'.turn = Archives)
        /\ store'.failed = TRUE => store'.step \in {"NONE", "CALLED", "REJECTED"}
        /\ store.step # "CREATE" /\ (store.failed = TRUE => store'.failed = TRUE)
    <2>1. CASE Locks
      BY <1>2, <2>1 DEF Locks, Stops, Stores, WithDriver
    <2>2. CASE MeasuresActive
      <3>1. store.failed = FALSE
        BY <1>2, <2>2 DEF LogInv, StepInv, MeasuresActive
      <3> QED BY <1>2, <2>2, <3>1 DEF MeasuresActive, Stores, WithDriver
    <2> QED BY <2>1, <2>2
  <1>4. OrderInv' /\ WorkerInv' /\ ToldInv'
    BY <1>1, <1>3, LineKept
  <1>5. StepInv'
    BY <1>1, <1>3, RuntimeLogAssumption DEF LogInv, StepInv, WithDriver
  <1>6. LogTypeOK'
    BY <1>1, <1>3 DEF LogInv, LogTypeOK
  <1>7. RingInv' /\ ReaderInv'
    BY <1>1, FilesStay
  <1> QED BY <1>4, <1>5, <1>6, <1>7 DEF LogInv

\* A write that fails in the middle leaves the whole lines as they are.
LEMMA TearsNothing ==
  ASSUME LogInv,
         \/ UNCHANGED files
         \/ /\ store.step = "APPEND"
            /\ files' = [files EXCEPT ![names[0]].torn = TRUE]
  PROVE  /\ files' \in Seq(LogFiles) /\ Len(files') = Len(files)
         /\ \A f \in 1..Len(files) : files'[f].records = files[f].records
  <1>1. files \in Seq(LogFiles)
    BY DEF LogInv, LogTypeOK
  <1>2. CASE UNCHANGED files
    BY <1>1, <1>2
  <1>3. CASE store.step = "APPEND" /\ files' = [files EXCEPT ![names[0]].torn = TRUE]
    <2>1. names[0] \in 1..Len(files)
      <3>1. names[0] # 0
        BY <1>3 DEF LogInv, StepInv
      <3> QED BY <3>1, FilesAre, RuntimeLogAssumption DEF Names
    <2>2. PICK x : x = [files[names[0]] EXCEPT !.torn = TRUE]
      OBVIOUS
    <2>3. x \in LogFiles /\ x.records = files[names[0]].records
      <3>1. files[names[0]] \in LogFiles
        BY <2>1, FilesAre
      <3> QED BY <2>2, <3>1 DEF LogFiles
    <2>4. files' = [files EXCEPT ![names[0]] = x]
      BY <1>3, <2>2
    <2> QED BY <1>1, <2>1, <2>3, <2>4, FilesAre
  <1> QED BY <1>2, <1>3

LEMMA Fails ==
  ASSUME LogInv, WriteFails
  PROVE  LogInv'
  <1>1. UNCHANGED <<names, written, sink, health, counts, opened, records, reader>>
        /\ ~MutexFree /\ Stops("REJECTED")
    BY DEF WriteFails
  <1>2. store \in Stores
    BY DEF LogInv, LogTypeOK
  <1>3. store.step \in WithDriver
    BY <1>1, <1>2 DEF MutexFree, Stores, WithDriver
  <1>4. /\ store' \in Stores /\ store'.step = "REJECTED" /\ store'.failed = TRUE
        /\ store'.record = store.record /\ store'.generation = store.generation
    BY <1>1, <1>2 DEF Stops, Stores, WithDriver
  <1>5. OrderInv' /\ WorkerInv' /\ ToldInv'
    BY <1>1, <1>3, <1>4, LineKept
  <1>6. StepInv'
    BY <1>4 DEF StepInv
  <1>7. /\ files' \in Seq(LogFiles) /\ Len(files') = Len(files)
        /\ \A f \in 1..Len(files) : files'[f].records = files[f].records
    BY TearsNothing DEF WriteFails
  <1>8. LogTypeOK'
    BY <1>1, <1>4, <1>7 DEF LogInv, LogTypeOK
  <1>9. RingInv' /\ ReaderInv'
    BY <1>1, <1>7, RingKept, ReadersKeep
  <1> QED BY <1>5, <1>6, <1>8, <1>9 DEF LogInv

\* A rotation takes away the oldest name or moves one into a free place.
LEMMA Turns ==
  ASSUME LogInv, NEW k \in Names, RotateStep(k)
  PROVE  LogInv'
  <1>1. /\ UNCHANGED <<files, written, sink, health, counts, opened, records, reader>>
        /\ store.step = "ROTATE" /\ store.turn = k /\ names' = Turned(k)
    BY DEF RotateStep
  <1>2. store \in Stores /\ names \in [Names -> 0..Len(files)] /\ store.failed = FALSE
        /\ files \in Seq(LogFiles)
    BY <1>1 DEF LogInv, LogTypeOK, StepInv, Stores
  <1>3. k \in Nat /\ k <= Archives /\ Archives \in Nat /\ Archives > 0 /\ 0 \in Names
    BY RuntimeLogAssumption DEF Names
  <1>4. /\ store' \in Stores /\ store'.record = store.record
        /\ store'.generation = store.generation /\ store'.failed = FALSE
        /\ \/ k = 0 /\ store'.step = "CREATE"
           \/ k # 0 /\ store'.step = "ROTATE" /\ store'.turn = k - 1
    <2>1. k # 0 => k - 1 \in Names
      BY <1>3 DEF Names
    <2> QED BY <1>2, <2>1 DEF RotateStep, Stores, WithDriver
  <1>5. OrderInv' /\ WorkerInv' /\ ToldInv'
    <2>1. store.step \in WithDriver /\ store'.step \in WithDriver
      BY <1>1, <1>4 DEF WithDriver
    <2> QED BY <1>1, <1>4, <2>1, LineKept
  <1>6. /\ names' \in [Names -> 0..Len(files)] /\ names'[k] = 0
        /\ \A n \in Names : n # k => \/ names'[n] = names[n]
                                     \/ n = k + 1 /\ names'[n] = names[k] /\ names[n] = 0
        /\ k # Archives /\ names[k] # 0 => names'[k + 1] = names[k] /\ names[k + 1] = 0
    <2>1. CASE k = Archives
      BY <1>1, <1>2, <2>1 DEF Turned
    <2>2. CASE k # Archives
      <3>1. k + 1 \in Names /\ k + 1 # k
        BY <1>3, <2>2 DEF Names
      <3>2. names[k + 1] = 0
        BY <1>1, <1>3, <2>2 DEF LogInv, StepInv
      <3> QED BY <1>1, <1>2, <2>2, <3>1, <3>2 DEF Turned
    <2> QED BY <2>1, <2>2
  <1>7. StepInv'
    <2>1. CASE k = 0
      BY <1>4, <1>6, <2>1 DEF StepInv
    <2>2. CASE k # 0
      <3>1. names'[0] = names[0]
        BY <1>3, <1>6, <2>2
      <3>2. names[0] # 0
        BY <1>1, <1>2 DEF LogInv, StepInv
      <3>3. (k - 1) + 1 = k
        BY <1>3
      <3> QED BY <1>4, <1>6, <2>2, <3>1, <3>2, <3>3 DEF StepInv
    <2> QED BY <2>1, <2>2
  <1>8. LogTypeOK'
    BY <1>1, <1>4, <1>6 DEF LogInv, LogTypeOK
  \* Where each name comes from.
  <1> DEFINE from(n) == IF n = k + 1 /\ names[n] = 0 THEN k ELSE n
  <1>9. ASSUME NEW n \in Ring'
        PROVE  from(n) \in Ring /\ names'[n] = names[from(n)] /\ n \in Names /\ n # k
               /\ n \in Nat /\ from(n) \in Nat
    BY <1>3, <1>6 DEF Ring, Names
  <1>10. ASSUME NEW m \in Ring', NEW n \in Ring'
         PROVE  (m < n <=> from(m) < from(n)) /\ (from(m) = from(n) => m = n)
    <2>1. m \in Nat /\ n \in Nat /\ m # k /\ n # k
      BY <1>9
    <2>2. CASE n = k + 1 /\ names[n] = 0
      BY <1>3, <2>1, <2>2
    <2>3. CASE m = k + 1 /\ names[m] = 0
      BY <1>3, <2>1, <2>3
    <2>4. CASE ~(n = k + 1 /\ names[n] = 0) /\ ~(m = k + 1 /\ names[m] = 0)
      BY <2>1, <2>4
    <2> QED BY <2>2, <2>3, <2>4
  <1>11. ASSUME NEW n \in Ring, n # k \/ k # Archives
         PROVE  \E m \in Ring' : from(m) = n
    <2>1. CASE n = k
      <3>1. k + 1 \in Names /\ names'[k + 1] # 0 /\ names[k + 1] = 0
        BY <1>3, <1>6, <1>11, <2>1 DEF Ring, Names
      <3> QED BY <2>1, <3>1 DEF Ring
    <2>2. CASE n # k
      <3>1. names'[n] = names[n] /\ names[n] # 0 /\ n \in Names
        BY <1>6, <2>2 DEF Ring
      <3> QED BY <3>1 DEF Ring
    <2> QED BY <2>1, <2>2
  <1>12. \A n \in Ring' : Recorded(n)' = Recorded(from(n))
    BY <1>1, <1>9 DEF Recorded
  <1> HIDE DEF from
  <1>13. RingInv'
    <2>1. ASSUME NEW m \in Ring', NEW n \in Ring', names'[m] = names'[n]
          PROVE  m = n
      BY <1>9, <1>10, <2>1 DEF LogInv, RingInv
    <2>2. \A f \in DOMAIN files' : Increasing(files'[f].records)
      BY <1>1 DEF LogInv, RingInv
    <2>3. \A n \in Ring' : Increasing(files'[names'[n]].records)
      BY <1>1, <1>9 DEF LogInv, RingInv, LogIsASuffix
    <2>4. ASSUME NEW m \in Ring', NEW n \in Ring', m < n
          PROVE  \A a \in Recorded(n)', b \in Recorded(m)' : a < b
      BY <1>9, <1>10, <1>12, <2>4 DEF LogInv, RingInv, LogIsASuffix
    <2>5. Held' \subseteq Held
      BY <1>9, <1>12 DEF Held
    <2>6. ASSUME NEW a \in Held', NEW b \in written', a < b
          PROVE  b \in Held'
      <3>1. b \in Held
        BY <1>1, <2>5, <2>6 DEF LogInv, RingInv, LogIsASuffix
      <3>2. PICK n \in Ring : b \in Recorded(n)
        BY <3>1 DEF Held
      <3>3. PICK m \in Ring' : a \in Recorded(from(m)) /\ from(m) \in Ring /\ from(m) \in Names
        BY <1>9, <1>12 DEF Held, Ring
      <3>4. CASE n = k /\ k = Archives
        <4>1. from(m) # Archives
          BY <1>2, <1>3, <1>9, <3>3, <3>4 DEF from, Names, Ring
        <4>2. from(m) < n
          BY <1>3, <3>3, <3>4, <4>1 DEF Names
        <4>3. b < a
          BY <3>2, <3>3, <4>2 DEF LogInv, RingInv, LogIsASuffix
        <4>4. a \in Nat /\ b \in Nat
          BY <1>1, <2>5 DEF LogInv, LogTypeOK, RingInv, LogIsASuffix
        <4> QED BY <2>6, <4>3, <4>4
      <3>5. CASE n # k \/ k # Archives
        BY <1>11, <1>12, <3>2, <3>5 DEF Held
      <3> QED BY <3>4, <3>5
    <2>7. Held' \subseteq written'
      BY <1>1, <2>5 DEF LogInv, RingInv, LogIsASuffix
    <2> QED BY <2>1, <2>2, <2>3, <2>4, <2>6, <2>7 DEF RingInv, LogIsASuffix
  <1>14. ReaderInv'
    BY <1>1, <1>2, ReadersKeep, FilesAre DEF Grown
  <1> QED BY <1>5, <1>7, <1>8, <1>13, <1>14 DEF LogInv

\* A file of its own for the next line.
LEMMA Creates ==
  ASSUME LogInv, NEW xs, xs = Append(files, EmptyFile), files' = xs,
         names[0] = 0, names' = [names EXCEPT ![0] = Len(files) + 1],
         UNCHANGED <<written, reader>>
  PROVE  /\ files' \in Seq(LogFiles) /\ names' \in [Names -> 0..Len(files')]
         /\ names'[0] # 0
         /\ RingInv' /\ ReaderInv'
  <1>1. 0 \in Names /\ files \in Seq(LogFiles) /\ names \in [Names -> 0..Len(files)]
    BY RuntimeLogAssumption DEF Names, LogInv, LogTypeOK
  <1>2. EmptyFile \in LogFiles /\ EmptyFile.records = <<>>
    <2>1. <<>> \in Seq(Nat)
      OBVIOUS
    <2> QED BY <2>1 DEF EmptyFile, LogFiles
  <1>3. /\ files' \in Seq(LogFiles) /\ Len(files') = Len(files) + 1 /\ Len(files) \in Nat
        /\ \A f \in 1..Len(files) : files'[f] = files[f]
        /\ files'[Len(files) + 1] = EmptyFile
    BY <1>1, <1>2
  <1>4. names' \in [Names -> 0..Len(files')] /\ names'[0] = Len(files) + 1
        /\ \A n \in Names \ {0} : names'[n] = names[n]
    BY <1>1, <1>3
  <1>5. ReaderInv'
    BY <1>3, ReadersKeep, FilesAre DEF Grown
  <1>6. /\ Ring' = Ring \cup {0} /\ 0 \notin Ring
        /\ \A n \in Ring : names'[n] = names[n] /\ names[n] \in 1..Len(files)
        /\ \A n \in Ring : Recorded(n)' = Recorded(n)
        /\ Recorded(0)' = {}
    <2>1. Ring' = Ring \cup {0} /\ 0 \notin Ring
      BY <1>1, <1>3, <1>4 DEF Ring
    <2>2. \A n \in Ring : n \in Names /\ n # 0 /\ names'[n] = names[n] /\ names[n] \in 1..Len(files)
      BY <1>4, <2>1, FilesAre DEF Ring
    <2>3. Recorded(0)' = {}
      BY <1>2, <1>3, <1>4 DEF Recorded, Range
    <2> QED BY <1>3, <2>1, <2>2, <2>3 DEF Recorded
  <1>7. Held' = Held
    BY <1>6 DEF Held
  <1>8. RingInv'
    <2>1. ASSUME NEW m \in Ring', NEW n \in Ring', names'[m] = names'[n]
          PROVE  m = n
      BY <1>3, <1>4, <1>6, <2>1 DEF LogInv, RingInv
    <2>2. \A f \in DOMAIN files' : Increasing(files'[f].records)
      <3>1. DOMAIN files' = 1..(Len(files) + 1)
        BY <1>3
      <3>2. \A f \in 1..Len(files) : Increasing(files[f].records)
        BY FilesAre DEF LogInv, RingInv
      <3>3. Increasing(<<>>)
        BY DEF Increasing
      <3> QED BY <1>2, <1>3, <3>1, <3>2, <3>3
    <2>3. \A n \in Ring' : Increasing(files'[names'[n]].records)
      BY <1>3, <1>4, <1>6, <2>2
    <2>4. ASSUME NEW m \in Ring', NEW n \in Ring', m < n
          PROVE  \A a \in Recorded(n)', b \in Recorded(m)' : a < b
      BY <1>6, <2>4 DEF LogInv, RingInv, LogIsASuffix
    <2> QED BY <1>7, <2>1, <2>2, <2>3, <2>4 DEF LogInv, RingInv, LogIsASuffix
  <1> QED BY <1>3, <1>4, <1>5, <1>8

LEMMA CreatesActive ==
  ASSUME LogInv, CreateActive
  PROVE  LogInv'
  <1>1. /\ UNCHANGED <<written, sink, health, counts, opened, records, reader>>
        /\ store.step = "CREATE" /\ store' = [store EXCEPT !.step = "APPEND"]
        /\ files' = Append(files, EmptyFile)
        /\ names' = [names EXCEPT ![0] = Len(files) + 1]
    BY DEF CreateActive
  <1>2. store \in Stores /\ names[0] = 0 /\ store.failed = FALSE
    BY <1>1 DEF LogInv, LogTypeOK, StepInv, Stores
  <1>3. /\ files' \in Seq(LogFiles) /\ names' \in [Names -> 0..Len(files')]
        /\ names'[0] # 0 /\ RingInv' /\ ReaderInv'
    BY <1>1, <1>2, Creates
  <1>4. /\ store' \in Stores /\ store'.step = "APPEND" /\ store'.failed = FALSE
        /\ store'.record = store.record /\ store'.generation = store.generation
    BY <1>1, <1>2 DEF Stores, WithDriver
  <1>5. OrderInv' /\ WorkerInv' /\ ToldInv'
    BY <1>1, <1>4, LineKept DEF WithDriver
  <1>6. StepInv'
    BY <1>3, <1>4 DEF StepInv
  <1>7. LogTypeOK'
    BY <1>1, <1>3, <1>4 DEF LogInv, LogTypeOK
  <1> QED BY <1>3, <1>5, <1>6, <1>7 DEF LogInv

\* The line is behind everything that was written.
LEMMA Appends ==
  ASSUME LogInv, AppendExactly
  PROVE  LogInv'
  <1> DEFINE g == names[0]
             r == store.record
             q == files[g].records
  <1>1. /\ UNCHANGED <<names, sink, health, opened, records, reader>>
        /\ store.step = "APPEND" /\ written' = written \cup {r}
        /\ Stops("RESOLVED") \/ Stops("REJECTED")
        /\ counts' = [counts EXCEPT !.landed = @ + 1]
        /\ files' = [files EXCEPT ![g].records = Append(@, r)]
    BY DEF AppendExactly
  <1>2. /\ store \in Stores /\ r \in Nat /\ files \in Seq(LogFiles) /\ records \in Nat
        /\ store.failed = FALSE /\ g # 0 /\ 0 \in Names
    BY <1>1, RuntimeLogAssumption DEF LogInv, LogTypeOK, StepInv, Stores, Names
  <1>3. g \in 1..Len(files) /\ 0 \in Ring /\ q \in Seq(Nat) /\ files[g] \in LogFiles
    BY <1>2, FilesAre DEF Ring
  <1>4. r <= records /\ (\A a \in written : a < r) /\ written \subseteq Nat
    BY <1>1 DEF LogInv, LogTypeOK, OrderInv, WithDriver
  <1>5. /\ store' \in Stores /\ store'.step \in {"RESOLVED", "REJECTED"}
        /\ store'.failed = TRUE => store'.step = "REJECTED"
        /\ store'.record = r /\ store'.generation = store.generation
    BY <1>1, <1>2 DEF Stops, Stores, WithDriver
  <1>6. PICK x : x = [files[g] EXCEPT !.records = Append(@, r)]
    OBVIOUS
  <1>7. /\ Append(q, r) \in Seq(Nat) /\ x \in LogFiles /\ x.records = Append(q, r)
        /\ files' = [files EXCEPT ![g] = x]
    <2>1. Append(q, r) \in Seq(Nat)
      BY <1>2, <1>3
    <2> QED BY <1>1, <1>3, <1>6, <2>1 DEF LogFiles
  <1>8. /\ files' \in Seq(LogFiles) /\ Len(files') = Len(files) /\ DOMAIN files' = DOMAIN files
        /\ \A f \in 1..Len(files) : f # g => files'[f] = files[f]
        /\ files'[g].records = Append(q, r)
    BY <1>2, <1>3, <1>7
  <1> HIDE DEF g, r
  <1>9. Grown
    <2>1. \A f \in 1..Len(files) : f # g => files'[f].records = files[f].records
      BY <1>8
    <2>2. Len(Append(q, r)) = Len(q) + 1 /\ Len(q) \in Nat
          /\ \A i \in 1..Len(q) : Append(q, r)[i] = q[i]
      BY <1>2, <1>3, SequenceFacts
    <2>3. ASSUME NEW f \in 1..Len(files)
          PROVE  /\ Len(files'[f].records) >= Len(files[f].records)
                 /\ \A i \in 1..Len(files[f].records) : files'[f].records[i] = files[f].records[i]
      <3>1. CASE f = g
        BY <1>8, <2>2, <3>1
      <3>2. CASE f # g
        BY <2>1, <3>2, FilesAre
      <3> QED BY <3>1, <3>2
    <2>4. Len(files') >= Len(files)
      BY <1>8, FilesAre
    <2> QED BY <2>3, <2>4 DEF Grown
  <1>10. ReaderInv'
    BY <1>1, <1>8, <1>9, ReadersKeep
  <1>11. Range(Append(q, r)) = Range(q) \cup {r}
    <2>1. DOMAIN q = 1..Len(q) /\ DOMAIN Append(q, r) = 1..(Len(q) + 1) /\ Len(q) \in Nat
      BY <1>2, <1>3
    <2>2. \A i \in 1..Len(q) : Append(q, r)[i] = q[i]
      BY <1>2, <1>3, SequenceFacts
    <2>3. Append(q, r)[Len(q) + 1] = r
      BY <1>2, <1>3, SequenceFacts
    <2>4. \A i \in 1..(Len(q) + 1) : i \in 1..Len(q) \/ i = Len(q) + 1
      BY <2>1
    <2>5. \A i \in 1..(Len(q) + 1) : Append(q, r)[i] \in Range(q) \cup {r}
      BY <2>1, <2>2, <2>3, <2>4 DEF Range
    <2>6. \A i \in 1..Len(q) : i \in 1..(Len(q) + 1) /\ q[i] \in Range(Append(q, r))
      BY <2>1, <2>2 DEF Range
    <2>7. r \in Range(Append(q, r))
      BY <2>1, <2>3 DEF Range
    <2>8. Range(Append(q, r)) \subseteq Range(q) \cup {r}
      BY <2>1, <2>5 DEF Range
    <2>9. Range(q) \subseteq Range(Append(q, r))
      BY <2>1, <2>6 DEF Range
    <2> QED BY <2>7, <2>8, <2>9
  <1>12. /\ Ring' = Ring
         /\ \A n \in Ring : n # 0 => Recorded(n)' = Recorded(n)
         /\ Recorded(0)' = Recorded(0) \cup {r}
    <2>1. Ring' = Ring
      BY <1>1 DEF Ring
    <2>2. \A n \in Ring : n # 0 => names[n] # g /\ names[n] \in 1..Len(files)
      BY <1>3, FilesAre DEF LogInv, RingInv, g
    <2>3. \A n \in Ring : n # 0 => Recorded(n)' = Recorded(n)
      BY <1>1, <1>8, <2>2 DEF Recorded
    <2>4. Recorded(0)' = Recorded(0) \cup {r}
      BY <1>1, <1>8, <1>11 DEF Recorded, g
    <2> QED BY <2>1, <2>3, <2>4
  <1>13. Held' = Held \cup {r}
    BY <1>3, <1>12 DEF Held
  <1>14. RingInv'
    <2>1. \A m, n \in Ring' : names'[m] = names'[n] => m = n
      BY <1>1, <1>12 DEF LogInv, RingInv
    <2>2. Increasing(Append(q, r))
      <3>1. Increasing(q)
        BY <1>3, FilesAre DEF LogInv, RingInv
      <3>2. \A i \in 1..Len(q) : q[i] \in Recorded(0)
        BY <1>3 DEF Recorded, Range, g
      <3>3. Recorded(0) \subseteq written
        BY <1>3 DEF LogInv, RingInv, LogIsASuffix, Held
      <3> QED BY <1>2, <1>3, <1>4, <3>1, <3>2, <3>3, IncreasesOn
    <2>3. \A f \in DOMAIN files' : Increasing(files'[f].records)
      BY <1>8, <2>2, FilesAre DEF LogInv, RingInv
    <2>4. \A n \in Ring' : Increasing(files'[names'[n]].records)
      BY <1>1, <1>8, <1>12, <2>3, FilesAre
    <2>5. ASSUME NEW m \in Ring', NEW n \in Ring', m < n
          PROVE  \A a \in Recorded(n)', b \in Recorded(m)' : a < b
      <3>1. n # 0 /\ m \in Ring /\ n \in Ring
        BY <1>12, <2>5, FilesAre DEF Names
      <3>2. \A a \in Recorded(n) : a < r
        BY <1>4, <3>1 DEF LogInv, RingInv, LogIsASuffix, Held
      <3> QED BY <1>12, <2>5, <3>1, <3>2 DEF LogInv, RingInv, LogIsASuffix
    <2>6. Held' \subseteq written'
      BY <1>1, <1>13 DEF LogInv, RingInv, LogIsASuffix
    <2>7. \A a \in Held', b \in written' : a < b => b \in Held'
      BY <1>1, <1>2, <1>4, <1>13 DEF LogInv, RingInv, LogIsASuffix
    <2> QED BY <2>1, <2>3, <2>4, <2>5, <2>6, <2>7 DEF RingInv, LogIsASuffix
  <1>15. StepInv'
    BY <1>1, <1>2, <1>5 DEF StepInv, g
  <1>16. OrderInv'
    <2>1. \A i \in 1..Len(sink.queue) : r < sink.queue[i]
      BY <1>1 DEF LogInv, OrderInv, WithDriver, r
    <2>2. store'.step \notin WithDriver
      BY <1>5 DEF WithDriver
    <2> QED BY <1>1, <2>1, <2>2 DEF LogInv, OrderInv
  <1>17. WorkerInv'
    BY <1>1, <1>5 DEF LogInv, WorkerInv, Idle
  <1>18. counts' \in [offered : Nat, acknowledged : Nat, landed : Nat]
         /\ counts'.offered = counts.offered /\ counts'.acknowledged = counts.acknowledged
         /\ counts'.landed = counts.landed + 1
    BY <1>1 DEF LogInv, LogTypeOK
  <1>19. ToldInv'
    <2>1. opened.up
      BY <1>1 DEF LogInv, ToldInv, NoWrite
    <2>2. counts'.landed = counts'.acknowledged + 1 /\ counts'.acknowledged \in Nat
      BY <1>1, <1>18 DEF LogInv, ToldInv, WithDriver
    <2>3. counts'.offered = Len(sink'.queue) + InFlight(sink') + counts'.acknowledged + sink'.dropped
      <3>1. sink' = sink
        BY <1>1
      <3> QED BY <1>18, <3>1 DEF LogInv, ToldInv
    <2>4. health' = [degraded |-> sink'.degraded, dropped |-> sink'.dropped] /\ opened'.up
      BY <1>1, <2>1 DEF LogInv, ToldInv
    <2> QED BY <1>5, <2>2, <2>3, <2>4 DEF ToldInv, WithDriver
  <1>20. LogTypeOK'
    <2>1. written' \subseteq 0..records'
      BY <1>1, <1>2, <1>4 DEF LogInv, LogTypeOK
    <2>2. names' \in [Names -> 0..Len(files')]
      BY <1>1, <1>8 DEF LogInv, LogTypeOK
    <2> QED BY <1>1, <1>5, <1>8, <1>18, <2>1, <2>2 DEF LogInv, LogTypeOK
  <1> QED BY <1>10, <1>14, <1>15, <1>16, <1>17, <1>19, <1>20 DEF LogInv

LEMMA NewSinkIs ==
  ASSUME NEW d \in BOOLEAN
  PROVE  /\ NewSink(d) \in Sinks /\ NewSink(d).queue = <<>> /\ NewSink(d).writing = FALSE
         /\ NewSink(d).abandoned = d /\ NewSink(d).degraded = d
         /\ NewSink(d).awaited = FALSE /\ NewSink(d).dropped = 0
  BY DEF NewSink, Sinks

LEMMA NobodyReads ==
  ASSUME reader' = NotReading
  PROVE  reader' \in Readings /\ ReaderInv'
  <1>1. <<>> \in Snapshots
    <2>1. <<>> \in [{} -> [file : Nat, torn : BOOLEAN, length : Nat]]
      OBVIOUS
    <2> QED BY <2>1 DEF Snapshots
  <1>2. reader' \in Readings
    BY <1>1 DEF NotReading, Readings
  <1>3. /\ reader'.left = {} /\ reader'.got = <<>> /\ reader'.held = {} /\ DOMAIN <<>> = {}
    BY DEF NotReading
  <1>4. Range(<<>>) = {} /\ Increasing(<<>>)
    BY DEF Range, Increasing
  <1> QED BY <1>2, <1>3, <1>4 DEF ReaderInv

\* What is opened is what the ring holds.
LEMMA SnapshotHolds ==
  ASSUME LogInv, TakeSnapshot
  PROVE  reader' \in Readings /\ ReaderInv'
  <1> DEFINE taken == [n \in Ring |-> [file |-> names[n], torn |-> files[names[n]].torn,
                                       length |-> Len(files[names[n]].records)]]
  <1>1. /\ reader' = [open |-> taken, left |-> Ring, got |-> <<>>, held |-> Held, active |-> TRUE]
        /\ UNCHANGED <<names, files>>
    BY DEF TakeSnapshot
  <1>2. \A n \in Ring : taken[n] \in [file : Nat, torn : BOOLEAN, length : Nat]
    BY FilesAre
  <1>3. Ring \subseteq Names /\ Held \subseteq Nat
    BY DEF Ring, LogInv, LogTypeOK, RingInv, LogIsASuffix
  <1>4. taken \in Snapshots
    BY <1>2, <1>3 DEF Snapshots
  <1>5. \A n \in Ring : /\ taken[n].file = names[n]
                        /\ taken[n].length = Len(files[names[n]].records)
    OBVIOUS
  <1> HIDE DEF taken
  <1>6. reader' \in Readings /\ reader'.open = taken /\ reader'.left = Ring
        /\ reader'.got = <<>> /\ reader'.held = Held
    BY <1>1, <1>3, <1>4 DEF Readings
  <1>7. \A n \in Ring : ReadsFile(n)' = files[names[n]].records
    <2> TAKE n \in Ring
    <2>1. ReadsFile(n)' = SubSeq(files[names[n]].records, 1, Len(files[names[n]].records))
      BY <1>1, <1>5, <1>6 DEF ReadsFile
    <2>2. files[names[n]].records \in Seq(Nat)
      BY FilesAre
    <2> QED BY <2>1, <2>2
  <1>8. Range(<<>>) = {} /\ Increasing(<<>>)
    BY DEF Range, Increasing
  <1>9. DOMAIN taken = Ring
    BY DEF taken
  <1>10. \A n \in Ring : /\ names[n] \in DOMAIN files'
                         /\ taken[n].length \in 0..Len(files'[names[n]].records)
    BY <1>1, <1>5, FilesAre
  <1>11. \A n \in Ring : Range(ReadsFile(n)') = Recorded(n)
    BY <1>7 DEF Recorded
  <1>12. Held = UNION {Range(ReadsFile(n)') : n \in Ring}
    BY <1>11 DEF Held
  <1>13. ReaderInv'
    <2>1. /\ reader'.left \subseteq DOMAIN reader'.open
          /\ \A n \in reader'.left :
               /\ reader'.open[n].file \in DOMAIN files'
               /\ reader'.open[n].length \in 0..Len(files'[reader'.open[n].file].records)
      BY <1>5, <1>6, <1>9, <1>10
    <2>2. Increasing(reader'.got) /\ Range(reader'.got) = {}
      BY <1>6, <1>8
    <2>3. \A n \in reader'.left : Increasing(ReadsFile(n)')
      BY <1>6, <1>7 DEF LogInv, RingInv, LogIsASuffix
    <2>4. \A m, n \in reader'.left : m < n =>
            \A a \in Range(ReadsFile(n)'), b \in Range(ReadsFile(m)') : a < b
      BY <1>6, <1>11 DEF LogInv, RingInv, LogIsASuffix
    <2>5. reader'.held = UNION {Range(ReadsFile(n)') : n \in reader'.left}
      BY <1>6, <1>12
    <2> QED BY <2>1, <2>2, <2>3, <2>4, <2>5 DEF ReaderInv
  <1> QED BY <1>6, <1>13

LEMMA Concatenated ==
  ASSUME NEW s \in Seq(Nat), NEW t \in Seq(Nat), Increasing(s), Increasing(t),
         \A a \in Range(s), b \in Range(t) : a < b
  PROVE  s \o t \in Seq(Nat) /\ Increasing(s \o t) /\ Range(s \o t) = Range(s) \cup Range(t)
  <1>1. /\ s \o t \in Seq(Nat) /\ Len(s \o t) = Len(s) + Len(t)
        /\ Len(s) \in Nat /\ Len(t) \in Nat
        /\ DOMAIN s = 1..Len(s) /\ DOMAIN t = 1..Len(t) /\ DOMAIN (s \o t) = 1..(Len(s) + Len(t))
    OBVIOUS
  <1>2. \A i \in 1..Len(s) : (s \o t)[i] = s[i] /\ s[i] \in Range(s)
    <2>1. \A i \in 1..Len(s) : (s \o t)[i] = s[i]
      OBVIOUS
    <2>2. \A i \in DOMAIN s : s[i] \in Range(s)
      BY DEF Range
    <2> QED BY ONLY <1>1, <2>1, <2>2
  <1>3. \A i \in 1..Len(t) : (s \o t)[Len(s) + i] = t[i] /\ t[i] \in Range(t)
    <2>1. \A i \in 1..Len(t) : (s \o t)[Len(s) + i] = t[i]
      OBVIOUS
    <2>2. \A i \in DOMAIN t : t[i] \in Range(t)
      BY DEF Range
    <2> QED BY ONLY <1>1, <2>1, <2>2
  <1>4. \A i \in 1..(Len(s) + Len(t)) : i \notin 1..Len(s) =>
          i - Len(s) \in 1..Len(t) /\ Len(s) + (i - Len(s)) = i
    BY <1>1
  <1>5. ASSUME NEW i \in 1..(Len(s) + Len(t)), NEW j \in 1..(Len(s) + Len(t)), i < j
        PROVE  (s \o t)[i] < (s \o t)[j]
    <2>1. CASE j \in 1..Len(s)
      <3>1. i \in 1..Len(s)
        BY <1>1, <1>5, <2>1
      <3> QED BY <1>2, <1>5, <2>1, <3>1 DEF Increasing
    <2>2. CASE i \notin 1..Len(s)
      <3>1. j \notin 1..Len(s)
        BY <1>1, <1>5, <2>2
      <3>2. i - Len(s) \in 1..Len(t) /\ j - Len(s) \in 1..Len(t) /\ i - Len(s) < j - Len(s)
        BY <1>1, <1>4, <1>5, <2>2, <3>1
      <3>3. t[i - Len(s)] < t[j - Len(s)]
        BY <3>2 DEF Increasing
      <3>4. (s \o t)[i] = t[i - Len(s)] /\ (s \o t)[j] = t[j - Len(s)]
        BY <1>3, <1>4, <2>2, <3>1, <3>2
      <3> QED BY <3>3, <3>4
    <2>3. CASE i \in 1..Len(s) /\ j \notin 1..Len(s)
      <3>1. (s \o t)[j] \in Range(t)
        BY <1>3, <1>4, <2>3
      <3> QED BY <1>2, <2>3, <3>1
    <2> QED BY <2>1, <2>2, <2>3
  <1>6. Range(s \o t) = Range(s) \cup Range(t)
    <2>1. Range(s) \subseteq Range(s \o t)
      BY <1>1, <1>2 DEF Range
    <2>2. Range(t) \subseteq Range(s \o t)
      <3>1. \A i \in 1..Len(t) : Len(s) + i \in 1..(Len(s) + Len(t))
        BY <1>1
      <3> QED BY <1>1, <1>3, <3>1 DEF Range
    <2>3. \A i \in 1..(Len(s) + Len(t)) : (s \o t)[i] \in Range(s) \cup Range(t)
      BY <1>2, <1>3, <1>4
    <2>4. Range(s \o t) \subseteq Range(s) \cup Range(t)
      BY <1>1, <2>3 DEF Range
    <2> QED BY <2>1, <2>2, <2>4
  <1>7. Increasing(s \o t)
    BY <1>1, <1>5 DEF Increasing
  <1> QED BY <1>1, <1>6, <1>7

\* The oldest file that is left comes next.
LEMMA ReadsOn1 ==
  ASSUME LogInv, ReadNext, reader' # NotReading
  PROVE  reader' \in Readings /\ ReaderInv'
  <1>1. UNCHANGED <<files, names>>
    BY DEF ReadNext
  <1>2. PICK n \in reader.left :
          /\ \A m \in reader.left : m <= n
          /\ reader' = [reader EXCEPT !.left = @ \ {n}, !.got = @ \o ReadsFile(n)]
    BY DEF ReadNext
  <1>3. /\ reader \in Readings /\ reader.left \subseteq Names
        /\ reader.left \subseteq DOMAIN reader.open /\ reader.got \in Seq(Nat)
    BY DEF LogInv, LogTypeOK, ReaderInv, Readings
  <1>4. \A m \in reader.left : ReadsFile(m) \in Seq(Nat)
    <2> TAKE m \in reader.left
    <2> DEFINE f == reader.open[m].file
               l == reader.open[m].length
    <2>1. f \in DOMAIN files /\ l \in 0..Len(files[f].records)
      BY DEF LogInv, ReaderInv
    <2>2. f \in 1..Len(files)
      BY <2>1, FilesAre
    <2>3. files[f].records \in Seq(Nat)
      BY <2>2, FilesAre
    <2> HIDE DEF f, l
    <2>4. SubSeq(files[f].records, 1, l) \in Seq(Nat)
      BY <2>1, <2>3
    <2> QED BY <2>4 DEF ReadsFile, f, l
  <1>5. /\ reader.got \o ReadsFile(n) \in Seq(Nat)
        /\ Increasing(reader.got \o ReadsFile(n))
        /\ Range(reader.got \o ReadsFile(n)) = Range(reader.got) \cup Range(ReadsFile(n))
    <2>1. Increasing(reader.got) /\ Increasing(ReadsFile(n))
          /\ \A a \in Range(reader.got), b \in Range(ReadsFile(n)) : a < b
      BY DEF LogInv, ReaderInv
    <2> QED BY <1>3, <1>4, <2>1, Concatenated
  <1>6. /\ reader' \in Readings /\ reader'.open = reader.open
        /\ reader'.left = reader.left \ {n} /\ reader'.held = reader.held
        /\ reader'.got = reader.got \o ReadsFile(n)
    BY <1>2, <1>3, <1>5 DEF Readings
  <1>7. \A m \in reader.left : ReadsFile(m)' = ReadsFile(m)
    BY <1>1, <1>6 DEF ReadsFile
  <1>8. \A m \in reader.left \ {n} : m < n
    BY <1>2, <1>3, RuntimeLogAssumption DEF Names
  <1>9. ReaderInv'
    <2>1. /\ reader'.left \subseteq DOMAIN reader'.open
          /\ \A m \in reader'.left :
               /\ reader'.open[m].file \in DOMAIN files'
               /\ reader'.open[m].length \in 0..Len(files'[reader'.open[m].file].records)
      BY <1>1, <1>6 DEF LogInv, ReaderInv
    <2>2. \A m \in reader'.left : Increasing(ReadsFile(m)')
      BY <1>6, <1>7 DEF LogInv, ReaderInv
    <2>3. ASSUME NEW m \in reader'.left, NEW a \in Range(reader'.got), NEW b \in Range(ReadsFile(m)')
          PROVE  a < b
      <3>1. m \in reader.left /\ m < n /\ b \in Range(ReadsFile(m))
        BY <1>6, <1>7, <1>8
      <3>2. a \in Range(reader.got) \/ a \in Range(ReadsFile(n))
        BY <1>5, <1>6
      <3> QED BY <3>1, <3>2 DEF LogInv, ReaderInv
    <2>4. ASSUME NEW m \in reader'.left, NEW k \in reader'.left, m < k
          PROVE  \A a \in Range(ReadsFile(k)'), b \in Range(ReadsFile(m)') : a < b
      BY <1>6, <1>7, <2>4 DEF LogInv, ReaderInv
    <2>5. reader'.held = Range(reader'.got) \cup UNION {Range(ReadsFile(m)') : m \in reader'.left}
      <3>1. reader.held = Range(reader.got) \cup UNION {Range(ReadsFile(m)) : m \in reader.left}
        BY DEF LogInv, ReaderInv
      <3> QED BY <1>5, <1>6, <1>7, <3>1
    <2>6. Increasing(reader'.got)
      BY <1>5, <1>6
    <2> QED BY <2>1, <2>2, <2>3, <2>4, <2>5, <2>6 DEF ReaderInv
  <1> QED BY <1>6, <1>9

\* A death takes everything but the files.
LEMMA DeathKeeps ==
  ASSUME LogInv, LogDies
  PROVE  LogInv'
  <1> USE RuntimeLogAssumption
  <1>1. /\ opened' = [opened EXCEPT !.up = FALSE]
        /\ sink' = NewSink(TRUE) /\ store' = NoWrite
        /\ health' = [degraded |-> TRUE, dropped |-> 0]
        /\ counts' = [offered |-> 0, acknowledged |-> 0, landed |-> 0]
        /\ reader' = NotReading /\ UNCHANGED <<names, written, records>>
    BY DEF LogDies
  <1>2. /\ files' \in Seq(LogFiles) /\ Len(files') = Len(files)
        /\ \A f \in 1..Len(files) : files'[f].records = files[f].records
    BY TearsNothing DEF LogDies
  <1>3. RingInv'
    BY <1>1, <1>2, RingKept
  <1>4. reader' \in Readings /\ ReaderInv'
    BY <1>1, NobodyReads
  <1>5. /\ sink' \in Sinks /\ sink'.queue = <<>> /\ sink'.writing = FALSE
        /\ sink'.abandoned = TRUE /\ sink'.awaited = FALSE
        /\ sink'.degraded = TRUE /\ sink'.dropped = 0
        /\ store' \in Stores /\ store'.step = "NONE" /\ store'.failed = FALSE
    <2>1. TRUE \in BOOLEAN /\ 0 \in Names
      BY DEF Names
    <2>2. NoWrite \in Stores /\ NoWrite.step = "NONE" /\ NoWrite.failed = FALSE
      BY <2>1 DEF NoWrite, Stores
    <2> QED BY <1>1, <2>1, <2>2, NewSinkIs
  <1>6. LogTypeOK'
    <2>1. opened' \in [processes : Nat, up : BOOLEAN]
      BY <1>1 DEF LogInv, LogTypeOK
    <2>2. names' \in [Names -> 0..Len(files')] /\ written' \subseteq 0..records' /\ records' \in Nat
      BY <1>1, <1>2 DEF LogInv, LogTypeOK
    <2> QED BY <1>1, <1>2, <1>4, <1>5, <2>1, <2>2 DEF LogTypeOK
  <1>7. StepInv'
    BY <1>5 DEF StepInv
  <1>8. OrderInv'
    BY <1>5 DEF OrderInv, WithDriver, Increasing
  <1>9. WorkerInv'
    BY <1>5 DEF WorkerInv
  <1>10. ToldInv'
    <2>1. InFlight(sink') = 0 /\ Len(sink'.queue) = 0
      BY <1>5, OneOrNone
    <2>2. counts'.offered = 0 /\ counts'.acknowledged = 0 /\ counts'.landed = 0
      BY <1>1
    <2>3. health' = [degraded |-> sink'.degraded, dropped |-> sink'.dropped]
      BY <1>1, <1>5
    <2>4. counts'.offered = Len(sink'.queue) + InFlight(sink') + counts'.acknowledged + sink'.dropped
      BY <1>5, <2>1, <2>2
    <2>5. counts'.landed \in counts'.acknowledged..(counts'.acknowledged + 1)
      BY <2>2
    <2>6. store'.step = "NONE" /\ store' = NoWrite /\ sink'.dropped = 0
          /\ counts' = [offered |-> 0, acknowledged |-> 0, landed |-> 0]
      BY <1>1, <1>5
    <2> QED BY <2>2, <2>3, <2>4, <2>5, <2>6 DEF ToldInv, WithDriver
  <1> QED BY <1>3, <1>4, <1>6, <1>7, <1>8, <1>9, <1>10 DEF LogInv

\* A process takes over the files and makes the active one if it is missing.
LEMMA Opens ==
  ASSUME LogInv, OpenLog
  PROVE  LogInv'
  <1> USE RuntimeLogAssumption
  <1> DEFINE torn == \E n \in Ring : files[names[n]].torn
             make == ~torn /\ names[0] = 0
  <1>1. /\ UNCHANGED <<written, store, counts, records, reader>> /\ ~opened.up
        /\ opened' = [processes |-> opened.processes + 1, up |-> TRUE]
        /\ sink' = NewSink(torn) /\ health' = [degraded |-> torn, dropped |-> 0]
        /\ files' = IF make THEN Append(files, EmptyFile) ELSE files
        /\ names' = IF make THEN [names EXCEPT ![0] = Len(files) + 1] ELSE names
    BY DEF OpenLog
  <1>2. torn \in BOOLEAN
    OBVIOUS
  <1>3. /\ files' \in Seq(LogFiles) /\ names' \in [Names -> 0..Len(files')]
        /\ torn \/ names'[0] # 0
        /\ RingInv' /\ ReaderInv'
    <2>1. CASE make
      BY <1>1, <2>1, Creates
    <2>2. CASE ~make
      BY <1>1, <2>2, FilesStay DEF LogInv, LogTypeOK
    <2> QED BY <2>1, <2>2
  <1> HIDE DEF torn, make
  <1>4. /\ sink' \in Sinks /\ sink'.queue = <<>> /\ sink'.writing = FALSE
        /\ sink'.abandoned = torn /\ sink'.degraded = torn
        /\ sink'.awaited = FALSE /\ sink'.dropped = 0
    BY <1>1, <1>2, NewSinkIs
  <1>5. /\ store' = store /\ store \in Stores /\ store.step = "NONE" /\ store.failed = FALSE
        /\ counts = [offered |-> 0, acknowledged |-> 0, landed |-> 0]
    BY <1>1 DEF LogInv, LogTypeOK, ToldInv, NoWrite
  <1>6. LogTypeOK'
    <2>1. opened' \in [processes : Nat, up : BOOLEAN] /\ health' \in [degraded : BOOLEAN, dropped : Nat]
      BY <1>1, <1>2 DEF LogInv, LogTypeOK
    <2> QED BY <1>1, <1>3, <1>4, <1>5, <2>1 DEF LogInv, LogTypeOK
  <1>7. StepInv'
    BY <1>3, <1>4, <1>5 DEF StepInv
  <1>8. OrderInv'
    BY <1>4, <1>5 DEF OrderInv, WithDriver, Increasing
  <1>9. WorkerInv'
    BY <1>4, <1>5 DEF WorkerInv
  <1>10. ToldInv'
    BY <1>1, <1>4, <1>5, OneOrNone DEF ToldInv, WithDriver
  <1> QED BY <1>3, <1>6, <1>7, <1>8, <1>9, <1>10 DEF LogInv

\* A reader takes a snapshot, reads the oldest file that is left, or ends.
LEMMA ReadersMove ==
  ASSUME LogInv, TakeSnapshot \/ ReadNext \/ ReadEnds
  PROVE  LogInv'
  <1>1. UNCHANGED <<names, files, written, sink, store, health, counts, opened, records>>
    BY DEF TakeSnapshot, ReadNext, ReadEnds
  <1>2. RingInv' /\ StepInv' /\ OrderInv' /\ WorkerInv' /\ ToldInv'
    <2>1. RingInv'
      BY <1>1 DEF LogInv, RingInv, LogIsASuffix, Increasing, Ring, Recorded, Held
    <2>2. StepInv' /\ OrderInv'
      BY <1>1 DEF LogInv, StepInv, OrderInv
    <2>3. WorkerInv' /\ ToldInv'
      BY <1>1 DEF LogInv, WorkerInv, ToldInv, Idle, InFlight
    <2> QED BY <2>1, <2>2, <2>3
  <1>3. reader' \in Readings /\ ReaderInv'
    <2>1. CASE reader' = NotReading
      BY <2>1, NobodyReads
    <2>2. CASE TakeSnapshot
      BY <2>2, SnapshotHolds
    <2>3. CASE ReadNext /\ reader' # NotReading
      BY <2>3, ReadsOn1
    <2> QED BY <2>1, <2>2, <2>3 DEF ReadEnds
  <1>4. LogTypeOK'
    BY <1>1, <1>3 DEF LogInv, LogTypeOK
  <1> QED BY <1>2, <1>3, <1>4 DEF LogInv

LEMMA LogKept ==
  ASSUME LogInv, [LogNext]_logVars
  PROVE  LogInv'
  <1>1. CASE OpenLog BY <1>1, Opens
  <1>2. CASE LogDies BY <1>2, DeathKeeps
  <1>3. CASE Append1 BY <1>3, Offers
  <1>4. CASE WriteSettles BY <1>4, SettledKeeps
  <1>5. CASE SettleTimeout \/ \E close \in BOOLEAN : FlushOrClose(close)
    BY <1>5, Waits
  <1>6. CASE Locks \/ MeasuresActive BY <1>6, Looks
  <1>7. CASE CreateActive BY <1>7, CreatesActive
  <1>8. CASE AppendExactly BY <1>8, Appends
  <1>9. CASE WriteFails BY <1>9, Fails
  <1>10. CASE \E k \in Names : RotateStep(k) BY <1>10, Turns
  <1>11. CASE TakeSnapshot \/ ReadNext \/ ReadEnds BY <1>11, ReadersMove
  <1>12. CASE UNCHANGED logVars
    <2>1. RingInv' /\ ReaderInv'
      BY <1>12, FilesStay DEF logVars
    <2>2. LogTypeOK' /\ StepInv' /\ OrderInv'
      BY <1>12 DEF logVars, LogInv, LogTypeOK, StepInv, OrderInv
    <2>3. WorkerInv' /\ ToldInv'
      BY <1>12 DEF logVars, LogInv, WorkerInv, ToldInv, InFlight, Idle
    <2> QED BY <2>1, <2>2, <2>3 DEF LogInv
  <1> QED BY <1>1, <1>2, <1>3, <1>4, <1>5, <1>6, <1>7, <1>8, <1>9, <1>10, <1>11, <1>12 DEF LogNext

\* LogIsFaithful, for any number and size of files, any capacity and any number
\* of processes and records: across rotations, failures and deaths between any
\* two of their steps the ring holds the newest records without a gap, a read
\* is the ring of one moment, and every record is accounted for
\* (RuntimeLogSink, createRuntimeLogFileStore).
THEOREM LogsAreFaithful == LogSpec => []LogIsFaithful
  <1>1. LogInv => LogIsFaithful
    <2> SUFFICES ASSUME LogInv PROVE LogIsFaithful
      OBVIOUS
    <2>1. LogIsASuffix
      BY DEF LogInv, RingInv
    <2>2. ReadsAreSnapshots
      BY DEF LogInv, ReaderInv, ReadsAreSnapshots
    <2>3. DropsAreReported
      BY DEF LogInv, ToldInv, DropsAreReported, InFlight
    <2> QED BY <2>1, <2>2, <2>3 DEF LogIsFaithful
  <1> QED BY <1>1, LogInitInv, LogKept, PTL DEF LogSpec
=============================================================================
