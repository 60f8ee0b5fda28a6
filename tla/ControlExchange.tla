---------------------------- MODULE ControlExchange ----------------------------
(***************************************************************************)
(* One request over the private control socket, from the command line to   *)
(* the control core and back: the client and its one deadline              *)
(* (runtime-control-cli.ts), the connections and their framing             *)
(* (runtime-control-socket-framing.ts), the watchdog                       *)
(* (runtime-control-socket-service.ts), the dispatch                       *)
(* (runtime-control-protocol.ts), and the drain of the maintenance         *)
(* controller, a STATUS and then one DRAIN (g11c-private-drain.ts).        *)
(*                                                                         *)
(* Bytes, JSON and their validation are left out but for one fact: a       *)
(* response reaches the client whole, in part or not at all.  Any deadline *)
(* may elapse at any moment, either side may go away, and the runtime may  *)
(* die; what it did stays in its variables as the history of the run.      *)
(***************************************************************************)
EXTENDS RuntimeControl, FiniteSets

CONSTANTS Clients,         \* runs of the command line
          Requests,        \* client -> what it may send
          Inquirer,        \* the run that asks for STATUS for the drain ...
          Drainer,         \* ... and the one that sends its DRAIN
          MaxConnections   \* MAX_ACTIVE_CONNECTIONS

Mutations == {"HOLD", "RELEASE", "DRAIN"}

\* target is 0 unless a RELEASE names its hold.
RuntimeRequests ==
    [id : Nat, kind : {"STATUS", "LOGS_READ"} \cup Mutations, expected : Nat, target : Nat]

ASSUME ExchangeAssumption ==
    /\ Requests \in [Clients -> SUBSET RuntimeRequests]
    /\ NoCommand \notin RuntimeRequests
    /\ {Inquirer, Drainer} \subseteq Clients
    /\ MaxConnections \in Nat \ {0}

VARIABLES link,   \* client -> both ends of its connection
          open,   \* activeConnections
          alive   \* the runtime is up

exchangeVars == <<link, open, alive, controlVars>>

NoReply == [ok |-> FALSE, outcome |-> "NONE", revision |-> 0, quiet |-> FALSE]

\* exit is the client's disposition; peer is the server's end of the
\* connection, arrived what of its response reached the client.
NoLink == [sends |-> NoCommand, exit |-> "NONE", connected |-> FALSE,
           peer |-> "NONE", arrived |-> "NOTHING", reply |-> NoReply]

ExchangeInit ==
    /\ ControlInit
    /\ link = [c \in Clients |-> NoLink]
    /\ open = 0
    /\ alive = TRUE

Accepted == {"ACQUIRING", "OBSERVING", "READING", "WRITING", "ENDED"}

Pending(c) == link[c].exit = "NONE"

\* A drain is only sent with the revision of a STATUS that was answered.
Asked(c) ==
    c = Drainer => link[Inquirer].exit = "RESULT" /\ link[Inquirer].reply.outcome = "STATUS"

Holding(c) == link[c].peer \in Accepted

-----------------------------------------------------------------------------
(* The client. *)

\* The drain expects the revision its STATUS told it.
Sent(c, cmd) ==
    IF c = Drainer THEN [cmd EXCEPT !.expected = link[Inquirer].reply.revision] ELSE cmd

\* The path is checked and connected to; a full backlog, a wrong socket or a
\* runtime that is gone end it.
Connect(c) ==
    /\ Pending(c) /\ ~link[c].connected
    /\ Asked(c)
    /\ alive
    /\ \E cmd \in Requests[c] :
          link' = [link EXCEPT ![c].connected = TRUE, ![c].sends = Sent(c, cmd)]
    /\ UNCHANGED <<open, alive, controlVars>>

\* Every end without a byte received is taken for a connection that failed
\* (a mutant).
WithoutAnswerUnasked(connected) == "CONNECT_FAILED"

\* Nothing was received: the request went out, or it cannot have.
WithoutAnswer(connected) == IF connected THEN "TRANSPORT_ERROR" ELSE "CONNECT_FAILED"

\* terminal: only a whole response followed by the peer's end of file counts.
Terminates(c, eof, atDeadline) ==
    link' = [link EXCEPT ![c].exit =
        CASE link[c].arrived = "WHOLE" /\ eof ->
                IF link[c].reply.ok THEN "RESULT" ELSE "REFUSED"
          [] link[c].arrived # "NOTHING" /\ ~(link[c].arrived = "WHOLE" /\ eof) ->
                "RESPONSE_PARTIAL"
          [] OTHER -> IF atDeadline THEN "TIMEOUT" ELSE WithoutAnswer(link[c].connected)]

\* The connection ends, cleanly or with an error, or never came about.
ClientEnds(c) ==
    /\ Pending(c)
    /\ IF link[c].connected THEN link[c].peer \in {"ENDED", "CLOSED"} \/ ~alive
                            ELSE Asked(c)
    /\ \E eof \in BOOLEAN : Terminates(c, eof, FALSE)
    /\ UNCHANGED <<open, alive, controlVars>>

\* The one deadline of the run, preflight included.
ClientDeadline(c) ==
    /\ Pending(c)
    /\ Asked(c)
    /\ Terminates(c, FALSE, TRUE)
    /\ UNCHANGED <<open, alive, controlVars>>

-----------------------------------------------------------------------------
(* The server. *)

\* onConnection: the connection after the last is destroyed unread.
Accept(c) ==
    /\ alive
    /\ link[c].connected /\ link[c].peer = "NONE"
    /\ IF open >= MaxConnections
          THEN /\ link' = [link EXCEPT ![c].peer = "CLOSED"]
               /\ UNCHANGED open
          ELSE /\ link' = [link EXCEPT ![c].peer = "ACQUIRING"]
               /\ open' = open + 1
    /\ UNCHANGED <<alive, controlVars>>

Replies(c, ok, kind, rev) ==
    link' = [link EXCEPT ![c].peer = "WRITING",
                         ![c].reply = [ok |-> ok, outcome |-> kind,
                                       revision |-> rev, quiet |-> Quiet]]

\* Its last terminal, or the error code for an INTERNAL_UNAVAILABLE drain.
RepliesTerminal(c) ==
    Replies(c, last.outcome # "INTERNAL_UNAVAILABLE", last.outcome, last.revision)

\* The whole request was read: STATUS, HOLD and RELEASE are answered in the
\* same turn; a DRAIN is applied in it and observed under the watchdog.
Dispatch(c) ==
    /\ alive
    /\ link[c].peer = "ACQUIRING"
    /\ LET cmd == link[c].sends
       IN  \/ /\ cmd.kind = "STATUS"
              /\ Replies(c, TRUE, "STATUS", revision)
              /\ UNCHANGED controlVars
           \/ /\ cmd.kind = "LOGS_READ"
              /\ link' = [link EXCEPT ![c].peer = "READING"]
              /\ UNCHANGED controlVars
           \/ /\ cmd.kind \in Mutations
              /\ \/ Verdict(cmd) = "REPLAY" /\ RepliesTerminal(c) /\ UNCHANGED controlVars
                 \/ /\ Verdict(cmd) = "JOIN"
                    /\ link' = [link EXCEPT ![c].peer = "OBSERVING"]
                    /\ UNCHANGED controlVars
                 \/ /\ Verdict(cmd) \notin {"APPLY", "REPLAY", "JOIN"}
                    /\ Replies(c, FALSE, Verdict(cmd), 0)
                    /\ UNCHANGED controlVars
                 \/ /\ Hold(cmd) \/ Release(cmd)
                    /\ Replies(c, TRUE, last'.outcome, revision')
                 \/ /\ \E settles \in BOOLEAN : Drain(cmd, settles)
                    /\ link' = [link EXCEPT ![c].peer = "OBSERVING"]
    /\ UNCHANGED <<open, alive>>

\* A request that is none of the five, or not exactly one, is refused.
RefusesRequest(c) ==
    /\ alive
    /\ link[c].peer = "ACQUIRING"
    /\ Replies(c, FALSE, "INVALID_REQUEST", 0)
    /\ UNCHANGED <<open, alive, controlVars>>

\* The drain this connection started or joined is terminal.
DrainAnswered(c) ==
    /\ alive
    /\ link[c].peer = "OBSERVING"
    /\ last.command = link[c].sends
    /\ RepliesTerminal(c)
    /\ UNCHANGED <<open, alive, controlVars>>

\* A late or failing read of the log is answered as unavailable.
LogsAnswered(c) ==
    /\ alive
    /\ link[c].peer = "READING"
    /\ \E ok \in BOOLEAN :
          Replies(c, ok, IF ok THEN "LOGS_READ" ELSE "LOG_READ_UNAVAILABLE", revision)
    /\ UNCHANGED <<open, alive, controlVars>>

\* One write, with its own deadline and without patience for backpressure.
WriteOneResponse(c) ==
    /\ alive
    /\ link[c].peer = "WRITING"
    /\ \E arrived \in IF Pending(c) THEN {"NOTHING", "PART", "WHOLE"} ELSE {"NOTHING"} :
          link' = [link EXCEPT ![c].peer = "ENDED", ![c].arrived = arrived]
    /\ UNCHANGED <<open, alive, controlVars>>

\* A request that comes late, in pieces that do not fit or not at all, and a
\* connection that fails, are destroyed; what was dispatched goes on.
FatalDestroy(c) ==
    /\ alive
    /\ link[c].peer \in Accepted \ {"ENDED"}
    /\ link' = [link EXCEPT ![c].peer = "ENDED"]
    /\ UNCHANGED <<open, alive, controlVars>>

\* release, once for a connection.
SocketCloses(c) ==
    /\ alive
    /\ link[c].peer = "ENDED"
    /\ link' = [link EXCEPT ![c].peer = "CLOSED"]
    /\ open' = open - 1
    /\ UNCHANGED <<alive, controlVars>>

-----------------------------------------------------------------------------
(* The runtime behind it. *)

ObserveDrain ==
    /\ alive
    /\ DrainObserved \/ DrainExpires \/ DrainAborts
    /\ UNCHANGED <<link, open, alive>>

\* Work takes a lease unless a hold forbids it, and gives it back.
Work(h) ==
    /\ alive
    /\ \/ h \notin persistence /\ MayIssue /\ persistence' = persistence \cup {h}
       \/ h \in persistence /\ persistence' = persistence \ {h}
    /\ UNCHANGED <<link, open, alive, replayVars, holdVars, reads>>

RuntimeDies ==
    /\ alive
    /\ alive' = FALSE
    /\ open' = 0
    /\ link' = [c \in Clients |->
                   IF Holding(c) THEN [link[c] EXCEPT !.peer = "CLOSED"] ELSE link[c]]
    /\ UNCHANGED controlVars

ExchangeNext ==
    \/ \E c \in Clients :
          \/ Connect(c) \/ ClientEnds(c) \/ ClientDeadline(c)
          \/ Accept(c) \/ Dispatch(c) \/ RefusesRequest(c)
          \/ DrainAnswered(c) \/ LogsAnswered(c)
          \/ WriteOneResponse(c) \/ FatalDestroy(c) \/ SocketCloses(c)
    \/ ObserveDrain
    \/ \E h \in Holders : Work(h)
    \/ RuntimeDies

ExchangeSpec == ExchangeInit /\ [][ExchangeNext]_exchangeVars

-----------------------------------------------------------------------------
(* Properties. *)

\* What the adapter reports to the maintenance lifecycle.
ReportsDrained ==
    link[Drainer].exit = "RESULT" /\ link[Drainer].reply.outcome = "DRAINED"
                                  /\ link[Drainer].reply.quiet

\* The operator can rely on the exit code, whatever was lost, late or sent
\* again: a result is that of the command at the revision it names; a failed
\* connection means that the runtime never saw the request; and a drain that
\* reports DRAINED left the runtime quiet.
ExitCodesAreTrue ==
    /\ \A c \in Clients :
        /\ link[c].exit = "RESULT" /\ link[c].sends.kind \in Mutations =>
              /\ link[c].reply.revision \in DOMAIN applied
              /\ applied[link[c].reply.revision] = link[c].sends
        /\ link[c].exit = "CONNECT_FAILED" => link[c].peer = "NONE"
    /\ ReportsDrained => outcome = "DRAINED" /\ Quiet

\* The slots of the control plane neither leak nor double: as many are taken
\* as connections are being served, so that eight slow or broken clients never
\* lock the operator out, nor more than eight are ever served.
SlotsAreCounted ==
    /\ open = Cardinality({c \in Clients : Holding(c)})
    /\ open <= MaxConnections

\* What an exchange reports is so, and what it held is given back once.
ExchangesAreHonest == ExitCodesAreTrue /\ SlotsAreCounted

=============================================================================
