------------------------------ MODULE MCLifecycle ------------------------------
(* Eight machines that share no state: the life of the deployment's          *)
(* processes, the start and shutdown of one of them, the runtime log, the    *)
(* path of the control socket, the exchanges over it, the listings, the rate *)
(* ledger and the bodies of requests.  A behaviour is one machine's: the     *)
(* others stay as they start, so their states add up instead of multiplying. *)
EXTENDS RunLifecycle, ProductionRuntime, RuntimeLog, ControlListener,
        ControlExchange, Queries, RateLedger, BodyReader

CONSTANTS op, inquirer, drainer, w, none, login, query

VARIABLE machine   \* the one that moves

\* An operator holds and reads the log; another asks and releases the hold
\* it heard of; the drain script sends what its STATUS told it.
Cmd(i, k, rev, t) == [id |-> i, kind |-> k, expected |-> rev, target |-> t]
MCRequests ==
    [c \in Clients |->
        CASE c = op -> {Cmd(1, "HOLD", 0, 0), Cmd(2, "LOGS_READ", 0, 0)}
          [] c = inquirer -> {Cmd(4, "STATUS", 0, 0), Cmd(5, "RELEASE", 1, 1)}
          [] OTHER -> {Cmd(3, "DRAIN", 0, 0)}]

\* Every listing, the events with and without a filter, and a detail.
MCQueryScopes ==
    {[endpoint |-> e, of |-> 0] : e \in {"qualifications", "inside", "events"}}
    \cup {[endpoint |-> e, of |-> 1] : e \in {"events", "qualification"}}

MCPerKey == [c \in Categories |-> IF c = login THEN 1 ELSE 2]
MCInAll == [c \in Categories |-> 3]
MCMaxKeys == [c \in Categories |-> IF c = login THEN 2 ELSE 0]

\* Two starts may have two run ids and two tickets, three have one of each.
StartsRunsAndTickets ==
    LET started == Cardinality({p \in Starts : ~At(p, "NONE")})
    IN  started + runFile <= 4 /\ started + issued <= 4

\* The log and the drain are asked for in turns.
LogsOrDrain ==
    link[op].connected /\ link[op].sends.kind = "LOGS_READ" =>
        link[drainer] = NoLink /\ persistence = {}

Init ==
    /\ RunInit /\ ProductionInit /\ LogInit /\ ListenerInit /\ ExchangeInit
    /\ QueryInit /\ RateInit /\ IngressInit
    /\ machine \in {"RUN", "PROCESS", "LOG", "LISTENER", "EXCHANGE", "QUERY",
                   "RATE", "BODY"}
    /\ machine = "LOG" \/ records = 0

Next ==
    /\ UNCHANGED machine
    /\ machine = "RUN" \/ UNCHANGED runVars
    /\ machine = "PROCESS" \/ UNCHANGED productionVars
    /\ machine = "LOG" \/ UNCHANGED logVars
    /\ machine = "LISTENER" \/ UNCHANGED listenerVars
    /\ machine = "EXCHANGE" \/ UNCHANGED exchangeVars
    /\ machine = "QUERY" \/ UNCHANGED queryVars
    /\ machine = "RATE" \/ UNCHANGED rateVars
    /\ machine = "BODY" \/ UNCHANGED ingressVars
    /\ \/ machine = "RUN" /\ RunNext
       \/ machine = "PROCESS" /\ ProductionNext
       \/ machine = "LOG" /\ LogNext
       \/ machine = "LISTENER" /\ ListenerNext
       \/ machine = "EXCHANGE" /\ ExchangeNext
       \/ machine = "QUERY" /\ QueryNext
       \/ machine = "RATE" /\ RateNext
       \/ machine = "BODY" /\ IngressNext
=============================================================================
