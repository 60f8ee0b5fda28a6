--------------------------- MODULE ProductionRuntime ---------------------------
(***************************************************************************)
(* One API process from its start to its end: what it opens on the way to  *)
(* service, what it gives back when a step of that fails, and how a signal *)
(* closes it (production-main.ts, g11b-production-application.ts,          *)
(* g11b-production-http-lifecycle.ts, g11b-production-shutdown-engine.ts,  *)
(* g10a-runtime-owner.ts, g10a-runtime-http-application.ts and the gate of *)
(* g11b-claimed-runtime-bootstrap-engine.ts).                              *)
(*                                                                         *)
(* RunLifecycle decides which process may claim an epoch; here the claim   *)
(* is an outcome of ClaimRun.  Every await may fail, a close may fail or   *)
(* never answer, and requests, a drain and signals come in between.  The   *)
(* probe mode is left out.                                                 *)
(***************************************************************************)
EXTENDS Naturals

CONSTANT Connections   \* HTTP connections made to the process

VARIABLES main,         \* where main() is
          app,          \* production.application is not null
          gate,         \* the local service gate
          owner,        \* the state of the runtime owner
          resource,     \* what the process has opened
          drained,      \* the runtime control holds for maintenance
          closing,      \* the resource whose close is awaited
          failed,       \* a close of this sequence failed
          heard,        \* signals whose listener has run
          deadline,     \* the timer of the shutdown
          exitCode,     \* process.exitCode, 0 until it is set
          conn          \* the request of each connection

productionVars == <<main, app, gate, owner, resource, drained, closing,
                    failed, heard, deadline, exitCode, conn>>

Resources == {"mongo", "sink", "socket", "http"}

Signals == {"SIGTERM", "SIGINT"}

\* Three sequences of closes: one undoes a composition, one ends a start that
\* failed, one is the shutdown.
Closings == {"UNDOING", "CLEANING", "CLOSING"}

Starting == {"CONNECTING", "CLAIMING", "COMPOSING", "SOCKET", "HTTP", "LISTENING"}

Mains == Starting \cup Closings \cup {"READY", "OVER", "ENDED", "KILLED"}

Alive == main \notin {"ENDED", "KILLED"}

ProductionInit ==
    /\ main = "CONNECTING"
    /\ app = FALSE
    /\ gate = "NONE"
    /\ owner = "NEW"
    /\ resource = [x \in Resources |-> "NONE"]
    /\ drained = FALSE
    /\ closing = "none"
    /\ failed = FALSE
    /\ heard = {}
    /\ deadline = "NONE"
    /\ exitCode = 0
    /\ conn = [c \in Connections |-> "NONE"]

\* The next sequence of closes, from its first resource on.
Closes(how, x) == main' = how /\ closing' = x

-----------------------------------------------------------------------------
(* The start. *)

\* The client is connected and its server verified, or it is closed again.
ConnectMongo ==
    /\ main = "CONNECTING"
    /\ resource' = [resource EXCEPT !["mongo"] = "OPEN"]
    /\ \/ main' = "CLAIMING" /\ UNCHANGED closing
       \/ Closes("CLEANING", "mongo")
    /\ UNCHANGED <<app, gate, owner, drained, failed, heard, deadline,
                   exitCode, conn>>

\* Run id, dataset, ticket and claim: a failure ends the start, a start without
\* a ticket serves nothing behind a FAILED gate.
ClaimRun ==
    /\ main = "CLAIMING"
    /\ \/ Closes("CLEANING", "mongo") /\ UNCHANGED gate
       \/ main' = "LISTENING" /\ gate' = "FAILED" /\ UNCHANGED closing
       \/ main' = "COMPOSING" /\ gate' = "COMPOSING" /\ UNCHANGED closing
    /\ UNCHANGED <<app, owner, resource, drained, failed, heard, deadline,
                   exitCode, conn>>

\* Metadata, registry and routes are composed, then the owner starts with its
\* log sink, which is there even when the log files are not.
ComposeClaimed ==
    /\ main = "COMPOSING"
    /\ main' = "SOCKET"
    /\ owner' = "STARTING"
    /\ resource' = [resource EXCEPT !["sink"] = "OPEN"]
    /\ UNCHANGED <<app, gate, drained, closing, failed, heard, deadline,
                   exitCode, conn>>

\* What has no resource yet throws: the process stays behind a closed gate.
CompositionThrows ==
    /\ main = "COMPOSING"
    /\ main' = "LISTENING"
    /\ gate' = "SHUTDOWN"
    /\ UNCHANGED <<app, owner, resource, drained, closing, failed, heard,
                   deadline, exitCode, conn>>

\* The control socket listens, or the owner closes the sink it had.
OpenControlSocket ==
    /\ main = "SOCKET"
    /\ \/ /\ main' = "HTTP"
          /\ owner' = "RUNNING"
          /\ resource' = [resource EXCEPT !["socket"] = "OPEN"]
          /\ UNCHANGED closing
       \/ Closes("UNDOING", "sink") /\ owner' = "FAILED" /\ UNCHANGED resource
    /\ UNCHANGED <<app, gate, drained, failed, heard, deadline, exitCode, conn>>

\* isLifecycleCurrent: nobody closes the application and its owner runs.
LifecycleCurrent == closing = "none" /\ owner = "RUNNING"

\* Nest comes up and the composition is proved current, in one turn up to the
\* OPEN gate; a drain that got in before it fails the proof.
CompleteComposition ==
    /\ main = "HTTP"
    /\ app' = TRUE
    /\ resource' = [resource EXCEPT !["http"] = "MADE"]
    /\ IF LifecycleCurrent /\ ~drained
          THEN main' = "LISTENING" /\ gate' = "OPEN" /\ UNCHANGED closing
          ELSE Closes("UNDOING", "http") /\ gate' = "SHUTDOWN"
    /\ UNCHANGED <<owner, drained, failed, heard, deadline, exitCode, conn>>

\* The handler or Nest cannot be made: the owner is closed.
HttpFails ==
    /\ main = "HTTP"
    /\ Closes("UNDOING", "socket")
    /\ owner' = "CLOSING"
    /\ UNCHANGED <<app, gate, resource, drained, failed, heard, deadline,
                   exitCode, conn>>

\* The server of the application, or one that answers 503, is bound; or what
\* was opened is closed, the application and its gate first.
ListenHttp ==
    /\ main = "LISTENING"
    /\ main' = "READY"
    /\ resource' = [resource EXCEPT !["http"] = "OPEN"]
    /\ UNCHANGED <<app, gate, owner, drained, closing, failed, heard,
                   deadline, exitCode, conn>>

ListenHttpFails ==
    /\ main = "LISTENING"
    /\ Closes("CLEANING", IF app THEN "http" ELSE "mongo")
    /\ gate' = IF app THEN "SHUTDOWN" ELSE gate
    /\ UNCHANGED <<app, owner, resource, drained, failed, heard, deadline,
                   exitCode, conn>>

-----------------------------------------------------------------------------
(* Closing. *)

\* Connections are not waited for (a mutant).
ConnectionsLeft == {}

\* server.close() answers when the last connection has ended.
ConnectionsOpen == {c \in Connections : conn[c] \in {"OPEN", "HANDLED"}}

\* The order of the closes: HTTP, the owner's listener, its sink, MongoDB.
AfterClose(x) ==
    CASE x = "http" -> IF app THEN "socket" ELSE "mongo"
      [] x = "socket" -> "sink"
      [] x = "sink" -> IF main = "UNDOING" THEN "done" ELSE "mongo"
      [] OTHER -> "done"

OwnerCloses(x) ==
    IF owner = "FAILED" THEN owner
    ELSE IF AfterClose(x) = "socket" THEN "CLOSING"
    ELSE IF x = "sink" THEN "CLOSED" ELSE owner

\* A close answers or throws; either way the next one is made.
CloseSettles ==
    /\ main \in Closings
    /\ closing \in Resources
    /\ \/ /\ closing = "http" => ConnectionsOpen = {}
          /\ resource' = [resource EXCEPT ![closing] = "CLOSED"]
          /\ UNCHANGED failed
       \/ /\ resource' = [resource EXCEPT ![closing] = "STUCK"]
          /\ failed' = TRUE
    /\ closing' = AfterClose(closing)
    /\ owner' = OwnerCloses(closing)
    /\ UNCHANGED <<main, app, gate, drained, heard, deadline, exitCode, conn>>

\* The composition is undone, its failures swallowed: the process stays, for
\* nothing.
Undone ==
    /\ main = "UNDOING"
    /\ closing = "done"
    /\ main' = "LISTENING"
    /\ app' = FALSE
    /\ gate' = "SHUTDOWN"
    /\ closing' = "none"
    /\ failed' = FALSE
    /\ resource' = [resource EXCEPT !["http"] = "NONE"]   \* a new server
    /\ UNCHANGED <<owner, drained, heard, deadline, exitCode, conn>>

StartHasFailed ==
    /\ main = "CLEANING"
    /\ closing = "done"
    /\ main' = "OVER"
    /\ exitCode' = 1
    /\ UNCHANGED <<app, gate, owner, resource, drained, closing, failed,
                   heard, deadline, conn>>

ShutdownIsOver ==
    /\ main = "CLOSING"
    /\ closing = "done"
    /\ main' = "OVER"
    /\ exitCode' = IF failed THEN 1 ELSE 0
    /\ deadline' = IF failed THEN deadline ELSE "CLEARED"
    /\ UNCHANGED <<app, gate, owner, resource, drained, closing, failed,
                   heard, conn>>

\* The first signal of a ready process begins its shutdown and the other one
\* joins it; a process without listeners, or without the one that its first
\* such signal used up, is killed.
Signal(s) ==
    /\ Alive
    /\ \/ /\ main = "READY"
          /\ Closes("CLOSING", "http")
          /\ gate' = "SHUTDOWN"
          /\ heard' = {s}
          /\ deadline' = "ARMED"
       \/ /\ heard # {} /\ s \notin heard
          /\ heard' = heard \cup {s}
          /\ UNCHANGED <<main, closing, gate, deadline>>
       \/ /\ main # "READY" /\ (heard = {} \/ s \in heard)
          /\ main' = "KILLED"
          /\ UNCHANGED <<closing, gate, heard, deadline>>
    /\ UNCHANGED <<app, owner, resource, drained, failed, exitCode, conn>>

\* 25 s are over: the process ends where it is.
DeadlineExpires ==
    /\ Alive
    /\ deadline = "ARMED"
    /\ main' = "ENDED"
    /\ deadline' = "FIRED"
    /\ exitCode' = 1
    /\ UNCHANGED <<app, gate, owner, resource, drained, closing, failed,
                   heard, conn>>

\* Nothing is left that would keep the event loop.
LoopEnds ==
    /\ main = "OVER"
    /\ \A x \in Resources : resource[x] \in {"NONE", "CLOSED"}
    /\ main' = "ENDED"
    /\ UNCHANGED <<app, gate, owner, resource, drained, closing, failed,
                   heard, deadline, exitCode, conn>>

-----------------------------------------------------------------------------
(* Requests and maintenance. *)

Accepts == resource["http"] = "OPEN" /\ closing # "http"

AcceptConnection(c) ==
    /\ Alive
    /\ Accepts
    /\ conn[c] = "NONE"
    /\ conn' = [conn EXCEPT ![c] = "OPEN"]
    /\ UNCHANGED <<main, app, gate, owner, resource, drained, closing,
                   failed, heard, deadline, exitCode>>

\* The gate is asked when the request has arrived, not when its connection
\* was accepted.
RequestArrives(c) ==
    /\ Alive
    /\ conn[c] = "OPEN"
    /\ conn' = [conn EXCEPT ![c] =
          IF gate = "OPEN" /\ LifecycleCurrent /\ app THEN "HANDLED" ELSE "REFUSED"]
    /\ UNCHANGED <<main, app, gate, owner, resource, drained, closing,
                   failed, heard, deadline, exitCode>>

\* The request is answered, or its connection is lost.
ConnectionEnds(c) ==
    /\ Alive
    /\ conn[c] \in {"OPEN", "HANDLED"}
    /\ conn' = [conn EXCEPT ![c] = "ENDED"]
    /\ UNCHANGED <<main, app, gate, owner, resource, drained, closing,
                   failed, heard, deadline, exitCode>>

\* DRAIN, over the control socket: its hold is for good.
DrainArrives ==
    /\ Alive
    /\ resource["socket"] = "OPEN" /\ closing # "socket"
    /\ ~drained
    /\ drained' = TRUE
    /\ UNCHANGED <<main, app, gate, owner, resource, closing, failed, heard,
                   deadline, exitCode, conn>>

ProductionNext ==
    \/ ConnectMongo \/ ClaimRun \/ ComposeClaimed \/ CompositionThrows
    \/ OpenControlSocket \/ CompleteComposition \/ HttpFails \/ ListenHttp \/ ListenHttpFails
    \/ CloseSettles \/ Undone \/ StartHasFailed \/ ShutdownIsOver
    \/ \E s \in Signals : Signal(s)
    \/ DeadlineExpires \/ LoopEnds \/ DrainArrives
    \/ \E c \in Connections : AcceptConnection(c) \/ RequestArrives(c) \/ ConnectionEnds(c)

ProductionSpec == ProductionInit /\ [][ProductionNext]_productionVars

-----------------------------------------------------------------------------
(* Properties. *)

ProductionTypeOK ==
    /\ main \in Mains
    /\ app \in BOOLEAN
    /\ gate \in {"NONE", "COMPOSING", "OPEN", "SHUTDOWN", "FAILED"}
    /\ owner \in {"NEW", "STARTING", "RUNNING", "FAILED", "CLOSING", "CLOSED"}
    /\ resource \in [Resources -> {"NONE", "MADE", "OPEN", "CLOSED", "STUCK"}]
    /\ drained \in BOOLEAN
    /\ closing \in Resources \cup {"none", "done"}
    /\ failed \in BOOLEAN
    /\ heard \in SUBSET Signals
    /\ deadline \in {"NONE", "ARMED", "CLEARED", "FIRED"}
    /\ exitCode \in {0, 1}
    /\ conn \in [Connections -> {"NONE", "OPEN", "HANDLED", "REFUSED", "ENDED"}]

\* A gate that says ready stands before a whole composition: MongoDB, the
\* owner with its sink and socket, and a server that nobody is closing.
ReadyMeansWhole ==
    Alive /\ gate = "OPEN" =>
        /\ app /\ owner = "RUNNING" /\ main \in {"LISTENING", "READY"}
        /\ \A x \in {"mongo", "sink", "socket"} : resource[x] = "OPEN"

\* While a request is in the handler, a shutdown in any state has closed
\* nothing that the request may use, unless closing HTTP itself failed.
HandledRequestsAreServed ==
    \A c \in Connections :
        Alive /\ conn[c] = "HANDLED" /\ resource["http"] # "STUCK" =>
            \A x \in {"mongo", "sink", "socket"} : resource[x] = "OPEN"

\* A process that is done has closed all it ever opened, or tried to, and one
\* that stays without an application keeps neither socket nor sink; exit code
\* 0 says that everything its shutdown had to close is closed.
NothingIsLeftOpen ==
    /\ main = "OVER" => \A x \in {"mongo", "sink", "socket"} :
                            resource[x] \in {"NONE", "CLOSED", "STUCK"}
    /\ main \in {"LISTENING", "READY"} /\ ~app =>
          resource["sink"] # "OPEN" /\ resource["socket"] # "OPEN"
    /\ main = "OVER" /\ exitCode = 0 =>
          /\ resource["http"] = "CLOSED" /\ resource["mongo"] = "CLOSED"
          /\ app => resource["sink"] = "CLOSED" /\ resource["socket"] = "CLOSED"

\* A shutdown that hangs or failed is under its deadline.
ShutdownIsBounded ==
    /\ main = "CLOSING" => deadline = "ARMED"
    /\ main = "OVER" /\ heard # {} /\ exitCode = 1 => deadline = "ARMED"

\* The process opens and closes in order, whatever fails on the way.
ProcessClosesInOrder ==
    /\ ReadyMeansWhole
    /\ HandledRequestsAreServed
    /\ NothingIsLeftOpen
    /\ ShutdownIsBounded

=============================================================================
