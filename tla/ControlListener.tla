---------------------------- MODULE ControlListener ----------------------------
(***************************************************************************)
(* Who owns the path of the private control socket, over the starts, ends  *)
(* and deaths of the processes that listen on it                           *)
(* (runtime-control-socket-path.ts, runtime-control-socket-listener.ts).   *)
(*                                                                         *)
(* Process p listens on socket p, the process after the last stands for    *)
(* any other socket that gets to the path by accident.  Every look at the  *)
(* path is a step of its own.  At most one process is between two of its   *)
(* steps: deployment starts a process when the one before is gone or       *)
(* serves, and the source scopes its checks to that ("cannot make those    *)
(* checks race-proof").  A process may die anywhere.                       *)
(***************************************************************************)
EXTENDS Naturals

CONSTANT Listeners   \* processes that start in a behaviour

ASSUME ListenersAssumption == Listeners \in Nat \ {0}

VARIABLES path,      \* the socket at the path, 0 = none
          mode,      \* the sockets with mode 0600
          listening, \* the sockets that accept connections
          hosts,     \* process -> [stage, seen, aside]
          replaced   \* sockets another one was put in the place of

listenerVars == <<path, mode, listening, hosts, replaced>>

Hosts == 1..Listeners
Foreign == Listeners + 1

Resting == {"NEW", "RUNNING", "CLOSED", "DEAD"}

ListenerInit ==
    /\ path = 0
    /\ mode = {}
    /\ listening = {}
    /\ hosts = [p \in Hosts |-> [stage |-> "NEW", seen |-> 0, aside |-> 0]]
    /\ replaced = {}

OthersRest(p) == \A q \in Hosts \ {p} : hosts[q].stage \in Resting

HostGoes(p, stage) == hosts' = [hosts EXCEPT ![p].stage = stage]

OnThePath(p, stage) == hosts[p].stage = stage /\ OthersRest(p)

-----------------------------------------------------------------------------
(* createRuntimeControlSocketListener. *)

\* The directory is prepared, or refused; then the path is looked at.  A
\* socket that is not 0600, as a death before chmod leaves it, is unsafe.
LookAtPath(p) ==
    /\ OnThePath(p, "NEW")
    /\ \A q \in 1..(p - 1) : hosts[q].stage # "NEW"
    /\ \/ HostGoes(p, "DEAD")
       \/ /\ path = 0
          /\ HostGoes(p, "LISTEN")
       \/ /\ path \in mode
          /\ hosts' = [hosts EXCEPT ![p].stage = "PROBE", ![p].seen = path]
    /\ UNCHANGED <<path, mode, listening, replaced>>

\* Only a refused connection counts as stale; a probe may time out.
Probe(p) ==
    /\ OnThePath(p, "PROBE")
    /\ \/ HostGoes(p, "DEAD")
       \/ /\ path # 0 /\ path \notin listening
          /\ HostGoes(p, "RECHECK")
    /\ UNCHANGED <<path, mode, listening, replaced>>

\* The same inode after the probe, and again right before the removal.
Recheck(p) ==
    \E from \in {"RECHECK", "RECHECK_AGAIN"} :
        /\ OnThePath(p, from)
        /\ HostGoes(p, IF path # hosts[p].seen THEN "DEAD"
                       ELSE IF from = "RECHECK" THEN "RECHECK_AGAIN" ELSE "REMOVE")
        /\ UNCHANGED <<path, mode, listening, replaced>>

RemoveStale(p) ==
    /\ OnThePath(p, "REMOVE")
    /\ path' = 0
    /\ HostGoes(p, "LISTEN")
    /\ UNCHANGED <<mode, listening, replaced>>

\* listenUnix: created is still unknown when it fails.
Listen(p) ==
    /\ OnThePath(p, "LISTEN")
    /\ IF path = 0
          THEN /\ path' = p
               /\ listening' = listening \cup {p}
               /\ HostGoes(p, "CHMOD")
          ELSE /\ hosts' = [hosts EXCEPT ![p].stage = "CLOSE", ![p].seen = 0]
               /\ UNCHANGED <<path, listening>>
    /\ UNCHANGED <<mode, replaced>>

\* The inode is remembered, its mode set by name, and both are verified.
Secure(p) ==
    /\ OnThePath(p, "CHMOD")
    /\ \/ /\ path = p
          /\ mode' = mode \cup {p}
          /\ hosts' = [hosts EXCEPT ![p].stage = "RUNNING", ![p].seen = p]
       \/ /\ mode' \in {mode, mode \cup {p}}
          /\ \E seen \in {0, path} :
                hosts' = [hosts EXCEPT ![p].stage = "CLOSE", ![p].seen = seen]
    /\ UNCHANGED <<path, listening, replaced>>

-----------------------------------------------------------------------------
(* closeServerPreservingReplacement. *)

StartClose(p) ==
    /\ OnThePath(p, "RUNNING")
    /\ HostGoes(p, "CLOSE")
    /\ UNCHANGED <<path, mode, listening, replaced>>

\* What lies at the path is taken for one's own (a mutant).
NotMineByName(p) == FALSE

\* A socket at the path that this process did not create.
NotMine(p) == path # 0 /\ path # hosts[p].seen

MoveAside(p) ==
    /\ OnThePath(p, "CLOSE")
    /\ IF NotMine(p)
          THEN /\ path' = 0
               /\ hosts' = [hosts EXCEPT ![p].stage = "ASIDE", ![p].aside = path]
          ELSE /\ HostGoes(p, "ASIDE")
               /\ UNCHANGED path
    /\ UNCHANGED <<mode, listening, replaced>>

\* server.close() unlinks its path by name, when it listens at all.
CloseServer(p) ==
    /\ OnThePath(p, "ASIDE")
    /\ path' = IF p \in listening THEN 0 ELSE path
    /\ listening' = listening \ {p}
    /\ HostGoes(p, "RESTORE")
    /\ UNCHANGED <<mode, replaced>>

Restore(p) ==
    /\ OnThePath(p, "RESTORE")
    /\ path' = IF hosts[p].aside = 0 THEN path ELSE hosts[p].aside
    /\ hosts' = [hosts EXCEPT ![p].stage = "CLOSED", ![p].aside = 0]
    /\ UNCHANGED <<mode, listening, replaced>>

-----------------------------------------------------------------------------

\* A death leaves the path as it is, and what was moved aside stays there.
Dies(p) ==
    /\ hosts[p].stage \notin {"NEW", "CLOSED", "DEAD"}
    /\ HostGoes(p, "DEAD")
    /\ listening' = listening \ {p}
    /\ replaced' = IF hosts[p].aside = 0 THEN replaced
                   ELSE replaced \cup {hosts[p].aside}
    /\ UNCHANGED <<path, mode>>

\* Another socket gets to the path, but not in the windows the checks leave
\* open: right before the removal, while the new socket is secured, and while
\* a server closes.
Replaced(alive) ==
    /\ \A q \in Hosts :
          hosts[q].stage \in Resting \cup {"PROBE", "RECHECK", "RECHECK_AGAIN", "LISTEN"}
    /\ path # Foreign
    /\ path' = Foreign
    /\ mode' = mode \cup {Foreign}
    /\ listening' = IF alive THEN listening \cup {Foreign} ELSE listening \ {Foreign}
    /\ replaced' = replaced \cup {path}
    /\ UNCHANGED hosts

ListenerNext ==
    \/ \E p \in Hosts :
          \/ LookAtPath(p) \/ Probe(p) \/ Recheck(p) \/ RemoveStale(p)
          \/ Listen(p) \/ Secure(p) \/ StartClose(p) \/ MoveAside(p)
          \/ CloseServer(p) \/ Restore(p) \/ Dies(p)
    \/ \E alive \in BOOLEAN : Replaced(alive)

ListenerSpec == ListenerInit /\ [][ListenerNext]_listenerVars

\* A process that serves the control socket is reached at its path, unless its
\* socket was replaced from outside: no start takes a live socket for a stale
\* one, and no end removes the socket of a later process with its own.
ListenerIsReached ==
    \A p \in Hosts \ replaced :
        hosts[p].stage = "RUNNING" =>
            path = p \/ \E q \in Hosts : hosts[q].aside = p

=============================================================================
