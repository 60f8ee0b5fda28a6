--------------------------- MODULE RuntimeControl ---------------------------
(***************************************************************************)
(* The control core of one runtime (runtime-control.ts): the manual hold,  *)
(* the maintenance hold and its drain, the leases a drain waits for, and   *)
(* the replay record that makes a command safe to send again.              *)
(*                                                                         *)
(* A module that composes this one says who holds a lease (Holders) and    *)
(* what the settlement at the start of a drain does.  A command is a       *)
(* record; two commands have the same fingerprint when they are equal.  A  *)
(* control id is the revision its command produced: every id is fresh, as  *)
(* randomUUID makes them.                                                  *)
(***************************************************************************)
EXTENDS Naturals, Sequences

CONSTANTS
    Holders,    \* who may hold a persistence or a query lease
    NoCommand

VARIABLES
    revision,
    manual,         \* manualControlId, 0 when null
    maintenance,    \* maintenanceControlId, 0 when null
    outcome,        \* maintenanceOutcome
    current,        \* the pending DRAIN, or NoCommand
    last,           \* the last terminal command and its result
    persistence,    \* holders of an issued-persistence lease
    reads,          \* holders of an active-query-read lease
    applied         \* history: the commands that changed the state, in order

replayVars == <<revision, current, last, applied>>
holdVars == <<manual, maintenance, outcome>>
leaseVars == <<persistence, reads>>
controlVars == <<replayVars, holdVars, leaseVars>>

Outcomes == {"NONE", "WAITING", "DRAINED", "NOT_DRAINED", "INTERNAL_UNAVAILABLE"}

\* A mutation as the protocol hands it over: target is the control id that a
\* RELEASE names, 0 otherwise.
Command(ids) ==
    [id : ids, kind : {"HOLD", "RELEASE", "DRAIN"}, expected : Nat, target : Nat]

NothingYet == [command |-> NoCommand, outcome |-> "NONE", revision |-> 0]

ControlInit ==
    /\ revision = 0
    /\ manual = 0
    /\ maintenance = 0
    /\ outcome = "NONE"
    /\ current = NoCommand
    /\ last = NothingYet
    /\ persistence = {}
    /\ reads = {}
    /\ applied = << >>

-----------------------------------------------------------------------------
(* What a command meets: validateMutation, validateDrainMutation, and the  *)
(* checks of hold, release and drain                                       *)

StateVerdict(c) ==
    CASE c.kind = "HOLD" -> IF manual # 0 THEN "MANUAL_HOLD_EXISTS" ELSE "APPLY"
      [] c.kind = "RELEASE" ->
            IF manual = 0 THEN "NO_MANUAL_HOLD"
            ELSE IF manual # c.target THEN "CONTROL_ID_MISMATCH" ELSE "APPLY"
      [] c.kind = "DRAIN" -> IF maintenance # 0 THEN "MAINTENANCE_HOLD_EXISTS" ELSE "APPLY"

\* Mutant of Verdict: a command is not compared with the last one, nor its
\* expected revision with the current one.
VerdictUnchecked(c) ==
    IF current # NoCommand THEN "CONTROL_BUSY" ELSE StateVerdict(c)

Verdict(c) ==
    IF current # NoCommand
    THEN IF current = c THEN "JOIN"
         ELSE IF current.id = c.id THEN "REQUEST_CONTROL_CONFLICT" ELSE "CONTROL_BUSY"
    ELSE IF last.command # NoCommand /\ last.command.id = c.id
    THEN IF last.command = c THEN "REPLAY" ELSE "REQUEST_CONTROL_CONFLICT"
    ELSE IF c.expected # revision THEN "STALE_REVISION" ELSE StateVerdict(c)

Applies(c) == Verdict(c) = "APPLY"

Bump(c) ==
    /\ revision' = revision + 1
    /\ applied' = Append(applied, c)

Terminal(c, result, rev) == [command |-> c, outcome |-> result, revision |-> rev]

\* hold: HELD
Hold(c) ==
    /\ c.kind = "HOLD" /\ Applies(c)
    /\ Bump(c)
    /\ manual' = revision + 1
    /\ last' = Terminal(c, "HELD", revision + 1)
    /\ UNCHANGED <<current, maintenance, outcome, leaseVars>>

\* release: RELEASED.  The wake of the coordinator is a later microtask.
Release(c) ==
    /\ c.kind = "RELEASE" /\ Applies(c)
    /\ Bump(c)
    /\ manual' = 0
    /\ last' = Terminal(c, "RELEASED", revision + 1)
    /\ UNCHANGED <<current, maintenance, outcome, leaseVars>>

Quiet == persistence = {} /\ reads = {}

OutcomeAtStart(settles) ==
    IF ~settles THEN "INTERNAL_UNAVAILABLE" ELSE IF Quiet THEN "DRAINED" ELSE "WAITING"

\* drain up to its first await: the maintenance hold, the two synchronous
\* callbacks (settles says whether they returned), and the terminal when there
\* is nothing to wait for
Drain(c, settles) ==
    /\ c.kind = "DRAIN" /\ Applies(c)
    /\ Bump(c)
    /\ maintenance' = revision + 1
    /\ outcome' = OutcomeAtStart(settles)
    /\ IF outcome' = "WAITING"
       THEN current' = c /\ UNCHANGED last
       ELSE current' = NoCommand /\ last' = Terminal(c, outcome', revision + 1)
    /\ UNCHANGED <<manual, leaseVars>>

\* finish, from the observe loop
Finish(result) ==
    /\ outcome = "WAITING"
    /\ outcome' = result
    /\ last' = Terminal(current, result, revision)
    /\ current' = NoCommand
    /\ UNCHANGED <<revision, applied, manual, maintenance, leaseVars>>

\* the loop finds both counters at zero; it looks at them before the deadline
DrainObserved == Quiet /\ Finish("DRAINED")

\* the deadline has passed while a lease is out
DrainExpires == ~Quiet /\ Finish("NOT_DRAINED")

\* the watchdog aborted the observation, or the clock failed
DrainAborts == Finish("INTERNAL_UNAVAILABLE")

-----------------------------------------------------------------------------
(* Leases and gates *)

CanStartWriter == manual = 0
MaintenanceVeto == maintenance # 0

\* acquireIssuedPersistence throws CONTROL_BUSY unless
MayIssue == manual = 0 /\ maintenance = 0

\* acquireActiveQueryRead throws CONTROL_BUSY unless
MayRead == maintenance = 0

ControlTypeOK ==
    /\ revision \in Nat
    /\ manual \in Nat /\ maintenance \in Nat
    /\ outcome \in Outcomes
    /\ persistence \subseteq Holders
    /\ reads \subseteq Holders
=============================================================================
