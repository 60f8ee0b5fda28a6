----------------------- MODULE WriteCoordinatorProofs -----------------------
(***************************************************************************)
(* Proofs about WriteCoordinator for every set of operations, every set of *)
(* throwing hooks and every number of manual holds.                        *)
(***************************************************************************)
EXTENDS WriteCoordinator, SequenceTheorems, TLAPS

\* What a queued operation looks like.
QueuedOperations ==
    \A o \in Ops : Queued(o) =>
        /\ ~op[o].active
        /\ op[o].phase = "NONE"
        /\ op[o].validation \in {"WAITING_VALIDATION", "READY"}
        /\ op[o].validation = "READY" => op[o].decided
        /\ op[o].sequence < nextSequence

\* What the holder of the write right looks like.
CurrentOperation ==
    current # NoOp =>
        /\ ~Queued(current)
        /\ op[current].decided
        /\ op[current].validation = "READY"
        /\ op[current].phase = "PAUSED" <=> drain \in {"IDLE", "LOOP"}

\* Nothing has happened to an operation before it is registered.
UnregisteredOperations ==
    \A o \in Ops : ~Registered(o) => ~op[o].finalized /\ op[o].phase = "NONE"

\* A drain microtask is never pending while a drain loop runs.
OneDrain == drainScheduled => drain = "IDLE"

IInv ==
    /\ TypeOK
    /\ OneWriter
    /\ QueuedOperations
    /\ CurrentOperation
    /\ UnregisteredOperations
    /\ OneDrain
    /\ FifoIntegrity
    /\ QuiescenceMirrorsCoordinator
    /\ ReadersExcludeWriters
    /\ UnknownEffectIsFinal
    /\ ResolvedMeansPersisted

-----------------------------------------------------------------------------
(* Sequences *)

\* splice(position, 1): what is left, index by index.
LEMMA RemoveAtProperties ==
    ASSUME NEW S, NEW s \in Seq(S), NEW i \in DOMAIN s
    PROVE  /\ RemoveAt(s, i) \in Seq(S)
           /\ Len(RemoveAt(s, i)) = Len(s) - 1
           /\ \A j \in 1..(Len(s) - 1) :
                 RemoveAt(s, i)[j] = IF j < i THEN s[j] ELSE s[j + 1]
<1> DEFINE a == SubSeq(s, 1, i - 1)
           b == SubSeq(s, i + 1, Len(s))
<1>1. i \in 1..Len(s) /\ Len(s) \in Nat /\ \A j \in 1..Len(s) : s[j] \in S
  OBVIOUS
<1>2. a \in Seq(S) /\ Len(a) = i - 1 /\ \A j \in 1..(i - 1) : a[j] = s[j]
  BY <1>1, SubSeqProperties
<1>3. b \in Seq(S) /\ Len(b) = Len(s) - i /\ \A j \in 1..(Len(s) - i) : b[j] = s[j + i]
  BY <1>1, SubSeqProperties
<1> HIDE DEF a, b
<1>4. RemoveAt(s, i) = a \o b
  BY DEF RemoveAt, a, b
<1>5. QED
  BY <1>1, <1>2, <1>3, <1>4, ConcatProperties, SMTT(40)

\* Membership is membership at an index.
LEMMA ToSetIndex ==
    ASSUME NEW S, NEW s \in Seq(S), NEW x
    PROVE  x \in ToSet(s) <=> \E i \in 1..Len(s) : s[i] = x
BY DEF ToSet

LEMMA ToSetAppend ==
    ASSUME NEW S, NEW s \in Seq(S), NEW e \in S
    PROVE  /\ Append(s, e) \in Seq(S)
           /\ \A x : x \in ToSet(Append(s, e)) <=> x \in ToSet(s) \/ x = e
<1>1. /\ Append(s, e) \in Seq(S) /\ Len(s) \in Nat
      /\ Len(Append(s, e)) = Len(s) + 1
      /\ \A i \in 1..Len(s) : Append(s, e)[i] = s[i]
      /\ Append(s, e)[Len(s) + 1] = e
  BY AppendProperties
<1>2. ASSUME NEW x
      PROVE  x \in ToSet(Append(s, e)) <=> x \in ToSet(s) \/ x = e
  <2>1. /\ x \in ToSet(s) <=> \E i \in 1..Len(s) : s[i] = x
        /\ x \in ToSet(Append(s, e)) <=>
              \E i \in 1..Len(Append(s, e)) : Append(s, e)[i] = x
    BY <1>1, ToSetIndex
  <2>2. QED
    BY <1>1, <2>1
<1>3. QED
  BY <1>1, <1>2

LEMMA ToSetRemoveAt ==
    ASSUME NEW S, NEW s \in Seq(S), NEW i \in DOMAIN s,
           \A j, k \in 1..Len(s) : s[j] = s[k] => j = k
    PROVE  \A x : x \in ToSet(RemoveAt(s, i)) <=> x \in ToSet(s) /\ x # s[i]
<1> DEFINE t == RemoveAt(s, i)
<1>1. /\ t \in Seq(S) /\ Len(s) \in Nat /\ Len(t) = Len(s) - 1 /\ i \in 1..Len(s)
      /\ \A j \in 1..(Len(s) - 1) : t[j] = IF j < i THEN s[j] ELSE s[j + 1]
  BY RemoveAtProperties
<1> HIDE DEF t
<1>2. ASSUME NEW x, x \in ToSet(t) PROVE x \in ToSet(s) /\ x # s[i]
  <2>1. PICK j \in 1..Len(t) : t[j] = x
    BY <1>1, <1>2, ToSetIndex
  <2>2. QED
    BY <1>1, <2>1, ToSetIndex
<1>3. ASSUME NEW x, x \in ToSet(s), x # s[i] PROVE x \in ToSet(t)
  <2>1. PICK j \in 1..Len(s) : s[j] = x
    BY <1>3, ToSetIndex
  <2>2. j < i => j \in 1..Len(t) /\ t[j] = x
    BY <1>1, <2>1
  <2>3. j > i => j - 1 \in 1..Len(t) /\ t[j - 1] = x
    BY <1>1, <2>1
  <2>4. j # i
    BY <1>3, <2>1
  <2>5. QED
    BY <1>1, <2>1, <2>2, <2>3, <2>4, ToSetIndex
<1>4. QED
  BY <1>2, <1>3 DEF t

-----------------------------------------------------------------------------
(* The initial state *)

LEMMA InitIInv == Init => IInv
<1> SUFFICES ASSUME Init PROVE IInv
  OBVIOUS
<1>1. op \in [Ops -> Operation]
  BY DEF Init, Absent, Operation
<1>2. TypeOK
  <2>1. writer \in [Ops -> WriterStates]
    BY DEF Init, WriterStates
  <2>2. queue \in Seq(Ops) /\ holds \in 0..MaxHolds
    BY HoldsAssumption DEF Init
  <2>3. QED
    BY <1>1, <2>1, <2>2 DEF Init, TypeOK
<1>3. \A o \in Ops : ~Queued(o)
  BY DEF Init, Queued, ToSet
<1>4. QED
  BY <1>2, <1>3, NoOpAssumption DEF Init, IInv, OneWriter, QueuedOperations,
     CurrentOperation, UnregisteredOperations, OneDrain, FifoIntegrity, QuiescenceMirrorsCoordinator,
     ReadersExcludeWriters, UnknownEffectIsFinal, ResolvedMeansPersisted, Absent,
     Registered

-----------------------------------------------------------------------------
(* Records *)

LEMMA TerminateFields ==
    ASSUME NEW r \in Operation, NEW outcome \in {"RESOLVED", "REJECTED"}
    PROVE  LET t == Terminate(r, outcome)
           IN  /\ t \in Operation
               /\ t.finalized /\ ~t.active
               /\ t.phase = "TERMINAL" /\ t.outcome = outcome
               /\ t.validation = r.validation /\ t.sequence = r.sequence
               /\ t.adopted = r.adopted /\ t.settled = r.settled
               /\ t.candidate = r.candidate /\ t.decided = r.decided
BY DEF Terminate, Operation

LEMMA RejectFields ==
    ASSUME NEW r \in Operation
    PROVE  LET t == Reject(r)
           IN  /\ t \in Operation
               /\ t.finalized /\ ~t.active
               /\ t.phase = r.phase /\ t.outcome = "REJECTED"
               /\ t.validation = r.validation /\ t.sequence = r.sequence
               /\ t.adopted = r.adopted /\ t.settled = r.settled
               /\ t.candidate = r.candidate /\ t.decided = r.decided
BY DEF Reject, Operation

-----------------------------------------------------------------------------
(* Types *)

\* Every record an action writes into op is an Operation.
LEMMA FieldTypes ==
    ASSUME NEW r \in Operation, NEW n \in Nat
    PROVE  /\ [r EXCEPT !.validation = "WAITING_VALIDATION", !.sequence = n] \in Operation
           /\ [r EXCEPT !.validation = "WAITING_VALIDATION", !.decided = TRUE,
                        !.sequence = n] \in Operation
           /\ [r EXCEPT !.decided = TRUE, !.validation = "READY"] \in Operation
           /\ [r EXCEPT !.decided = TRUE, !.validation = "REJECTED"] \in Operation
           /\ [r EXCEPT !.active = TRUE] \in Operation
           /\ [r EXCEPT !.settled = "ONE", !.candidate = "UNKNOWN_EFFECT",
                        !.phase = "REQUESTED"] \in Operation
           /\ [r EXCEPT !.phase = "PAUSED"] \in Operation
           /\ [r EXCEPT !.adopted = TRUE] \in Operation
           /\ [r EXCEPT !.canceled = TRUE] \in Operation
           /\ [r EXCEPT !.canceled = FALSE] \in Operation
           /\ [r EXCEPT !.canceled = FALSE, !.decided = TRUE] \in Operation
BY ZenonT(60) DEF Operation, Candidates

LEMMA SettleFieldTypes ==
    ASSUME NEW r \in Operation, NEW s \in {"NONE", "ONE", "INVALID"},
           NEW c \in Candidates \cup {"NULL"}
    PROVE  [r EXCEPT !.settled = s, !.candidate = c] \in Operation
BY DEF Operation

LEMMA FailClosedType ==
    ASSUME TypeOK, NEW o \in Ops, NEW r \in Operation,
           NEW mark \in {"BLOCKED", "UNKNOWN"}, FailClosed(o, r, mark)
    PROVE  /\ queue' \in Seq(Ops)
           /\ op' \in [Ops -> Operation]
           /\ current' \in Ops \cup {NoOp}
           /\ blocked' \in BOOLEAN
           /\ writer' \in [Ops -> WriterStates]
<1>1. op \in [Ops -> Operation] /\ writer \in [Ops -> WriterStates]
  BY DEF TypeOK
<1>2. /\ Terminate(r, "REJECTED") \in Operation
      /\ \A x \in Ops : Reject(op[x]) \in Operation
  BY <1>1, TerminateFields, RejectFields
<1>3. op' \in [Ops -> Operation]
  BY <1>1, <1>2 DEF FailClosed
<1>4. writer' \in [Ops -> WriterStates]
  BY <1>1 DEF FailClosed, WriterStates
<1>5. queue' \in Seq(Ops) /\ blocked' \in BOOLEAN
  BY DEF FailClosed
<1>6. current' \in Ops \cup {NoOp}
  BY DEF FailClosed, TypeOK
<1>7. QED
  BY <1>3, <1>4, <1>5, <1>6

LEMMA LeaveQueueType ==
    ASSUME TypeOK, NEW i \in DOMAIN queue, NEW r \in Operation,
           LeaveQueue(i, r) \/ LeaveQueueUnpublished(i, r)
    PROVE  /\ queue' \in Seq(Ops)
           /\ op' \in [Ops -> Operation]
           /\ writer' \in [Ops -> WriterStates]
<1>1. queue' \in Seq(Ops)
  BY RemoveAtProperties DEF TypeOK, LeaveQueue, LeaveQueueUnpublished
<1>2. op' \in [Ops -> Operation]
  <2>1. Terminate(r, "REJECTED") \in Operation
    BY TerminateFields
  <2>2. QED
    BY <2>1 DEF TypeOK, LeaveQueue, LeaveQueueUnpublished
<1>3. writer' \in [Ops -> WriterStates]
  BY DEF TypeOK, LeaveQueue, LeaveQueueUnpublished, WriterStates
<1>4. QED
  BY <1>1, <1>2, <1>3

LEMMA ThrowsType ==
    ASSUME TypeOK, NEW hook, Throws(hook) PROVE thrown' \subseteq FailingHooks
BY DEF TypeOK, Throws

LEMMA ScheduleDrainType ==
    ASSUME TypeOK, NEW a, NEW b, NEW c, ScheduleDrain(a, b, c)
    PROVE  drainScheduled' \in BOOLEAN
BY DEF TypeOK, ScheduleDrain

\* One operation's record replaced by another.
LEMMA UpdateType ==
    ASSUME TypeOK, NEW o \in Ops, NEW r \in Operation, op' = [op EXCEPT ![o] = r]
    PROVE  op' \in [Ops -> Operation]
BY DEF TypeOK

LEMMA WriterType ==
    ASSUME TypeOK, NEW o \in Ops, NEW w \in WriterStates,
           writer' = [writer EXCEPT ![o] = w]
    PROVE  writer' \in [Ops -> WriterStates]
BY DEF TypeOK

LEMMA TypeStep == TypeOK /\ [Next]_vars => TypeOK'
<1> SUFFICES ASSUME TypeOK, [Next]_vars PROVE TypeOK'
  OBVIOUS
<1> USE DEF coordinatorVars, drainVars, gateVars
<1>f. \A x \in Ops : op[x] \in Operation
  BY DEF TypeOK
<1>1. ASSUME NEW o \in Ops, Register(o) PROVE TypeOK'
  <2>1. queue' \in Seq(Ops) /\ nextSequence' \in Nat
    BY <1>1, ToSetAppend DEF TypeOK, Register
  <2>2. op' \in [Ops -> Operation]
    <3>1. [op[o] EXCEPT !.validation = "WAITING_VALIDATION", !.sequence = nextSequence]
             \in Operation
      BY <1>f, FieldTypes DEF TypeOK
    <3>2. QED
      BY <1>1, <3>1, UpdateType DEF Register
  <2>3. writer' \in [Ops -> WriterStates] /\ drainScheduled' \in BOOLEAN
    BY <1>1, WriterType, ScheduleDrainType DEF Register, WriterStates
  <2>4. QED
    BY <1>1, <2>1, <2>2, <2>3 DEF Register, TypeOK
<1>2. ASSUME NEW o \in Ops, RegisterFails(o) PROVE TypeOK'
  <2>1. [op[o] EXCEPT !.validation = "WAITING_VALIDATION", !.decided = TRUE,
                      !.sequence = nextSequence] \in Operation
    BY <1>f, FieldTypes DEF TypeOK
  <2>2. QED
    BY <1>2, <2>1, FailClosedType, ThrowsType DEF RegisterFails, TypeOK
<1>3. ASSUME NEW o \in Ops, ActivateFails(o) PROVE TypeOK'
  <2>1. Activated(o) \in Operation
    BY <1>f, FieldTypes DEF Activated
  <2>2. QED
    BY <1>3, <2>1, FailClosedType, ThrowsType DEF ActivateFails, TypeOK
<1>4. ASSUME NEW o \in Ops, RejectBeforeStartFails(o) PROVE TypeOK'
  <2>1. Declined(o) \in Operation
    BY <1>f, FieldTypes DEF Declined
  <2>2. QED
    BY <1>4, <2>1, FailClosedType, ThrowsType DEF RejectBeforeStartFails, TypeOK
<1>5. ASSUME NEW o \in Ops, StartFails(o) PROVE TypeOK'
  BY <1>5, <1>f, FailClosedType, ThrowsType DEF StartFails, TypeOK
<1>6. ASSUME NEW o \in Ops, FinishKnownFails(o) PROVE TypeOK'
  BY <1>6, <1>f, FailClosedType, ThrowsType DEF FinishKnownFails, TypeOK
<1>7. ASSUME NEW o \in Ops, FinishUnknown(o) PROVE TypeOK'
  BY <1>7, <1>f, FailClosedType, ThrowsType DEF FinishUnknown, FinalizeUnknown, TypeOK
<1>8. ASSUME NEW o \in Ops, RecoverPersistedFails(o) PROVE TypeOK'
  BY <1>8, <1>f, FailClosedType, ThrowsType DEF RecoverPersistedFails, TypeOK
<1>9. ASSUME NEW o \in Ops, RecoverFailClosed(o) PROVE TypeOK'
  BY <1>9, <1>f, FailClosedType, ThrowsType DEF RecoverFailClosed, FinalizeUnknown, TypeOK
<1>10. ASSUME DrainGateFails PROVE TypeOK'
  <2>1. Head(queue) \in Ops
    BY <1>10 DEF DrainGateFails, HeadReady, TypeOK
  <2>2. QED
    BY <1>10, <1>f, <2>1, FailClosedType, ThrowsType DEF DrainGateFails, TypeOK
<1>11. ASSUME NEW o \in Ops, RejectBeforeStart(o) PROVE TypeOK'
  <2>1. Declined(o) \in Operation
    BY <1>f, FieldTypes DEF Declined
  <2>2. PICK i \in DOMAIN queue : LeaveQueue(i, Declined(o))
    BY <1>11 DEF RejectBeforeStart
  <2>3. drainScheduled' \in BOOLEAN
    BY <1>11, ScheduleDrainType DEF RejectBeforeStart, RescheduleForHead, TypeOK
  <2>4. QED
    BY <1>11, <2>1, <2>2, <2>3, LeaveQueueType, ThrowsType DEF RejectBeforeStart, TypeOK
<1>12. ASSUME NEW o \in Ops, SettleCanceled(o) PROVE TypeOK'
  <2>1. Canceled(o) \in Operation
    BY <1>f, FieldTypes DEF Canceled
  <2>2. PICK i \in DOMAIN queue : LeaveQueue(i, Canceled(o))
    BY <1>12 DEF SettleCanceled
  <2>3. drainScheduled' \in BOOLEAN
    BY <1>12, ScheduleDrainType DEF SettleCanceled, RescheduleForHead, TypeOK
  <2>4. QED
    BY <1>12, <2>1, <2>2, <2>3, LeaveQueueType, ThrowsType DEF SettleCanceled, TypeOK
<1>13. ASSUME NEW o \in Ops, SettleCanceledHookFails(o) PROVE TypeOK'
  <2>1. Canceled(o) \in Operation
    BY <1>f, FieldTypes DEF Canceled
  <2>2. PICK i \in DOMAIN queue : LeaveQueueUnpublished(i, Canceled(o))
    BY <1>13 DEF SettleCanceledHookFails
  <2>3. thrown' \subseteq FailingHooks
    BY <2>2, ThrowsType DEF LeaveQueueUnpublished
  <2>4. QED
    BY <1>13, <2>1, <2>2, <2>3, LeaveQueueType DEF SettleCanceledHookFails, TypeOK
<1>14. ASSUME NEW o \in Ops, SettleCanceledCleanupFails(o) PROVE TypeOK'
  <2>0. Declined(o) \in Operation
    BY <1>f, FieldTypes DEF Declined
  <2>1. [Declined(o) EXCEPT !.canceled = FALSE] \in Operation
    BY <2>0, FieldTypes
  <2>2. PICK i \in DOMAIN queue : LeaveQueue(i, [Declined(o) EXCEPT !.canceled = FALSE])
    BY <1>14 DEF SettleCanceledCleanupFails
  <2>3. drainScheduled' \in BOOLEAN
    BY <1>14, ScheduleDrainType DEF SettleCanceledCleanupFails, RescheduleForHead, TypeOK
  <2>4. QED
    BY <1>14, <2>1, <2>2, <2>3, LeaveQueueType, ThrowsType DEF SettleCanceledCleanupFails, TypeOK
<1>15. ASSUME SettleReady PROVE TypeOK'
  <2>1. PICK i \in DOMAIN queue : LeaveQueue(i, op[queue[i]])
    BY <1>15 DEF SettleReady
  <2>2. op[queue[i]] \in Operation
    BY <1>f DEF TypeOK
  <2>3. QED
    BY <1>15, <2>1, <2>2, LeaveQueueType DEF SettleReady, TypeOK
<1>16. ASSUME SettleReadyHookFails PROVE TypeOK'
  <2>1. PICK i \in DOMAIN queue : LeaveQueueUnpublished(i, op[queue[i]])
    BY <1>16 DEF SettleReadyHookFails
  <2>2. op[queue[i]] \in Operation
    BY <1>f DEF TypeOK
  <2>3. thrown' \subseteq FailingHooks
    BY <2>1, ThrowsType DEF LeaveQueueUnpublished
  <2>4. QED
    BY <1>16, <2>1, <2>2, <2>3, LeaveQueueType DEF SettleReadyHookFails, TypeOK
<1>17. ASSUME NEW o \in Ops, RejectTooLate(o) PROVE TypeOK'
  <2>1. Declined(o) \in Operation
    BY <1>f, FieldTypes DEF Declined
  <2>2. op' \in [Ops -> Operation]
    BY <1>17, <2>1, UpdateType DEF RejectTooLate
  <2>3. QED
    BY <1>17, <2>2 DEF RejectTooLate, TypeOK
<1>18. ASSUME NEW o \in Ops, SettleCanceledTooLate(o) PROVE TypeOK'
  <2>1. Canceled(o) \in Operation
    BY <1>f, FieldTypes DEF Canceled
  <2>2. op' \in [Ops -> Operation]
    BY <1>18, <2>1, UpdateType DEF SettleCanceledTooLate
  <2>3. QED
    BY <1>18, <2>2 DEF SettleCanceledTooLate, TypeOK
<1>19. ASSUME NEW o \in Ops, RequestPause(o) PROVE TypeOK'
  <2>1. [op[o] EXCEPT !.settled = "ONE", !.candidate = "UNKNOWN_EFFECT",
                      !.phase = "REQUESTED"] \in Operation
    BY <1>f, FieldTypes
  <2>2. op' \in [Ops -> Operation]
    BY <1>19, <2>1, UpdateType DEF RequestPause
  <2>3. QED
    BY <1>19, <2>2 DEF RequestPause, TypeOK
<1>20. ASSUME NEW o \in Ops, PauseUnknown(o) PROVE TypeOK'
  <2>1. [op[o] EXCEPT !.phase = "PAUSED"] \in Operation
    BY <1>f, FieldTypes
  <2>2. op' \in [Ops -> Operation]
    BY <1>20, <2>1, UpdateType DEF PauseUnknown
  <2>3. QED
    BY <1>20, <2>2 DEF PauseUnknown, TypeOK
<1>21. ASSUME NEW o \in Ops, Adopt(o) PROVE TypeOK'
  <2>1. [op[o] EXCEPT !.adopted = TRUE] \in Operation
    BY <1>f, FieldTypes
  <2>2. op' \in [Ops -> Operation]
    BY <1>21, <2>1, UpdateType DEF Adopt
  <2>3. QED
    BY <1>21, <2>2 DEF Adopt, TypeOK
<1>22. ASSUME NEW o \in Ops, NEW c \in Candidates, NEW legal \in BOOLEAN, Settle(o, c, legal)
      PROVE  TypeOK'
  <2> DEFINE s == IF op[o].settled = "NONE" /\ legal THEN "ONE" ELSE "INVALID"
             d == IF op[o].candidate = "NULL" THEN c ELSE op[o].candidate
  <2>1. s \in {"NONE", "ONE", "INVALID"} /\ d \in Candidates \cup {"NULL"}
    BY <1>f DEF Operation
  <2>2. Recorded(o, c, legal) = [op[o] EXCEPT !.settled = s, !.candidate = d]
    BY DEF Recorded
  <2> HIDE DEF s, d
  <2>3. op' \in [Ops -> Operation]
    BY <1>22, <1>f, <2>1, <2>2, SettleFieldTypes, UpdateType DEF Settle
  <2>4. QED
    BY <1>22, <2>3 DEF Settle, TypeOK
<1>23. ASSUME NEW o \in Ops, Activate(o) PROVE TypeOK'
  <2>1. Activated(o) \in Operation
    BY <1>f, FieldTypes DEF Activated
  <2>2. op' \in [Ops -> Operation]
    BY <1>23, <2>1, UpdateType DEF Activate
  <2>3. writer' \in [Ops -> WriterStates] /\ drainScheduled' \in BOOLEAN
    BY <1>23, WriterType, ScheduleDrainType DEF Activate, WriterStates
  <2>4. QED
    BY <1>23, <2>2, <2>3 DEF Activate, TypeOK
<1>24. ASSUME NEW o \in Ops, Start(o) PROVE TypeOK'
  <2>1. [op[o] EXCEPT !.active = TRUE] \in Operation
    BY <1>f, FieldTypes
  <2>2. op' \in [Ops -> Operation] /\ writer' \in [Ops -> WriterStates]
    BY <1>24, <2>1, UpdateType, WriterType DEF Start, WriterStates
  <2>3. queue' \in Seq(Ops)
    BY <1>24, HeadTailProperties DEF Start, HeadReady, TypeOK
  <2>4. QED
    BY <1>24, <2>2, <2>3 DEF Start, TypeOK
<1>25. ASSUME NEW o \in Ops, FinishKnown(o) PROVE TypeOK'
  <2>1. Terminate(op[o], OutcomeOf(op[o].candidate)) \in Operation
    BY <1>f, TerminateFields DEF OutcomeOf
  <2>2. op' \in [Ops -> Operation] /\ writer' \in [Ops -> WriterStates]
    BY <1>25, <2>1, UpdateType, WriterType DEF FinishKnown, WriterStates
  <2>3. QED
    BY <1>25, <2>2, ScheduleDrainType DEF FinishKnown, TypeOK
<1>26. ASSUME NEW o \in Ops, RecoverPersisted(o) PROVE TypeOK'
  <2>1. Terminate(op[o], "RESOLVED") \in Operation
    BY <1>f, TerminateFields DEF OutcomeOf
  <2>2. op' \in [Ops -> Operation] /\ writer' \in [Ops -> WriterStates]
    BY <1>26, <2>1, UpdateType, WriterType DEF RecoverPersisted, WriterStates
  <2>3. QED
    BY <1>26, <2>2, ScheduleDrainType DEF RecoverPersisted, TypeOK
<1>27. ASSUME StartMaintenance PROVE TypeOK'
  <2>1. op' \in [Ops -> Operation]
    BY <1>27, <1>f, FieldTypes DEF StartMaintenance, TypeOK
  <2>2. QED
    BY <1>27, <2>1 DEF StartMaintenance, TypeOK
<1>28. ASSUME ReleaseReadLease PROVE TypeOK'
  BY <1>28, ScheduleDrainType DEF ReleaseReadLease, Wake, TypeOK
<1>29. ASSUME DeliverWake PROVE TypeOK'
  BY <1>29, ScheduleDrainType DEF DeliverWake, Wake, TypeOK
<1>30. ASSUME DrainStops PROVE TypeOK'
  BY <1>30 DEF DrainStops, TypeOK
<1>31. ASSUME DrainDefers PROVE TypeOK'
  BY <1>31 DEF DrainDefers, TypeOK
<1>32. ASSUME ExecutorEnds PROVE TypeOK'
  BY <1>32 DEF ExecutorEnds, TypeOK
<1>33. ASSUME AcquireReadLease PROVE TypeOK'
  BY <1>33 DEF AcquireReadLease, TypeOK
<1>34. ASSUME Hold PROVE TypeOK'
  BY <1>34, HoldsAssumption DEF Hold, TypeOK
<1>35. ASSUME Release PROVE TypeOK'
  BY <1>35 DEF Release, TypeOK
<1>36. ASSUME SettleReadyCleanupFails PROVE TypeOK'
  BY <1>36, ThrowsType DEF SettleReadyCleanupFails, TypeOK
<1>37. ASSUME SettleReadyDone PROVE TypeOK'
  BY <1>37 DEF SettleReadyDone, TypeOK
<1>38. ASSUME UNCHANGED vars PROVE TypeOK'
  BY <1>38 DEF vars, TypeOK
<1>39. QED
  BY <1>1, <1>2, <1>3, <1>4, <1>5, <1>6, <1>7, <1>8, <1>9, <1>10, <1>11, <1>12,
     <1>13, <1>14, <1>15, <1>16, <1>17, <1>18, <1>19, <1>20, <1>21, <1>22, <1>23,
     <1>24, <1>25, <1>26, <1>27, <1>28, <1>29, <1>30, <1>31, <1>32, <1>33, <1>34,
     <1>35, <1>36, <1>37, <1>38
  DEF Next, SettlementLoop, Decide, ExecutorCalls, Recover, DrainSegment,
      ResumeRunOperation, Gates

-----------------------------------------------------------------------------
(* Preservation, one lemma per shape of step *)

\* A step that starts, ends and removes nothing: it may change fields no
\* invariant reads, move the drain loop between two suspended or two executing
\* places, schedule a drain while none runs, and open the read lease when no
\* receipt is known.
LEMMA QuietStep ==
    ASSUME IInv, TypeOK',
           UNCHANGED <<queue, current, nextSequence, blocked, writer>>,
           drain' \in {"IDLE", "LOOP"} <=> drain \in {"IDLE", "LOOP"},
           drainScheduled' => drain' = "IDLE",
           readLease' => readLease \/ \A x \in Ops : writer[x] = "NONE",
           \A x \in Ops :
             /\ op'[x].active = op[x].active
             /\ op'[x].finalized = op[x].finalized
             /\ op'[x].outcome = op[x].outcome
             /\ op'[x].sequence = op[x].sequence
             /\ op[x].adopted => op'[x].adopted
             /\ op'[x].phase = "PAUSED" <=> op[x].phase = "PAUSED"
             /\ op'[x].validation = "ABSENT" <=> op[x].validation = "ABSENT"
             /\ op[x].finalized => /\ op'[x].settled = op[x].settled
                                   /\ op'[x].candidate = op[x].candidate
             /\ Queued(x) \/ current = x =>
                   /\ op'[x].validation = op[x].validation
                   /\ op'[x].decided = op[x].decided
             /\ Queued(x) \/ ~Registered(x) => op'[x].phase = op[x].phase
    PROVE  IInv'
<1>0. TypeOK /\ \A x \in Ops : Queued(x)' <=> Queued(x)
  BY DEF IInv, Queued
<1>1. OneWriter' /\ OneDrain'
  BY <1>0, NoOpAssumption DEF IInv, OneWriter, OneDrain, TypeOK
<1>2. QueuedOperations'
  BY <1>0 DEF IInv, QueuedOperations
<1>3. CurrentOperation'
  BY <1>0 DEF IInv, CurrentOperation, TypeOK
<1>4. FifoIntegrity'
  <2>1. \A x \in Ops : Queued(x)' \/ current' = x <=> Registered(x)' /\ ~op'[x].finalized
    BY <1>0 DEF IInv, FifoIntegrity, Registered
  <2>2. \A i \in DOMAIN queue : queue[i] \in Ops
    BY <1>0 DEF TypeOK
  <2>3. \A i, j \in DOMAIN queue' :
          i < j => op'[queue'[i]].sequence < op'[queue'[j]].sequence
    BY <2>2 DEF IInv, FifoIntegrity
  <2>4. QED
    BY <2>1, <2>3 DEF FifoIntegrity
<1>5. QuiescenceMirrorsCoordinator'
  BY <1>0 DEF IInv, QuiescenceMirrorsCoordinator
<1>6. ReadersExcludeWriters' /\ UnknownEffectIsFinal'
  <2>1. \A x \in Ops : op[x].active <=> writer[x] = "RUNNING"
    BY DEF IInv, QuiescenceMirrorsCoordinator
  <2>2. current # NoOp => writer[current] = "RUNNING" /\ current \in Ops
    BY <2>1, <1>0 DEF IInv, OneWriter, TypeOK
  <2>3. QED
    BY <2>2 DEF IInv, ReadersExcludeWriters, UnknownEffectIsFinal
<1>7. ResolvedMeansPersisted'
  BY <1>0 DEF IInv, ResolvedMeansPersisted
<1>8. UnregisteredOperations'
  BY DEF IInv, UnregisteredOperations, Registered
<1>9. QED
  BY <1>1, <1>2, <1>3, <1>4, <1>5, <1>6, <1>7, <1>8 DEF IInv

\* A step that fails closed.  The invariant survives because the queue empties
\* together with `blocked', because an operation marked UNKNOWN held the write
\* right, and because any other holder of the write right keeps it.
LEMMA FailClosedStep ==
    ASSUME IInv, TypeOK', NEW o \in Ops, NEW r \in Operation,
           NEW mark \in {"BLOCKED", "UNKNOWN"}, FailClosed(o, r, mark),
           r.active = op[o].active, r.finalized = op[o].finalized,
           r.outcome = op[o].outcome, r.adopted = op[o].adopted,
           r.settled = op[o].settled, r.candidate = op[o].candidate,
           r.validation # "ABSENT",
           mark = "UNKNOWN" => current = o,
           op[o].finalized => current # o,
           UNCHANGED <<nextSequence, readLease>>,
           drainScheduled' => drain' = "IDLE",
           current = o => drain' \in {"IDLE", "LOOP"},
           current # o => drain' = drain \/ (current = NoOp /\ drain' \in {"IDLE", "LOOP"})
    PROVE  IInv'
<1>0. TypeOK /\ \A x \in Ops : ~Queued(x)'
  BY DEF IInv, FailClosed, Queued, ToSet
<1>1. \A x \in Ops : x # o =>
        \/ /\ op'[x] = op[x] /\ writer'[x] = writer[x] 
           /\ ~Queued(x) \/ op[x].finalized
        \/ /\ Queued(x) /\ ~op[x].finalized /\ writer'[x] = "BLOCKED"
           /\ op'[x].finalized /\ ~op'[x].active /\ op'[x].outcome = "REJECTED"
           /\ op'[x].validation = op[x].validation
  BY <1>0, RejectFields DEF FailClosed, TypeOK
<1>2. IF op[o].finalized
      THEN op'[o] = r /\ writer'[o] = writer[o] /\ current' = current
      ELSE /\ op'[o].finalized /\ ~op'[o].active /\ op'[o].outcome = "REJECTED"
           /\ op'[o].validation # "ABSENT" /\ writer'[o] = mark
           /\ current' = IF current = o THEN NoOp ELSE current
  BY <1>0, TerminateFields DEF FailClosed, TypeOK
<1>3. \A x \in Ops : op[x].active <=> current = x
  BY DEF IInv, OneWriter
<1>4. current # NoOp =>
        /\ current \in Ops /\ ~Queued(current)
        /\ op[current].phase = "PAUSED" <=> drain \in {"IDLE", "LOOP"}
        /\ op[current].decided /\ op[current].validation = "READY"
  BY <1>0 DEF IInv, CurrentOperation, TypeOK
<1>5. \/ current' = NoOp
      \/ current' = current /\ current # NoOp /\ current # o /\ op'[current] = op[current]
         /\ writer'[current] = writer[current] /\ drain' = drain
  BY <1>1, <1>2, <1>4
<1>6. blocked' /\ queue' = << >>
  BY DEF FailClosed
<1>7. OneWriter'
  <2>1. \A x \in Ops : op'[x].active <=> current' = x
    BY <1>1, <1>2, <1>3, <1>4, NoOpAssumption
  <2>2. drain' \in {"EXECUTING", "RETURNED", "THREW"} => current' # NoOp
    BY <1>2, <1>5 DEF IInv, OneWriter, FailClosed
  <2>3. current' # NoOp /\ drain' \in {"IDLE", "LOOP"} => op'[current'].phase = "PAUSED" /\ blocked'
    BY <1>5, <1>6 DEF IInv, OneWriter
  <2>4. QED
    BY <2>1, <2>2, <2>3 DEF OneWriter
<1>8. QueuedOperations' /\ OneDrain'
  BY <1>0, <1>5 DEF QueuedOperations, OneDrain
<1>9. CurrentOperation'
  BY <1>0, <1>4, <1>5 DEF CurrentOperation
<1>10. FifoIntegrity'
  <2>1. ASSUME NEW x \in Ops
        PROVE  Queued(x)' \/ current' = x <=> Registered(x)' /\ ~op'[x].finalized
    <3>1. Queued(x) \/ current = x <=> Registered(x) /\ ~op[x].finalized
      BY DEF IInv, FifoIntegrity
    <3>2. CASE x = o
      BY <1>0, <1>2, <3>1, <3>2, NoOpAssumption DEF Registered
    <3>3. CASE x # o
      BY <1>0, <1>1, <1>2, <3>1, <3>3, <1>4, NoOpAssumption DEF Registered
    <3>4. QED
      BY <3>2, <3>3
  <2>2. DOMAIN queue' = {}
    BY <1>6
  <2>3. QED
    BY <2>1, <2>2 DEF FifoIntegrity
<1>11. QuiescenceMirrorsCoordinator'
  <2>1. ASSUME NEW x \in Ops
        PROVE  /\ writer'[x] \notin {"PROVISIONAL", "QUEUED"}
               /\ writer'[x] = "RUNNING" <=> op'[x].active
    <3>1. /\ writer[x] = "PROVISIONAL" => Queued(x)
          /\ writer[x] = "QUEUED" => Queued(x)
          /\ writer[x] = "RUNNING" <=> op[x].active
          /\ Queued(x) => ~op[x].finalized
      BY DEF IInv, QuiescenceMirrorsCoordinator, FifoIntegrity
    <3>2. CASE x = o
      BY <1>2, <3>1, <3>2
    <3>3. CASE x # o
      BY <1>1, <3>1, <3>3
    <3>4. QED
      BY <3>2, <3>3
  <2>2. QED
    BY <1>0, <2>1 DEF QuiescenceMirrorsCoordinator
<1>12. ReadersExcludeWriters'
  <2>1. ASSUME readLease' PROVE current' = NoOp /\ \A x \in Ops : ~op'[x].active
    BY <2>1, <1>3, <1>5, <1>7, NoOpAssumption DEF IInv, ReadersExcludeWriters, OneWriter
  <2>2. QED
    BY <2>1, <1>11 DEF ReadersExcludeWriters, QuiescenceMirrorsCoordinator
<1>13. UnknownEffectIsFinal'
  <2>1. ASSUME NEW x \in Ops, writer'[x] = "UNKNOWN" PROVE current' = NoOp
    BY <1>1, <1>2, <1>5, <2>1 DEF IInv, UnknownEffectIsFinal
  <2>2. QED
    BY <1>6, <2>1 DEF UnknownEffectIsFinal
<1>14. ResolvedMeansPersisted'
  <2>1. ASSUME NEW x \in Ops
        PROVE  /\ op'[x].finalized <=> op'[x].outcome # "PENDING"
               /\ op'[x].outcome = "RESOLVED" =>
                    /\ op[x].outcome = "RESOLVED" /\ writer'[x] = writer[x]
                    /\ op'[x].adopted = op[x].adopted /\ op'[x].settled = op[x].settled
                    /\ op'[x].candidate = op[x].candidate
    <3>1. op[x].finalized <=> op[x].outcome # "PENDING"
      BY DEF IInv, ResolvedMeansPersisted
    <3>2. CASE x = o
      BY <1>2, <3>1, <3>2
    <3>3. CASE x # o
      BY <1>1, <3>1, <3>3
    <3>4. QED
      BY <3>2, <3>3
  <2>2. QED
    BY <2>1 DEF IInv, ResolvedMeansPersisted
<1>15. UnregisteredOperations'
  <2>1. ASSUME NEW x \in Ops, op'[x].validation = "ABSENT"
        PROVE  op'[x] = op[x]
    <3>1. x # o
      BY <1>2, <2>1
    <3>2. Queued(x) => op[x].validation # "ABSENT"
      BY DEF IInv, QueuedOperations
    <3>3. QED
      BY <1>1, <2>1, <3>1, <3>2
  <2>2. QED
    BY <2>1 DEF IInv, UnregisteredOperations, Registered
<1>16. QED
  BY <1>7, <1>8, <1>9, <1>10, <1>11, <1>12, <1>13, <1>14, <1>15 DEF IInv

\* A step that takes queue[i] out of the FIFO and rejects it.
LEMMA LeaveQueueStep ==
    ASSUME IInv, TypeOK', NEW i \in DOMAIN queue, NEW r \in Operation,
           NEW w \in {"NONE", "BLOCKED"},
           queue' = RemoveAt(queue, i),
           op' = [op EXCEPT ![queue[i]] = Terminate(r, "REJECTED")],
           writer' = [writer EXCEPT ![queue[i]] = w],
           r.validation # "ABSENT",
           UNCHANGED <<current, nextSequence, drain, blocked, readLease>>,
           drainScheduled' => drain = "IDLE"
    PROVE  IInv'
<1> DEFINE o == queue[i]
<1>0. TypeOK /\ o \in Ops /\ Queued(o) /\ i \in 1..Len(queue)
  BY ToSetIndex DEF IInv, TypeOK, Queued
<1>1. \A j, k \in 1..Len(queue) : queue[j] = queue[k] => j = k
  <2>1. \A j, k \in 1..Len(queue) :
          j < k => op[queue[j]].sequence < op[queue[k]].sequence
    BY <1>0 DEF IInv, FifoIntegrity, TypeOK
  <2>2. \A j \in 1..Len(queue) : op[queue[j]].sequence \in Nat
    BY <1>0 DEF TypeOK, Operation
  <2>3. QED
    BY <2>1, <2>2, <1>0 DEF TypeOK
<1>2. /\ \A x \in Ops : Queued(x)' <=> Queued(x) /\ x # o
      /\ Len(queue') = Len(queue) - 1
      /\ \A j \in 1..(Len(queue) - 1) : queue'[j] = IF j < i THEN queue[j] ELSE queue[j + 1]
  <2>1. queue \in Seq(Ops)
    BY <1>0 DEF TypeOK
  <2>2. \A x : x \in ToSet(queue') <=> x \in ToSet(queue) /\ x # queue[i]
    BY <2>1, <1>1, ToSetRemoveAt
  <2>3. QED
    BY <2>1, <2>2, RemoveAtProperties DEF Queued
<1>3. /\ op'[o].finalized /\ ~op'[o].active /\ op'[o].outcome = "REJECTED"
      /\ op'[o].validation # "ABSENT" /\ writer'[o] = w
      /\ \A x \in Ops : x # o => op'[x] = op[x] /\ writer'[x] = writer[x]
  BY <1>0, TerminateFields DEF TypeOK
<1> HIDE DEF o
<1>4. current # o /\ ~op[o].finalized /\ ~op[o].active
  BY <1>0 DEF IInv, CurrentOperation, FifoIntegrity, QueuedOperations, OneWriter
<1>5. current # NoOp => current \in Ops /\ op'[current] = op[current]
  BY <1>0, <1>3, <1>4 DEF TypeOK
<1>6. OneWriter' /\ OneDrain'
  <2>1. \A x \in Ops : op'[x].active <=> current' = x
    BY <1>3, <1>4 DEF IInv, OneWriter
  <2>2. QED
    BY <2>1, <1>5 DEF IInv, OneWriter, OneDrain
<1>7. QueuedOperations'
  BY <1>2, <1>3 DEF IInv, QueuedOperations
<1>8. CurrentOperation'
  BY <1>2, <1>5 DEF IInv, CurrentOperation
<1>9. FifoIntegrity'
  <2>1. \A x \in Ops : Queued(x)' \/ current' = x <=> Registered(x)' /\ ~op'[x].finalized
    BY <1>2, <1>3, <1>4 DEF IInv, FifoIntegrity, Registered
  <2>2. ASSUME NEW j \in 1..Len(queue'), NEW k \in 1..Len(queue'), j < k
        PROVE  op'[queue'[j]].sequence < op'[queue'[k]].sequence
    <3> DEFINE J == IF j < i THEN j ELSE j + 1
               K == IF k < i THEN k ELSE k + 1
    <3>1. /\ J \in 1..Len(queue) /\ K \in 1..Len(queue) /\ J < K
          /\ queue'[j] = queue[J] /\ queue'[k] = queue[K]
          /\ J # i /\ K # i
      BY <1>0, <1>2, <2>2 DEF TypeOK
    <3> HIDE DEF J, K
    <3>2. queue[J] \in Ops /\ queue[K] \in Ops /\ queue[J] # o /\ queue[K] # o
      BY <1>0, <1>1, <3>1 DEF TypeOK, o
    <3>3. op[queue[J]].sequence < op[queue[K]].sequence
      BY <1>0, <3>1 DEF IInv, FifoIntegrity, TypeOK
    <3>4. QED
      BY <1>3, <3>1, <3>2, <3>3
  <2>3. DOMAIN queue' = 1..Len(queue')
    BY DEF TypeOK
  <2>4. QED
    BY <2>1, <2>2, <2>3 DEF FifoIntegrity
<1>10. QuiescenceMirrorsCoordinator'
  BY <1>2, <1>3, <1>4 DEF IInv, QuiescenceMirrorsCoordinator
<1>11. ReadersExcludeWriters' /\ UnknownEffectIsFinal'
  BY <1>0, <1>3 DEF IInv, ReadersExcludeWriters, UnknownEffectIsFinal, Queued, ToSet
<1>12. ResolvedMeansPersisted'
  BY <1>3 DEF IInv, ResolvedMeansPersisted
<1>13. UnregisteredOperations'
  BY <1>3 DEF IInv, UnregisteredOperations, Registered
<1>14. QED
  BY <1>6, <1>7, <1>8, <1>9, <1>10, <1>11, <1>12, <1>13 DEF IInv

\* Registration appends a fresh operation with the next sequence number.
LEMMA RegisterStep ==
    ASSUME IInv, TypeOK', NEW o \in Ops, Register(o) PROVE IInv'
<1> DEFINE r == [op[o] EXCEPT !.validation = "WAITING_VALIDATION",
                              !.sequence = nextSequence]
<1>0. TypeOK
  BY DEF IInv
<1>1. op[o] \in Operation /\ nextSequence \in Nat
  BY <1>0 DEF TypeOK
<1>2. /\ r \in Operation
      /\ r.validation = "WAITING_VALIDATION" /\ r.sequence = nextSequence
      /\ r.active = op[o].active /\ r.finalized = op[o].finalized
      /\ r.phase = op[o].phase /\ r.outcome = op[o].outcome
      /\ r.adopted = op[o].adopted /\ r.settled = op[o].settled
      /\ r.candidate = op[o].candidate /\ r.decided = op[o].decided
  BY <1>1 DEF Operation
<1>3. op' = [op EXCEPT ![o] = r]
  BY DEF Register
<1> HIDE DEF r
<1>4. /\ op'[o] = r /\ writer'[o] = "PROVISIONAL"
      /\ \A x \in Ops : x # o => op'[x] = op[x] /\ writer'[x] = writer[x]
  BY <1>0, <1>3 DEF Register, TypeOK
<1>5. /\ queue' = Append(queue, o) /\ queue \in Seq(Ops)
      /\ \A x \in Ops : Queued(x)' <=> Queued(x) \/ x = o
  BY <1>0, ToSetAppend DEF Register, TypeOK, Queued
<1>6. /\ op[o].validation = "ABSENT" /\ ~blocked
      /\ UNCHANGED <<current, drain, blocked, readLease>>
      /\ nextSequence' = nextSequence + 1
      /\ drainScheduled' => drainScheduled \/ drain = "IDLE"
  BY DEF Register, Arrives, ScheduleDrain, Running, gateVars
<1>7. /\ ~Queued(o) /\ current # o /\ ~op[o].active
      /\ ~op[o].finalized /\ op[o].phase = "NONE"
  BY <1>6 DEF IInv, FifoIntegrity, OneWriter, Registered, UnregisteredOperations
<1>8. current # NoOp => current \in Ops /\ op'[current] = op[current]
  BY <1>0, <1>4, <1>7 DEF TypeOK
<1>9. OneWriter' /\ OneDrain'
  <2>1. \A x \in Ops : op'[x].active <=> current' = x
    BY <1>2, <1>4, <1>6, <1>7 DEF IInv, OneWriter
  <2>2. QED
    BY <2>1, <1>6, <1>8 DEF IInv, OneWriter, OneDrain
<1>10. CurrentOperation' /\ UnregisteredOperations'
  <2>1. CurrentOperation'
    BY <1>5, <1>6, <1>7, <1>8 DEF IInv, CurrentOperation
  <2>2. UnregisteredOperations'
    BY <1>2, <1>4 DEF IInv, UnregisteredOperations, Registered
  <2>3. QED
    BY <2>1, <2>2
<1>11. QueuedOperations'
  <2>1. \A x \in Ops : op[x].sequence \in Nat
    BY <1>0 DEF TypeOK, Operation
  <2>2. ASSUME NEW x \in Ops, Queued(x), x # o
        PROVE  op'[x] = op[x] /\ op[x].sequence < nextSequence'
    BY <1>1, <1>4, <1>6, <2>1, <2>2 DEF IInv, QueuedOperations
  <2>3. QED
    BY <1>1, <1>2, <1>4, <1>5, <1>6, <1>7, <2>2 DEF IInv, QueuedOperations
<1>12. FifoIntegrity'
  <2>1. \A x \in Ops : Queued(x)' \/ current' = x <=> Registered(x)' /\ ~op'[x].finalized
    BY <1>2, <1>4, <1>5, <1>6, <1>7 DEF IInv, FifoIntegrity, Registered
  <2>2. /\ Len(queue) \in Nat /\ DOMAIN queue' = 1..(Len(queue) + 1)
        /\ queue'[Len(queue) + 1] = o
        /\ \A j \in 1..Len(queue) :
              /\ queue'[j] = queue[j] /\ queue[j] \in Ops /\ Queued(queue[j])
    BY <1>5, AppendProperties, ToSetIndex DEF Queued
  <2>3. \A j \in 1..Len(queue) :
          /\ op'[queue'[j]].sequence = op[queue[j]].sequence
          /\ op[queue[j]].sequence < nextSequence
    BY <1>4, <1>7, <2>2 DEF IInv, QueuedOperations
  <2>4. \A j, k \in 1..Len(queue) :
          j < k => op[queue[j]].sequence < op[queue[k]].sequence
    BY <1>5 DEF IInv, FifoIntegrity
  <2>5. op'[queue'[Len(queue) + 1]].sequence = nextSequence
    BY <1>2, <1>4, <2>2
  <2>6. \A j, k \in DOMAIN queue' :
          j < k => op'[queue'[j]].sequence < op'[queue'[k]].sequence
    BY <2>2, <2>3, <2>4, <2>5
  <2>7. QED
    BY <2>1, <2>6 DEF FifoIntegrity
<1>13. QuiescenceMirrorsCoordinator'
  BY <1>2, <1>4, <1>5, <1>7 DEF IInv, QuiescenceMirrorsCoordinator
<1>14. ReadersExcludeWriters' /\ UnknownEffectIsFinal'
  BY <1>4, <1>6 DEF IInv, ReadersExcludeWriters, UnknownEffectIsFinal
<1>15. ResolvedMeansPersisted'
  BY <1>2, <1>4, <1>7 DEF IInv, ResolvedMeansPersisted
<1> QED
  BY <1>9, <1>10, <1>11, <1>12, <1>13, <1>14, <1>15 DEF IInv

\* Activation turns a provisional entry of the FIFO into a ready one.
LEMMA ActivateStep ==
    ASSUME IInv, TypeOK', NEW o \in Ops, Activate(o) PROVE IInv'
<1>0. TypeOK
  BY DEF IInv
<1>1. op[o] \in Operation
  BY <1>0 DEF TypeOK
<1>2. /\ Activated(o) \in Operation
      /\ Activated(o).validation = "READY" /\ Activated(o).decided
      /\ Activated(o).active = op[o].active /\ Activated(o).finalized = op[o].finalized
      /\ Activated(o).phase = op[o].phase /\ Activated(o).outcome = op[o].outcome
      /\ Activated(o).adopted = op[o].adopted /\ Activated(o).settled = op[o].settled
      /\ Activated(o).candidate = op[o].candidate
      /\ Activated(o).sequence = op[o].sequence
  BY <1>1 DEF Operation, Activated
<1>3. /\ op'[o] = Activated(o) /\ writer'[o] = "QUEUED"
      /\ \A x \in Ops : x # o => op'[x] = op[x] /\ writer'[x] = writer[x]
  BY <1>0 DEF Activate, TypeOK
<1>4. /\ Queued(o) /\ op[o].validation = "WAITING_VALIDATION"
      /\ current # o /\ ~op[o].active
  <2>1. Queued(o) /\ op[o].validation = "WAITING_VALIDATION"
    BY DEF Activate, IInv, QuiescenceMirrorsCoordinator
  <2>2. ~op[o].active
    BY <2>1 DEF IInv, QueuedOperations
  <2>3. QED
    BY <2>1, <2>2 DEF IInv, OneWriter
<1>5. /\ UNCHANGED <<queue, current, nextSequence, drain, blocked, readLease>>
      /\ \A x \in Ops : Queued(x)' <=> Queued(x)
      /\ drainScheduled' => drainScheduled \/ drain = "IDLE"
  BY DEF Activate, ScheduleDrain, Running, gateVars, Queued
<1>6. current # NoOp => current \in Ops /\ op'[current] = op[current]
  BY <1>0, <1>3, <1>4 DEF TypeOK
<1>7. OneWriter' /\ OneDrain'
  <2>1. \A x \in Ops : op'[x].active <=> current' = x
    BY <1>2, <1>3, <1>4, <1>5 DEF IInv, OneWriter
  <2>2. QED
    BY <2>1, <1>5, <1>6 DEF IInv, OneWriter, OneDrain
<1>8. CurrentOperation'
  BY <1>5, <1>6 DEF IInv, CurrentOperation
<1>9. QueuedOperations' /\ UnregisteredOperations'
  <2>1. QueuedOperations'
    BY <1>2, <1>3, <1>4, <1>5 DEF IInv, QueuedOperations
  <2>2. UnregisteredOperations'
    BY <1>2, <1>3 DEF IInv, UnregisteredOperations, Registered
  <2>3. QED
    BY <2>1, <2>2
<1>10. FifoIntegrity'
  <2>1. \A x \in Ops : Queued(x)' \/ current' = x <=> Registered(x)' /\ ~op'[x].finalized
    BY <1>2, <1>3, <1>4, <1>5 DEF IInv, FifoIntegrity, Registered
  <2>2. \A x \in Ops : op'[x].sequence = op[x].sequence
    BY <1>2, <1>3
  <2>3. \A i \in DOMAIN queue : queue[i] \in Ops
    BY <1>0 DEF TypeOK
  <2>4. \A i, j \in DOMAIN queue' :
          i < j => op'[queue'[i]].sequence < op'[queue'[j]].sequence
    BY <1>5, <2>2, <2>3 DEF IInv, FifoIntegrity
  <2>5. QED
    BY <2>1, <2>4 DEF FifoIntegrity
<1>11. QuiescenceMirrorsCoordinator'
  BY <1>2, <1>3, <1>4, <1>5 DEF IInv, QuiescenceMirrorsCoordinator
<1>12. ReadersExcludeWriters' /\ UnknownEffectIsFinal'
  BY <1>3, <1>5 DEF IInv, ReadersExcludeWriters, UnknownEffectIsFinal
<1>13. ResolvedMeansPersisted'
  <2>1. ASSUME NEW x \in Ops
        PROVE  /\ op'[x].finalized = op[x].finalized /\ op'[x].outcome = op[x].outcome
               /\ op'[x].adopted = op[x].adopted /\ op'[x].settled = op[x].settled
               /\ op'[x].candidate = op[x].candidate
               /\ writer[x] = "NONE" => writer'[x] = "NONE"
    BY <1>2, <1>3 DEF Activate
  <2>2. QED
    BY <2>1 DEF IInv, ResolvedMeansPersisted
<1> QED
  BY <1>7, <1>8, <1>9, <1>10, <1>11, <1>12, <1>13 DEF IInv

LEMMA TailIsRemoveAt ==
    ASSUME NEW S, NEW s \in Seq(S), s # << >>
    PROVE  1 \in DOMAIN s /\ Tail(s) = RemoveAt(s, 1)
<1>1. /\ Len(s) \in Nat \ {0} /\ 1 \in DOMAIN s
      /\ Tail(s) \in Seq(S) /\ Len(Tail(s)) = Len(s) - 1
      /\ \A j \in 1..(Len(s) - 1) : Tail(s)[j] = s[j + 1]
  OBVIOUS
<1>2. /\ RemoveAt(s, 1) \in Seq(S) /\ Len(RemoveAt(s, 1)) = Len(s) - 1
      /\ \A j \in 1..(Len(s) - 1) : RemoveAt(s, 1)[j] = s[j + 1]
  <2>1. /\ RemoveAt(s, 1) \in Seq(S) /\ Len(RemoveAt(s, 1)) = Len(s) - 1
        /\ \A j \in 1..(Len(s) - 1) :
              RemoveAt(s, 1)[j] = IF j < 1 THEN s[j] ELSE s[j + 1]
    BY <1>1, RemoveAtProperties
  <2>2. ASSUME NEW j \in 1..(Len(s) - 1) PROVE RemoveAt(s, 1)[j] = s[j + 1]
    <3>1. ~(j < 1)
      BY <1>1
    <3>2. QED
      BY <2>1, <3>1
  <2>3. QED
    BY <2>1, <2>2
<1>3. QED
  BY <1>1, <1>2, SeqEqual

\* The queue names no operation twice.
LEMMA QueueDistinct ==
    ASSUME IInv
    PROVE  \A j, k \in 1..Len(queue) : queue[j] = queue[k] => j = k
<1>0. queue \in Seq(Ops) /\ op \in [Ops -> Operation]
  BY DEF IInv, TypeOK
<1>1. \A j, k \in 1..Len(queue) :
        j < k => op[queue[j]].sequence < op[queue[k]].sequence
  BY <1>0 DEF IInv, FifoIntegrity
<1>2. \A j \in 1..Len(queue) : op[queue[j]].sequence \in Nat
  BY <1>0 DEF Operation
<1>3. QED
  BY <1>0, <1>1, <1>2

\* Nobody holds the write right when the drain loop takes its turn unblocked.
LEMMA TurnIsFree ==
    ASSUME IInv, Turn, ~blocked PROVE current = NoOp /\ drain \in {"IDLE", "LOOP"}
BY DEF IInv, OneWriter, OneDrain, Turn

\* The head of the FIFO becomes the holder of the write right.
LEMMA StartStep ==
    ASSUME IInv, TypeOK', NEW o \in Ops, Start(o) PROVE IInv'
<1> DEFINE r == [op[o] EXCEPT !.active = TRUE]
<1>0. TypeOK /\ current = NoOp /\ ~blocked /\ ~readLease
  BY TurnIsFree DEF IInv, Start, CanStartWriter
<1>1. op[o] \in Operation /\ queue \in Seq(Ops)
  BY <1>0 DEF TypeOK
<1>2. /\ r.active /\ r.finalized = op[o].finalized
      /\ r.phase = op[o].phase /\ r.outcome = op[o].outcome
      /\ r.adopted = op[o].adopted /\ r.settled = op[o].settled
      /\ r.candidate = op[o].candidate /\ r.sequence = op[o].sequence
      /\ r.validation = op[o].validation /\ r.decided = op[o].decided
  BY <1>1 DEF Operation
<1>3. op' = [op EXCEPT ![o] = r]
  BY DEF Start
<1> HIDE DEF r
<1>4. /\ op'[o] = r /\ writer'[o] = "RUNNING"
      /\ \A x \in Ops : x # o => op'[x] = op[x] /\ writer'[x] = writer[x]
  BY <1>0, <1>3 DEF Start, TypeOK
<1>5. /\ current' = o /\ drain' = "EXECUTING" /\ ~drainScheduled'
      /\ UNCHANGED <<nextSequence, blocked, readLease>>
      /\ op[o].validation = "READY"
  BY DEF Start, gateVars, HeadReady
<1>6. /\ 1 \in DOMAIN queue /\ queue[1] = o
      /\ queue' = RemoveAt(queue, 1) /\ Queued(o)
  <2>1. queue # << >> /\ o = Head(queue) /\ queue' = Tail(queue)
    BY DEF Start, HeadReady
  <2>2. 1 \in DOMAIN queue /\ queue' = RemoveAt(queue, 1)
    BY <1>1, <2>1, TailIsRemoveAt
  <2>3. 1 \in 1..Len(queue) /\ queue[1] = o
    BY <1>1, <2>1
  <2>4. QED
    BY <1>1, <2>2, <2>3, ToSetIndex DEF Queued
<1>7. \A x \in Ops : Queued(x)' <=> Queued(x) /\ x # o
  <2>1. \A x : x \in ToSet(queue') <=> x \in ToSet(queue) /\ x # queue[1]
    BY <1>1, <1>6, QueueDistinct, ToSetRemoveAt
  <2>2. QED
    BY <1>6, <2>1 DEF Queued
<1>8. ~op[o].finalized /\ op[o].phase = "NONE" /\ op[o].decided
  BY <1>5, <1>6 DEF IInv, FifoIntegrity, QueuedOperations
<1>9. OneWriter' /\ OneDrain'
  <2>1. \A x \in Ops : op'[x].active <=> current' = x
    BY <1>0, <1>2, <1>4, <1>5, NoOpAssumption DEF IInv, OneWriter
  <2>2. QED
    BY <1>5, <2>1, NoOpAssumption DEF OneWriter, OneDrain
<1>10. CurrentOperation'
  BY <1>2, <1>4, <1>5, <1>7, <1>8 DEF CurrentOperation
<1>11. QueuedOperations' /\ UnregisteredOperations'
  BY <1>2, <1>4, <1>5, <1>7, <1>8
     DEF IInv, QueuedOperations, UnregisteredOperations, Registered
<1>12. FifoIntegrity'
  <2>1. \A x \in Ops : Queued(x)' \/ current' = x <=> Registered(x)' /\ ~op'[x].finalized
    BY <1>0, <1>2, <1>4, <1>5, <1>6, <1>7, NoOpAssumption
       DEF IInv, FifoIntegrity, Registered
  <2>2. /\ Len(queue) \in Nat /\ DOMAIN queue' = 1..(Len(queue) - 1)
        /\ \A j \in 1..(Len(queue) - 1) : queue'[j] = queue[j + 1]
    <3>1. /\ queue' \in Seq(Ops) /\ Len(queue') = Len(queue) - 1
          /\ \A j \in 1..(Len(queue) - 1) :
                queue'[j] = IF j < 1 THEN queue[j] ELSE queue[j + 1]
      BY <1>1, <1>6, RemoveAtProperties
    <3>2. QED
      BY <1>1, <3>1
  <2>3. \A x \in Ops : op'[x].sequence = op[x].sequence
    BY <1>2, <1>4
  <2>4. \A j \in 1..(Len(queue) - 1) : op'[queue'[j]].sequence = op[queue[j + 1]].sequence
    BY <1>1, <2>2, <2>3
  <2>5. \A j, k \in 1..Len(queue) :
          j < k => op[queue[j]].sequence < op[queue[k]].sequence
    BY <1>1 DEF IInv, FifoIntegrity
  <2>6. \A j, k \in DOMAIN queue' :
          j < k => op'[queue'[j]].sequence < op'[queue'[k]].sequence
    BY <2>2, <2>4, <2>5
  <2>7. QED
    BY <2>1, <2>6 DEF FifoIntegrity
<1>13. QuiescenceMirrorsCoordinator'
  BY <1>2, <1>4, <1>7 DEF IInv, QuiescenceMirrorsCoordinator
<1>14. ReadersExcludeWriters' /\ UnknownEffectIsFinal'
  BY <1>0, <1>4, <1>5 DEF IInv, ReadersExcludeWriters, UnknownEffectIsFinal
<1>15. ResolvedMeansPersisted'
  BY <1>2, <1>4, <1>8 DEF IInv, ResolvedMeansPersisted
<1> QED
  BY <1>9, <1>10, <1>11, <1>12, <1>13, <1>14, <1>15 DEF IInv

\* The executing writer pauses and the fence goes down.
LEMMA PauseUnknownStep ==
    ASSUME IInv, TypeOK', NEW o \in Ops, PauseUnknown(o) PROVE IInv'
<1> DEFINE r == [op[o] EXCEPT !.phase = "PAUSED"]
<1>0. TypeOK
  BY DEF IInv
<1>1. op[o] \in Operation
  BY <1>0 DEF TypeOK
<1>2. /\ r.phase = "PAUSED"
      /\ r.active = op[o].active /\ r.finalized = op[o].finalized
      /\ r.outcome = op[o].outcome /\ r.adopted = op[o].adopted
      /\ r.settled = op[o].settled /\ r.candidate = op[o].candidate
      /\ r.sequence = op[o].sequence /\ r.validation = op[o].validation
      /\ r.decided = op[o].decided
  BY <1>1 DEF Operation
<1>3. op' = [op EXCEPT ![o] = r]
  BY DEF PauseUnknown
<1> HIDE DEF r
<1>4. op'[o] = r /\ \A x \in Ops : x # o => op'[x] = op[x]
  BY <1>0, <1>3 DEF TypeOK
<1>5. /\ current = o /\ drain \in {"RETURNED", "THREW"}
      /\ blocked' /\ drain' = "LOOP"
      /\ UNCHANGED <<queue, current, nextSequence, drainScheduled, readLease, writer>>
      /\ \A x \in Ops : Queued(x)' <=> Queued(x)
  BY DEF PauseUnknown, Resumes, gateVars, Queued
<1>6. /\ ~drainScheduled /\ ~Queued(o) /\ op[o].decided /\ op[o].validation = "READY"
      /\ o # NoOp
  BY <1>5, NoOpAssumption DEF IInv, OneDrain, CurrentOperation
<1>7. \A x \in Ops : /\ op'[x].active = op[x].active /\ op'[x].finalized = op[x].finalized
                     /\ op'[x].outcome = op[x].outcome /\ op'[x].adopted = op[x].adopted
                     /\ op'[x].settled = op[x].settled /\ op'[x].candidate = op[x].candidate
                     /\ op'[x].sequence = op[x].sequence
                     /\ op'[x].validation = op[x].validation
  BY <1>2, <1>4
<1>8. OneWriter' /\ OneDrain' /\ CurrentOperation'
  BY <1>2, <1>4, <1>5, <1>6, <1>7 DEF IInv, OneWriter, OneDrain, CurrentOperation
<1>9. QueuedOperations' /\ UnregisteredOperations'
  BY <1>4, <1>5, <1>6, <1>7 DEF IInv, QueuedOperations, UnregisteredOperations, Registered
<1>10. FifoIntegrity'
  <2>1. \A x \in Ops : Queued(x)' \/ current' = x <=> Registered(x)' /\ ~op'[x].finalized
    BY <1>5, <1>7 DEF IInv, FifoIntegrity, Registered
  <2>2. \A i \in DOMAIN queue : queue[i] \in Ops
    BY <1>0 DEF TypeOK
  <2>3. \A i, j \in DOMAIN queue' :
          i < j => op'[queue'[i]].sequence < op'[queue'[j]].sequence
    BY <1>5, <1>7, <2>2 DEF IInv, FifoIntegrity
  <2>4. QED
    BY <2>1, <2>3 DEF FifoIntegrity
<1>11. QuiescenceMirrorsCoordinator' /\ ResolvedMeansPersisted'
  BY <1>5, <1>7 DEF IInv, QuiescenceMirrorsCoordinator, ResolvedMeansPersisted
<1>12. ReadersExcludeWriters' /\ UnknownEffectIsFinal'
  BY <1>5, <1>6 DEF IInv, ReadersExcludeWriters, UnknownEffectIsFinal
<1> QED
  BY <1>8, <1>9, <1>10, <1>11, <1>12 DEF IInv

\* The holder of the write right becomes final and its receipt is deleted.
LEMMA FinishStep ==
    ASSUME IInv, TypeOK', NEW o \in Ops, NEW outcome \in {"RESOLVED", "REJECTED"},
           current = o,
           op' = [op EXCEPT ![o] = Terminate(op[o], outcome)],
           current' = NoOp,
           writer' = [writer EXCEPT ![o] = "NONE"],
           UNCHANGED <<queue, nextSequence, readLease>>,
           drain' \in {"IDLE", "LOOP"},
           drainScheduled' => drain' = "IDLE",
           outcome = "RESOLVED" =>
              \/ op[o].adopted
              \/ op[o].settled = "ONE" /\ op[o].candidate = "BUSINESS_RESULT_PERSISTED"
    PROVE  IInv'
<1>0. TypeOK /\ o # NoOp /\ \A x \in Ops : Queued(x)' <=> Queued(x)
  BY NoOpAssumption DEF IInv, Queued
<1>1. op[o] \in Operation
  BY <1>0 DEF TypeOK
<1>2. /\ op'[o].finalized /\ ~op'[o].active
      /\ op'[o].outcome = outcome /\ op'[o].validation = op[o].validation
      /\ op'[o].sequence = op[o].sequence /\ op'[o].adopted = op[o].adopted
      /\ op'[o].settled = op[o].settled /\ op'[o].candidate = op[o].candidate
      /\ writer'[o] = "NONE"
      /\ \A x \in Ops : x # o => op'[x] = op[x] /\ writer'[x] = writer[x]
  BY <1>0, <1>1, TerminateFields DEF TypeOK
<1>3. ~Queued(o) /\ op[o].validation = "READY"
  BY <1>0 DEF IInv, CurrentOperation
<1>4. OneWriter' /\ OneDrain' /\ CurrentOperation'
  <2>1. \A x \in Ops : op'[x].active <=> current' = x
    BY <1>2, NoOpAssumption DEF IInv, OneWriter
  <2>2. QED
    BY <2>1 DEF OneWriter, OneDrain, CurrentOperation
<1>5. QueuedOperations' /\ UnregisteredOperations'
  BY <1>0, <1>2, <1>3 DEF IInv, QueuedOperations, UnregisteredOperations, Registered
<1>6. FifoIntegrity'
  <2>1. \A x \in Ops : Queued(x)' \/ current' = x <=> Registered(x)' /\ ~op'[x].finalized
    BY <1>0, <1>2, <1>3, NoOpAssumption DEF IInv, FifoIntegrity, Registered
  <2>2. \A i \in DOMAIN queue : queue[i] \in Ops
    BY <1>0 DEF TypeOK
  <2>3. \A i, j \in DOMAIN queue' :
          i < j => op'[queue'[i]].sequence < op'[queue'[j]].sequence
    BY <1>2, <2>2 DEF IInv, FifoIntegrity
  <2>4. QED
    BY <2>1, <2>3 DEF FifoIntegrity
<1>7. QuiescenceMirrorsCoordinator'
  BY <1>0, <1>2, <1>3 DEF IInv, QuiescenceMirrorsCoordinator
<1>8. ReadersExcludeWriters' /\ UnknownEffectIsFinal'
  BY <1>0, <1>2 DEF IInv, ReadersExcludeWriters, UnknownEffectIsFinal
<1>9. ResolvedMeansPersisted'
  BY <1>2 DEF IInv, ResolvedMeansPersisted
<1> QED
  BY <1>4, <1>5, <1>6, <1>7, <1>8, <1>9 DEF IInv

\* Whatever fails closed keeps the invariant.
LEMMA FailClosedActions ==
    ASSUME IInv, TypeOK', NEW o \in Ops,
           \/ RegisterFails(o) \/ ActivateFails(o) \/ RejectBeforeStartFails(o)
           \/ StartFails(o) \/ FinishKnownFails(o) \/ FinishUnknown(o)
           \/ RecoverPersistedFails(o) \/ RecoverFailClosed(o)
           \/ DrainGateFails /\ o = Head(queue)
    PROVE  IInv'
<1> USE DEF coordinatorVars, drainVars, gateVars
<1>0. op[o] \in Operation /\ nextSequence \in Nat
  BY DEF IInv, TypeOK
<1>1. CASE RegisterFails(o)
  <2> DEFINE r == [op[o] EXCEPT !.validation = "WAITING_VALIDATION", !.decided = TRUE,
                                !.sequence = nextSequence]
  <2>1. /\ r \in Operation /\ r.active = op[o].active /\ r.finalized = op[o].finalized
        /\ r.outcome = op[o].outcome /\ r.adopted = op[o].adopted
        /\ r.settled = op[o].settled /\ r.candidate = op[o].candidate
        /\ r.validation # "ABSENT"
    BY <1>0 DEF Operation
  <2>2. FailClosed(o, r, "BLOCKED")
    BY <1>1 DEF RegisterFails
  <2> HIDE DEF r
  <2>3. current # o
    BY <1>1 DEF RegisterFails, Arrives, IInv, FifoIntegrity, Registered
  <2>4. UNCHANGED <<nextSequence, readLease, drain, drainScheduled>>
    BY <1>1 DEF RegisterFails
  <2>5. QED
    BY <2>1, <2>2, <2>3, <2>4, FailClosedStep DEF IInv, OneDrain
<1>2. CASE ActivateFails(o)
  <2>1. /\ Activated(o) \in Operation /\ Activated(o).active = op[o].active
        /\ Activated(o).finalized = op[o].finalized
        /\ Activated(o).outcome = op[o].outcome /\ Activated(o).adopted = op[o].adopted
        /\ Activated(o).settled = op[o].settled
        /\ Activated(o).candidate = op[o].candidate
        /\ Activated(o).validation # "ABSENT"
    BY <1>0 DEF Operation, Activated
  <2>2. FailClosed(o, Activated(o), "BLOCKED") /\ ~op[o].decided
    BY <1>2 DEF ActivateFails, Undecided
  <2>3. current # o
    BY <2>2, NoOpAssumption DEF IInv, CurrentOperation
  <2>4. UNCHANGED <<nextSequence, readLease, drain, drainScheduled>>
    BY <1>2 DEF ActivateFails
  <2>5. QED
    BY <2>1, <2>2, <2>3, <2>4, FailClosedStep DEF IInv, OneDrain
<1>3. CASE RejectBeforeStartFails(o)
  <2>1. /\ Declined(o) \in Operation /\ Declined(o).active = op[o].active
        /\ Declined(o).finalized = op[o].finalized
        /\ Declined(o).outcome = op[o].outcome /\ Declined(o).adopted = op[o].adopted
        /\ Declined(o).settled = op[o].settled
        /\ Declined(o).candidate = op[o].candidate
        /\ Declined(o).validation # "ABSENT"
    BY <1>0 DEF Operation, Declined
  <2>2. FailClosed(o, Declined(o), "BLOCKED") /\ ~op[o].decided
    BY <1>3 DEF RejectBeforeStartFails, Undecided
  <2>3. current # o
    BY <2>2, NoOpAssumption DEF IInv, CurrentOperation
  <2>4. UNCHANGED <<nextSequence, readLease, drain, drainScheduled>>
    BY <1>3 DEF RejectBeforeStartFails
  <2>5. QED
    BY <2>1, <2>2, <2>3, <2>4, FailClosedStep DEF IInv, OneDrain
<1>4. CASE StartFails(o) \/ (DrainGateFails /\ o = Head(queue))
  <2>1. /\ FailClosed(o, op[o], "BLOCKED")
        /\ Turn /\ ~blocked /\ op[o].validation = "READY"
        /\ UNCHANGED <<nextSequence, readLease>>
        /\ drain' \in {"IDLE", "LOOP"} /\ ~drainScheduled'
    BY <1>4 DEF StartFails, DrainGateFails, HeadReady
  <2>2. current = NoOp /\ current # o
    BY <2>1, TurnIsFree, NoOpAssumption
  <2>3. QED
    BY <1>0, <2>1, <2>2, FailClosedStep
<1>5. CASE FinishKnownFails(o) \/ FinishUnknown(o)
  <2>1. PICK mark \in {"BLOCKED", "UNKNOWN"} : FailClosed(o, op[o], mark)
    BY <1>5 DEF FinishKnownFails, FinishUnknown, FinalizeUnknown
  <2>2. /\ current = o /\ drain \in {"RETURNED", "THREW"} /\ drain' = "LOOP"
        /\ UNCHANGED <<nextSequence, readLease, drainScheduled>>
    BY <1>5 DEF FinishKnownFails, FinishUnknown, FinalizeUnknown, Resumes
  <2>3. ~drainScheduled' /\ op[o].validation # "ABSENT" /\ ~op[o].finalized
    BY <2>2, NoOpAssumption DEF IInv, OneDrain, CurrentOperation, FifoIntegrity, Registered
  <2>4. QED
    BY <1>0, <2>1, <2>2, <2>3, FailClosedStep
<1>6. CASE RecoverPersistedFails(o) \/ RecoverFailClosed(o)
  <2>1. PICK mark \in {"BLOCKED", "UNKNOWN"} : FailClosed(o, op[o], mark)
    BY <1>6 DEF RecoverPersistedFails, RecoverFailClosed, FinalizeUnknown
  <2>2. /\ current = o /\ ~op[o].finalized /\ op[o].phase = "PAUSED"
        /\ UNCHANGED <<nextSequence, readLease, drain, drainScheduled>>
    BY <1>6 DEF RecoverPersistedFails, RecoverFailClosed, FinalizeUnknown, Recoverable, IsCurrent
  <2>3. /\ drain \in {"IDLE", "LOOP"} /\ op[o].validation # "ABSENT"
        /\ drainScheduled => drain = "IDLE"
    BY <2>2, NoOpAssumption DEF IInv, CurrentOperation, OneDrain
  <2>4. QED
    BY <1>0, <2>1, <2>2, <2>3, FailClosedStep
<1>7. QED
  BY <1>1, <1>2, <1>3, <1>4, <1>5, <1>6

\* QuietStep for a step that changes fields of one operation.
LEMMA QuietUpdate ==
    ASSUME IInv, TypeOK', NEW o \in Ops, NEW r \in Operation,
           op' = [op EXCEPT ![o] = r],
           UNCHANGED <<queue, current, nextSequence, drain, drainScheduled, blocked,
                       readLease, writer>>,
           r.active = op[o].active, r.finalized = op[o].finalized,
           r.outcome = op[o].outcome, r.sequence = op[o].sequence,
           op[o].adopted => r.adopted,
           r.phase = "PAUSED" <=> op[o].phase = "PAUSED",
           r.validation # "ABSENT", op[o].validation # "ABSENT",
           op[o].finalized => r.settled = op[o].settled /\ r.candidate = op[o].candidate,
           Queued(o) \/ current = o =>
              r.validation = op[o].validation /\ r.decided = op[o].decided,
           Queued(o) => r.phase = op[o].phase
    PROVE  IInv'
<1>1. op'[o] = r /\ \A x \in Ops : x # o => op'[x] = op[x]
  BY DEF IInv, TypeOK
<1>2. \A x \in Ops :
        /\ op'[x].active = op[x].active
        /\ op'[x].finalized = op[x].finalized
        /\ op'[x].outcome = op[x].outcome
        /\ op'[x].sequence = op[x].sequence
        /\ op[x].adopted => op'[x].adopted
        /\ op'[x].phase = "PAUSED" <=> op[x].phase = "PAUSED"
        /\ op'[x].validation = "ABSENT" <=> op[x].validation = "ABSENT"
        /\ op[x].finalized => /\ op'[x].settled = op[x].settled
                              /\ op'[x].candidate = op[x].candidate
        /\ Queued(x) \/ current = x =>
              /\ op'[x].validation = op[x].validation
              /\ op'[x].decided = op[x].decided
        /\ Queued(x) \/ ~Registered(x) => op'[x].phase = op[x].phase
  BY <1>1 DEF Registered
<1>3. QED
  BY <1>2, QuietStep DEF IInv, OneDrain

\* QuietStep for a step that leaves the operations alone.
LEMMA QuietGate ==
    ASSUME IInv, TypeOK',
           UNCHANGED <<queue, op, current, nextSequence, blocked, writer>>,
           drain' \in {"IDLE", "LOOP"} <=> drain \in {"IDLE", "LOOP"},
           drainScheduled' => drain' = "IDLE",
           readLease' => readLease \/ \A x \in Ops : writer[x] = "NONE"
    PROVE  IInv'
BY QuietStep

LEMMA QuietActions ==
    ASSUME IInv, TypeOK',
           \/ SettleReadyCleanupFails \/ SettleReadyDone
           \/ DrainStops \/ DrainDefers \/ ExecutorEnds
           \/ AcquireReadLease \/ ReleaseReadLease \/ Hold \/ Release \/ DeliverWake
           \/ UNCHANGED vars
    PROVE  IInv'
<1> USE DEF coordinatorVars, drainVars, gateVars
<1>0. drainScheduled => drain = "IDLE"
  BY DEF IInv, OneDrain
<1>1. CASE SettleReadyCleanupFails \/ SettleReadyDone \/ Hold \/ Release \/ UNCHANGED vars
  BY <1>0, <1>1, QuietGate DEF SettleReadyCleanupFails, SettleReadyDone, Hold, Release, vars
<1>2. CASE DrainStops \/ DrainDefers
  BY <1>0, <1>2, QuietGate DEF DrainStops, DrainDefers, Turn
<1>3. CASE ExecutorEnds
  BY <1>0, <1>3, QuietGate DEF ExecutorEnds
<1>4. CASE AcquireReadLease
  BY <1>0, <1>4, QuietGate DEF AcquireReadLease
<1>5. CASE ReleaseReadLease \/ DeliverWake
  <2>1. drainScheduled' => drainScheduled \/ drain = "IDLE"
    BY <1>5 DEF ReleaseReadLease, DeliverWake, Wake, ScheduleDrain, Running
  <2>2. /\ UNCHANGED <<queue, op, current, nextSequence, blocked, writer, drain>>
        /\ readLease' => readLease
    BY <1>5 DEF ReleaseReadLease, DeliverWake
  <2>3. QED
    BY <1>0, <2>1, <2>2, QuietGate
<1>6. QED
  BY <1>1, <1>2, <1>3, <1>4, <1>5

\* The operation whose validation is undecided does not hold the write right.
LEMMA UndecidedIsNotCurrent ==
    ASSUME IInv, NEW o \in Ops, Undecided(o)
    PROVE  current # o /\ op[o].validation # "ABSENT"
BY NoOpAssumption DEF IInv, CurrentOperation, Undecided

LEMMA QuietUpdates ==
    ASSUME IInv, TypeOK', NEW o \in Ops,
           \/ RejectTooLate(o) \/ SettleCanceledTooLate(o)
           \/ RequestPause(o) \/ Adopt(o)
           \/ \E candidate \in Candidates, legal \in BOOLEAN : Settle(o, candidate, legal)
    PROVE  IInv'
<1> USE DEF coordinatorVars, drainVars, gateVars
<1>0. op[o] \in Operation
  BY DEF IInv, TypeOK
<1>1. CASE RejectTooLate(o) \/ SettleCanceledTooLate(o)
  <2>1. PICK r \in {Declined(o), Canceled(o)} : op' = [op EXCEPT ![o] = r]
    BY <1>1 DEF RejectTooLate, SettleCanceledTooLate
  <2>2. ~Queued(o) /\ current # o /\ op[o].validation # "ABSENT"
    BY <1>1, UndecidedIsNotCurrent DEF RejectTooLate, SettleCanceledTooLate
  <2>3. /\ r \in Operation /\ r.active = op[o].active /\ r.finalized = op[o].finalized
        /\ r.outcome = op[o].outcome /\ r.sequence = op[o].sequence
        /\ r.adopted = op[o].adopted /\ r.phase = op[o].phase
        /\ r.settled = op[o].settled /\ r.candidate = op[o].candidate
        /\ r.validation # "ABSENT"
    BY <1>0, <2>1, <2>2 DEF Operation, Declined, Canceled
  <2>4. UNCHANGED <<queue, current, nextSequence, drain, drainScheduled, blocked,
                    readLease, writer>>
    BY <1>1 DEF RejectTooLate, SettleCanceledTooLate
  <2>5. QED
    BY <2>1, <2>2, <2>3, <2>4, QuietUpdate
<1>2. op[o].active => /\ current = o /\ ~op[o].finalized /\ ~Queued(o)
                      /\ op[o].validation # "ABSENT"
  BY NoOpAssumption DEF IInv, OneWriter, CurrentOperation, FifoIntegrity, Registered
<1>3. CASE RequestPause(o)
  <2> DEFINE r == [op[o] EXCEPT !.settled = "ONE", !.candidate = "UNKNOWN_EFFECT",
                                !.phase = "REQUESTED"]
  <2>1. op' = [op EXCEPT ![o] = r] /\ op[o].active /\ op[o].phase = "NONE"
    BY <1>3 DEF RequestPause, IsCurrent
  <2>2. /\ r \in Operation /\ r.active = op[o].active /\ r.finalized = op[o].finalized
        /\ r.outcome = op[o].outcome /\ r.sequence = op[o].sequence
        /\ r.adopted = op[o].adopted /\ r.phase = "REQUESTED"
        /\ r.validation = op[o].validation /\ r.decided = op[o].decided
    BY <1>0 DEF Operation, Candidates
  <2> HIDE DEF r
  <2>3. UNCHANGED <<queue, current, nextSequence, drain, drainScheduled, blocked,
                    readLease, writer>>
    BY <1>3 DEF RequestPause
  <2>4. QED
    BY <1>2, <2>1, <2>2, <2>3, QuietUpdate
<1>4. CASE Adopt(o)
  <2> DEFINE r == [op[o] EXCEPT !.adopted = TRUE]
  <2>1. op' = [op EXCEPT ![o] = r] /\ op[o].active
    BY <1>4 DEF Adopt, IsCurrent
  <2>2. /\ r \in Operation /\ r.active = op[o].active /\ r.finalized = op[o].finalized
        /\ r.outcome = op[o].outcome /\ r.sequence = op[o].sequence
        /\ r.adopted /\ r.phase = op[o].phase
        /\ r.validation = op[o].validation /\ r.decided = op[o].decided
    BY <1>0 DEF Operation
  <2> HIDE DEF r
  <2>3. UNCHANGED <<queue, current, nextSequence, drain, drainScheduled, blocked,
                    readLease, writer>>
    BY <1>4 DEF Adopt
  <2>4. QED
    BY <1>2, <2>1, <2>2, <2>3, QuietUpdate
<1>5. CASE \E candidate \in Candidates, legal \in BOOLEAN : Settle(o, candidate, legal)
  <2>1. PICK candidate \in Candidates, legal \in BOOLEAN : Settle(o, candidate, legal)
    BY <1>5
  <2> DEFINE r == Recorded(o, candidate, legal)
  <2>2. op' = [op EXCEPT ![o] = r] /\ op[o].active
    BY <2>1 DEF Settle
  <2>3. /\ r \in Operation /\ r.active = op[o].active /\ r.finalized = op[o].finalized
        /\ r.outcome = op[o].outcome /\ r.sequence = op[o].sequence
        /\ r.adopted = op[o].adopted /\ r.phase = op[o].phase
        /\ r.validation = op[o].validation /\ r.decided = op[o].decided
    <3> DEFINE s == IF op[o].settled = "NONE" /\ legal THEN "ONE" ELSE "INVALID"
               d == IF op[o].candidate = "NULL" THEN candidate ELSE op[o].candidate
    <3>1. s \in {"NONE", "ONE", "INVALID"} /\ d \in Candidates \cup {"NULL"}
      BY <1>0, SMT DEF Operation
    <3>2. r = [op[o] EXCEPT !.settled = s, !.candidate = d]
      BY DEF Recorded
    <3> HIDE DEF s, d, r
    <3>3. r \in Operation
      BY <1>0, <3>1, <3>2, SettleFieldTypes
    <3>4. /\ r.active = op[o].active /\ r.finalized = op[o].finalized
          /\ r.outcome = op[o].outcome /\ r.sequence = op[o].sequence
      BY <1>0, <3>2 DEF Operation
    <3>5. /\ r.adopted = op[o].adopted /\ r.phase = op[o].phase
          /\ r.validation = op[o].validation /\ r.decided = op[o].decided
      BY <1>0, <3>2 DEF Operation
    <3> QED
      BY <3>3, <3>4, <3>5
  <2> HIDE DEF r
  <2>4. UNCHANGED <<queue, current, nextSequence, drain, drainScheduled, blocked,
                    readLease, writer>>
    BY <2>1 DEF Settle
  <2>5. QED
    BY <1>2, <2>2, <2>3, <2>4, QuietUpdate
<1>6. QED
  BY <1>1, <1>3, <1>4, <1>5

LEMMA StartMaintenanceStep ==
    ASSUME IInv, TypeOK', StartMaintenance PROVE IInv'
<1>1. \A x \in Ops : op[x] \in Operation
  BY DEF IInv, TypeOK
<1>2. \A x \in Ops :
        \/ op'[x] = op[x]
        \/ op'[x] = [op[x] EXCEPT !.canceled = TRUE]
  BY DEF StartMaintenance
<1>3. ASSUME NEW x \in Ops
      PROVE  /\ op'[x].active = op[x].active /\ op'[x].finalized = op[x].finalized
             /\ op'[x].outcome = op[x].outcome /\ op'[x].sequence = op[x].sequence
             /\ op'[x].adopted = op[x].adopted /\ op'[x].phase = op[x].phase
             /\ op'[x].validation = op[x].validation /\ op'[x].decided = op[x].decided
             /\ op'[x].settled = op[x].settled /\ op'[x].candidate = op[x].candidate
  <2>1. CASE op'[x] = op[x]
    BY <2>1
  <2>2. CASE op'[x] = [op[x] EXCEPT !.canceled = TRUE]
    <3>1. op[x] \in Operation
      BY <1>1
    <3>2. QED
      BY <2>2, <3>1 DEF Operation
  <2>3. QED
    BY <1>2, <2>1, <2>2
<1>4. UNCHANGED <<queue, current, nextSequence, drain, drainScheduled, blocked,
                  readLease, writer>>
  BY DEF StartMaintenance, drainVars
<1>5. QED
  BY <1>3, <1>4, QuietStep DEF IInv, OneDrain

\* Whatever takes an operation out of the FIFO without starting it.
LEMMA LeaveQueueActions ==
    ASSUME IInv, TypeOK',
           \/ SettleReady \/ SettleReadyHookFails
           \/ \E o \in Ops : \/ RejectBeforeStart(o) \/ SettleCanceled(o)
                             \/ SettleCanceledHookFails(o)
                             \/ SettleCanceledCleanupFails(o)
    PROVE  IInv'
<1> USE DEF coordinatorVars, drainVars, gateVars
<1>1. /\ queue \in Seq(Ops)
      /\ \A x \in Ops : op[x] \in Operation
      /\ \A i \in DOMAIN queue : queue[i] \in Ops /\ op[queue[i]].validation # "ABSENT"
  <2>1. queue \in Seq(Ops) /\ \A x \in Ops : op[x] \in Operation
    BY DEF IInv, TypeOK
  <2>2. \A i \in 1..Len(queue) : queue[i] \in Ops /\ Queued(queue[i])
    BY <2>1, ToSetIndex DEF Queued
  <2>3. QED
    BY <2>1, <2>2 DEF IInv, QueuedOperations
<1>2. /\ UNCHANGED <<current, nextSequence, drain, blocked, readLease>>
      /\ drainScheduled' => drain = "IDLE"
  <2>1. drainScheduled => drain = "IDLE"
    BY DEF IInv, OneDrain
  <2>2. CASE SettleReady \/ SettleReadyHookFails
    BY <2>1, <2>2 DEF SettleReady, SettleReadyHookFails
  <2>3. ASSUME NEW o \in Ops,
               RejectBeforeStart(o) \/ SettleCanceled(o) \/ SettleCanceledCleanupFails(o)
        PROVE  /\ UNCHANGED <<current, nextSequence, drain, blocked, readLease>>
               /\ drainScheduled' => drain = "IDLE"
    BY <2>1, <2>3 DEF RejectBeforeStart, SettleCanceled, SettleCanceledCleanupFails,
       RescheduleForHead, ScheduleDrain, Running
  <2>4. ASSUME NEW o \in Ops, SettleCanceledHookFails(o)
        PROVE  /\ UNCHANGED <<current, nextSequence, drain, blocked, readLease>>
               /\ drainScheduled' => drain = "IDLE"
    BY <2>1, <2>4 DEF SettleCanceledHookFails
  <2>5. QED
    BY <2>2, <2>3, <2>4
<1>3. PICK i \in DOMAIN queue :
        LET o == queue[i] IN
        \E r \in {op[o], Declined(o), Canceled(o), [Declined(o) EXCEPT !.canceled = FALSE]} :
            LeaveQueue(i, r) \/ LeaveQueueUnpublished(i, r)
  BY DEF SettleReady, SettleReadyHookFails, RejectBeforeStart, SettleCanceled,
         SettleCanceledHookFails, SettleCanceledCleanupFails
<1> DEFINE o == queue[i]
<1>4. PICK r \in {op[o], Declined(o), Canceled(o), [Declined(o) EXCEPT !.canceled = FALSE]} :
        LeaveQueue(i, r) \/ LeaveQueueUnpublished(i, r)
  BY <1>3
<1>5. op[o] \in Operation /\ op[o].validation # "ABSENT"
  BY <1>1
<1> HIDE DEF o
<1>6. r \in Operation /\ r.validation # "ABSENT"
  BY <1>4, <1>5 DEF Operation, Declined, Canceled
<1>7. PICK w \in {"NONE", "BLOCKED"} :
        /\ queue' = RemoveAt(queue, i)
        /\ op' = [op EXCEPT ![queue[i]] = Terminate(r, "REJECTED")]
        /\ writer' = [writer EXCEPT ![queue[i]] = w]
  BY <1>4 DEF LeaveQueue, LeaveQueueUnpublished
<1>8. QED
  BY <1>2, <1>6, <1>7, LeaveQueueStep

LEMMA FinishActions ==
    ASSUME IInv, TypeOK', NEW o \in Ops, FinishKnown(o) \/ RecoverPersisted(o)
    PROVE  IInv'
<1> USE DEF drainVars, gateVars
<1>1. CASE FinishKnown(o)
  <2>1. ~drainScheduled
    BY <1>1 DEF IInv, OneDrain, FinishKnown, Resumes
  <2>2. OutcomeOf(op[o].candidate) \in {"RESOLVED", "REJECTED"}
    BY DEF OutcomeOf
  <2>3. /\ current = o /\ current' = NoOp /\ writer' = [writer EXCEPT ![o] = "NONE"]
        /\ op' = [op EXCEPT ![o] = Terminate(op[o], OutcomeOf(op[o].candidate))]
        /\ drain' = "LOOP" /\ ~drainScheduled'
        /\ UNCHANGED <<queue, nextSequence, readLease>>
        /\ op[o].settled = "ONE"
    BY <1>1, <2>1 DEF FinishKnown, Resumes, SettledOnce
  <2>4. OutcomeOf(op[o].candidate) = "RESOLVED" =>
           op[o].candidate = "BUSINESS_RESULT_PERSISTED"
    BY DEF OutcomeOf
  <2>5. QED
    BY <2>2, <2>3, <2>4, FinishStep
<1>2. CASE RecoverPersisted(o)
  <2>1. /\ current = o /\ current' = NoOp /\ writer' = [writer EXCEPT ![o] = "NONE"]
        /\ op' = [op EXCEPT ![o] = Terminate(op[o], "RESOLVED")]
        /\ UNCHANGED <<queue, nextSequence, readLease, drain>>
        /\ op[o].adopted /\ op[o].phase = "PAUSED"
        /\ drainScheduled' => drainScheduled \/ drain = "IDLE"
    BY <1>2 DEF RecoverPersisted, Recoverable, IsCurrent, ScheduleDrain, Running
  <2>2. drain \in {"IDLE", "LOOP"} /\ (drainScheduled => drain = "IDLE")
    BY <2>1, NoOpAssumption DEF IInv, CurrentOperation, OneDrain
  <2>3. QED
    BY <2>1, <2>2, FinishStep
<1>3. QED
  BY <1>1, <1>2

-----------------------------------------------------------------------------
(* The inductive invariant *)

LEMMA IInvStep == IInv /\ [Next]_vars => IInv'
<1> SUFFICES ASSUME IInv, [Next]_vars PROVE IInv'
  OBVIOUS
<1>1. TypeOK'
  BY TypeStep DEF IInv
<1>2. CASE SettlementLoop
  BY <1>1, <1>2, QuietActions, LeaveQueueActions DEF SettlementLoop
<1>3. ASSUME NEW o \in Ops, Register(o) \/ RegisterFails(o) PROVE IInv'
  BY <1>1, <1>3, RegisterStep, FailClosedActions
<1>4. ASSUME NEW o \in Ops, Decide(o) PROVE IInv'
  BY <1>1, <1>4, ActivateStep, FailClosedActions, LeaveQueueActions, QuietUpdates DEF Decide
<1>5. ASSUME NEW o \in Ops, ExecutorCalls(o) PROVE IInv'
  BY <1>1, <1>5, QuietUpdates DEF ExecutorCalls
<1>6. ASSUME NEW o \in Ops, Recover(o) PROVE IInv'
  BY <1>1, <1>6, QuietUpdates, FinishActions, FailClosedActions DEF Recover
<1>7. CASE DrainSegment
  <2>1. CASE DrainGateFails
    <3>1. Head(queue) \in Ops
      BY <2>1 DEF DrainGateFails, HeadReady, IInv, TypeOK
    <3>2. QED
      BY <1>1, <2>1, <3>1, FailClosedActions
  <2>2. CASE DrainStops \/ DrainDefers
    BY <1>1, <2>2, QuietActions
  <2>3. ASSUME NEW o \in Ops, Start(o) \/ StartFails(o) PROVE IInv'
    BY <1>1, <2>3, StartStep, FailClosedActions
  <2>4. QED
    BY <1>7, <2>1, <2>2, <2>3 DEF DrainSegment
<1>8. CASE ResumeRunOperation
  BY <1>1, <1>8, PauseUnknownStep, FinishActions, FailClosedActions DEF ResumeRunOperation
<1>9. CASE Gates
  BY <1>1, <1>9, QuietActions, StartMaintenanceStep DEF Gates
<1>10. CASE ExecutorEnds \/ UNCHANGED vars
  BY <1>1, <1>10, QuietActions
<1>11. QED
  BY <1>2, <1>3, <1>4, <1>5, <1>6, <1>7, <1>8, <1>9, <1>10 DEF Next

\* Every variable stays in its domain, whatever throws and whenever.
THEOREM TypeCorrect == Spec => []TypeOK
<1>1. Init => TypeOK
  BY InitIInv DEF IInv
<1>2. QED
  BY <1>1, TypeStep, PTL DEF Spec

\* The inductive invariant holds in every reachable state.
THEOREM Invariant == Spec => []IInv
BY InitIInv, IInvStep, PTL DEF Spec

\* runOperation, requestPostCommitUnknownPause and the recovery handle never let
\* two operations hold the write right.
THEOREM WriteRightHasOneHolder == Spec => []OneWriter
<1>1. IInv => OneWriter
  BY DEF IInv
<1>2. QED
  BY <1>1, Invariant, PTL

\* The start gate and acquireReadObservationLease exclude each other.
THEOREM ReadersAndWritersExclude == Spec => []ReadersExcludeWriters
<1>1. IInv => ReadersExcludeWriters
  BY DEF IInv
<1>2. QED
  BY <1>1, Invariant, PTL

\* Whoever holds the right to write or to observe, runOperation, the recovery
\* handle and the start gate keep everybody else out.
THEOREM WriteRightExclusion == Spec => []WriteRightIsExclusive
<1>1. IInv => WriteRightIsExclusive
  BY DEF IInv, WriteRightIsExclusive
<1>2. QED
  BY <1>1, Invariant, PTL

\* The lifecycle notifications keep writer-quiescence in step with the queue.
THEOREM QuiescenceIsExact == Spec => []QuiescenceMirrorsCoordinator
<1>1. IInv => QuiescenceMirrorsCoordinator
  BY DEF IInv
<1>2. QED
  BY <1>1, Invariant, PTL

\* finalizeUnknown ends all writing, although finalizeRecoveredBusinessResult
\* can lift a fence.
THEOREM UnknownStopsWriting == Spec => []UnknownEffectIsFinal
<1>1. IInv => UnknownEffectIsFinal
  BY DEF IInv
<1>2. QED
  BY <1>1, Invariant, PTL

\* A promise that resolves was settled or recovered as persisted.
THEOREM OnlyPersistedResolves == Spec => []ResolvedMeansPersisted
<1>1. IInv => ResolvedMeansPersisted
  BY DEF IInv
<1>2. QED
  BY <1>1, Invariant, PTL

\* splice, shift and push lose no operation and keep arrival order.
THEOREM FifoLosesNobody == Spec => []FifoIntegrity
<1>1. IInv => FifoIntegrity
  BY DEF IInv
<1>2. QED
  BY <1>1, Invariant, PTL
-----------------------------------------------------------------------------
(* Action properties *)

\* The write right only passes to NoOp, or to the operation that Start starts.
LEMMA CurrentChanges ==
    ASSUME IInv, [Next]_vars
    PROVE  current' \in {current, NoOp} \/ \E o \in Ops : Start(o) /\ current' = o
<1> USE DEF coordinatorVars, drainVars, gateVars
<1>1. CASE SettlementLoop
  BY <1>1 DEF SettlementLoop, SettleReady, SettleReadyCleanupFails,
              SettleReadyHookFails, SettleReadyDone
<1>2. ASSUME NEW o \in Ops, Register(o) \/ RegisterFails(o)
      PROVE  current' \in {current, NoOp}
  BY <1>2 DEF Register, RegisterFails, FailClosed
<1>3. ASSUME NEW o \in Ops, Decide(o) PROVE current' \in {current, NoOp}
  BY <1>3 DEF Decide, Activate, ActivateFails, RejectBeforeStart,
     RejectBeforeStartFails, RejectTooLate, SettleCanceled, SettleCanceledHookFails,
     SettleCanceledCleanupFails, SettleCanceledTooLate, FailClosed
<1>4. ASSUME NEW o \in Ops, ExecutorCalls(o) \/ Recover(o)
      PROVE  current' \in {current, NoOp}
  BY <1>4 DEF ExecutorCalls, Recover, Settle, RequestPause, Adopt, RecoverPersisted,
     RecoverPersistedFails, RecoverFailClosed, FinalizeUnknown, FailClosed
<1>5. CASE DrainSegment
  BY <1>5 DEF DrainSegment, DrainStops, DrainDefers, DrainGateFails, Start, StartFails,
              FailClosed
<1>6. CASE ResumeRunOperation
  BY <1>6 DEF ResumeRunOperation, PauseUnknown, FinishKnown, FinishKnownFails,
              FinishUnknown, FinalizeUnknown, FailClosed
<1>7. CASE Gates \/ ExecutorEnds \/ UNCHANGED vars
  BY <1>7 DEF Gates, AcquireReadLease, ReleaseReadLease, Hold, Release, DeliverWake,
              StartMaintenance, ExecutorEnds, vars
<1>8. QED
  BY <1>1, <1>2, <1>3, <1>4, <1>5, <1>6, <1>7 DEF Next

LEMMA StartOrder ==
    ASSUME IInv, NEW o \in Ops, Start(o), NEW p \in Ops, p # o,
           Registered(p), ~op[p].finalized
    PROVE  op[o].sequence < op[p].sequence
<1>1. queue \in Seq(Ops) /\ queue # << >> /\ o = Head(queue)
  BY DEF IInv, TypeOK, Start, HeadReady
<1>2. 1 \in 1..Len(queue) /\ o = queue[1]
  BY <1>1
<1>3. current = NoOp
  BY TurnIsFree DEF Start
<1>4. Queued(p)
  BY <1>3, NoOpAssumption DEF IInv, FifoIntegrity
<1>5. PICK j \in 1..Len(queue) : queue[j] = p
  BY <1>1, <1>4, ToSetIndex DEF Queued
<1>6. 1 < j /\ j \in DOMAIN queue /\ 1 \in DOMAIN queue
  BY <1>1, <1>2, <1>5
<1>7. QED
  BY <1>2, <1>5, <1>6 DEF IInv, FifoIntegrity

\* Whatever throws, is paused or is taken out of the FIFO, drain starts
\* operations in registration order.
THEOREM FirstComeFirstServed == Spec => StartsInOrder
<1> DEFINE Order == \A o, p \in Ops :
        ~op[o].active /\ op'[o].active /\ Registered(p) /\ ~op[p].finalized /\ p # o
            => op[o].sequence < op[p].sequence
<1>1. IInv /\ IInv' /\ [Next]_vars => [Order]_vars
  <2> SUFFICES ASSUME IInv, IInv', [Next]_vars,
                      NEW o \in Ops, NEW p \in Ops,
                      ~op[o].active, op'[o].active, Registered(p), ~op[p].finalized, p # o
               PROVE  op[o].sequence < op[p].sequence
    OBVIOUS
  <2>1. current' = o /\ current # o /\ o # NoOp
    BY NoOpAssumption DEF IInv, OneWriter
  <2>2. Start(o)
    BY <2>1, CurrentChanges
  <2>3. QED
    BY <2>2, StartOrder
<1>2. QED
  BY <1>1, Invariant, PTL DEF Spec, StartsInOrder

\* A final operation has left the FIFO and does not hold the write right.
LEMMA FinalFacts ==
    ASSUME IInv, NEW x \in Ops, op[x].finalized
    PROVE  ~Queued(x) /\ current # x /\ op[x].validation # "ABSENT" /\ ~op[x].active
BY DEF IInv, FifoIntegrity, UnregisteredOperations, Registered, OneWriter

LEMMA FailClosedKeepsFinal ==
    ASSUME IInv, NEW x \in Ops, op[x].finalized,
           NEW o \in Ops, NEW r, NEW mark, FailClosed(o, r, mark),
           r.finalized = op[o].finalized, r.outcome = op[o].outcome
    PROVE  op'[x].finalized /\ op'[x].outcome = op[x].outcome
<1>1. ~Queued(x)
  BY FinalFacts
<1>2. op'[x] = IF x = o THEN IF r.finalized THEN r ELSE Terminate(r, "REJECTED") ELSE op[x]
  BY <1>1 DEF FailClosed
<1>3. QED
  BY <1>2

LEMMA UpdateKeepsFinal ==
    ASSUME IInv, NEW x \in Ops, op[x].finalized, NEW o \in Ops, NEW r,
           op' = [op EXCEPT ![o] = r],
           op[o].finalized => r.finalized /\ r.outcome = op[o].outcome
    PROVE  op'[x].finalized /\ op'[x].outcome = op[x].outcome
BY DEF IInv, TypeOK

LEMMA FinalStays ==
    ASSUME IInv, [Next]_vars, NEW x \in Ops, op[x].finalized
    PROVE  op'[x].finalized /\ op'[x].outcome = op[x].outcome
<1> USE DEF coordinatorVars, drainVars, gateVars
<1>a. \A o \in Ops : op[o] \in Operation
  BY DEF IInv, TypeOK
<1>b. queue \in Seq(Ops) /\ \A i \in DOMAIN queue : queue[i] \in Ops /\ ~op[queue[i]].finalized
  <2>1. queue \in Seq(Ops)
    BY DEF IInv, TypeOK
  <2>2. \A i \in 1..Len(queue) : queue[i] \in Ops /\ Queued(queue[i])
    BY <2>1, ToSetIndex DEF Queued
  <2>3. QED
    BY <2>1, <2>2 DEF IInv, FifoIntegrity
<1>c. ASSUME NEW i \in DOMAIN queue, NEW r, LeaveQueue(i, r) \/ LeaveQueueUnpublished(i, r)
      PROVE  op'[x] = op[x]
  BY <1>b, <1>c DEF LeaveQueue, LeaveQueueUnpublished, IInv, TypeOK
<1>1. CASE SettlementLoop
  <2>1. CASE SettleReady \/ SettleReadyHookFails
    BY <2>1, <1>c DEF SettleReady, SettleReadyHookFails
  <2>2. QED
    BY <1>1, <2>1 DEF SettlementLoop, SettleReadyCleanupFails, SettleReadyDone
<1>2. ASSUME NEW o \in Ops, Register(o) \/ RegisterFails(o)
      PROVE  op'[x].finalized /\ op'[x].outcome = op[x].outcome
  <2>1. op[o].validation = "ABSENT" /\ ~op[o].finalized
    BY <1>2, FinalFacts DEF Register, RegisterFails, Arrives
  <2>2. CASE Register(o)
    BY <2>1, <2>2, UpdateKeepsFinal DEF Register
  <2>3. CASE RegisterFails(o)
    <3> DEFINE r == [op[o] EXCEPT !.validation = "WAITING_VALIDATION", !.decided = TRUE,
                                  !.sequence = nextSequence]
    <3>1. r.finalized = op[o].finalized /\ r.outcome = op[o].outcome
      BY <1>a DEF Operation
    <3>2. FailClosed(o, r, "BLOCKED")
      BY <2>3 DEF RegisterFails
    <3> HIDE DEF r
    <3>3. QED
      BY <3>1, <3>2, FailClosedKeepsFinal
  <2>4. QED
    BY <1>2, <2>2, <2>3
<1>3. ASSUME NEW o \in Ops, Decide(o)
      PROVE  op'[x].finalized /\ op'[x].outcome = op[x].outcome
  <2>1. \A r \in {Activated(o), Declined(o), Canceled(o)} :
           r.finalized = op[o].finalized /\ r.outcome = op[o].outcome
    BY <1>a, ZenonT(60) DEF Activated, Declined, Canceled, Operation
  <2>2. CASE RejectBeforeStart(o) \/ SettleCanceled(o) \/ SettleCanceledHookFails(o)
                \/ SettleCanceledCleanupFails(o)
    <3>1. PICK i \in DOMAIN queue :
            \E r : LeaveQueue(i, r) \/ LeaveQueueUnpublished(i, r)
      BY <2>2 DEF RejectBeforeStart, SettleCanceled, SettleCanceledHookFails,
                  SettleCanceledCleanupFails
    <3>2. QED
      BY <3>1, <1>c
  <2>3. CASE ActivateFails(o)
    BY <2>1, <2>3, FailClosedKeepsFinal DEF ActivateFails
  <2>4. CASE RejectBeforeStartFails(o)
    BY <2>1, <2>4, FailClosedKeepsFinal DEF RejectBeforeStartFails
  <2>5. CASE Activate(o)
    BY <2>1, <2>5, UpdateKeepsFinal DEF Activate
  <2>6. CASE RejectTooLate(o)
    BY <2>1, <2>6, UpdateKeepsFinal DEF RejectTooLate
  <2>7. CASE SettleCanceledTooLate(o)
    BY <2>1, <2>7, UpdateKeepsFinal DEF SettleCanceledTooLate
  <2>8. QED
    BY <1>3, <2>2, <2>3, <2>4, <2>5, <2>6, <2>7 DEF Decide
<1>4. ASSUME NEW o \in Ops, op[o].active \/ current = o PROVE ~op[o].finalized
  BY <1>4, FinalFacts
<1>5. ASSUME NEW o \in Ops, ExecutorCalls(o)
      PROVE  op'[x].finalized /\ op'[x].outcome = op[x].outcome
  <2>1. op[o].active /\ \E r : op' = [op EXCEPT ![o] = r]
    BY <1>5 DEF ExecutorCalls, Settle, RequestPause, IsCurrent
  <2>2. QED
    BY <2>1, <1>4, UpdateKeepsFinal
<1>6. ASSUME NEW o \in Ops, Recover(o)
      PROVE  op'[x].finalized /\ op'[x].outcome = op[x].outcome
  <2>1. CASE Adopt(o) \/ RecoverPersisted(o)
    <3>1. op[o].active /\ \E r : op' = [op EXCEPT ![o] = r]
      BY <2>1 DEF Adopt, RecoverPersisted, Recoverable, IsCurrent
    <3>2. QED
      BY <3>1, <1>4, UpdateKeepsFinal
  <2>2. CASE RecoverPersistedFails(o) \/ RecoverFailClosed(o)
    BY <2>2, FailClosedKeepsFinal DEF RecoverPersistedFails, RecoverFailClosed, FinalizeUnknown
  <2>3. QED
    BY <1>6, <2>1, <2>2 DEF Recover
<1>7. CASE DrainSegment
  <2>1. CASE DrainGateFails
    <3>1. Head(queue) \in Ops
      BY <2>1, <1>b DEF DrainGateFails, HeadReady
    <3>2. QED
      BY <2>1, <3>1, FailClosedKeepsFinal DEF DrainGateFails
  <2>2. ASSUME NEW o \in Ops, StartFails(o)
        PROVE  op'[x].finalized /\ op'[x].outcome = op[x].outcome
    BY <2>2, FailClosedKeepsFinal DEF StartFails
  <2>3. ASSUME NEW o \in Ops, Start(o)
        PROVE  op'[x].finalized /\ op'[x].outcome = op[x].outcome
    <3>1. ~op[o].finalized
      BY <2>3, <1>b DEF Start, HeadReady
    <3>2. op' = [op EXCEPT ![o] = [op[o] EXCEPT !.active = TRUE]]
      BY <2>3 DEF Start
    <3>3. QED
      BY <3>1, <3>2, UpdateKeepsFinal
  <2>4. CASE DrainStops \/ DrainDefers
    BY <2>4 DEF DrainStops, DrainDefers
  <2>5. QED
    BY <1>7, <2>1, <2>2, <2>3, <2>4 DEF DrainSegment
<1>8. CASE ResumeRunOperation
  <2>1. ASSUME NEW o \in Ops, PauseUnknown(o) \/ FinishKnown(o)
        PROVE  op'[x].finalized /\ op'[x].outcome = op[x].outcome
    <3>1. current = o /\ \E r : op' = [op EXCEPT ![o] = r]
      BY <2>1 DEF PauseUnknown, FinishKnown, Resumes
    <3>2. QED
      BY <3>1, <1>4, UpdateKeepsFinal
  <2>2. ASSUME NEW o \in Ops, FinishKnownFails(o) \/ FinishUnknown(o)
        PROVE  op'[x].finalized /\ op'[x].outcome = op[x].outcome
    BY <2>2, FailClosedKeepsFinal DEF FinishKnownFails, FinishUnknown, FinalizeUnknown
  <2>3. QED
    BY <1>8, <2>1, <2>2 DEF ResumeRunOperation
<1>9. CASE Gates
  <2>1. CASE StartMaintenance
    <3>1. ~Queued(x)
      BY FinalFacts
    <3>2. QED
      BY <2>1, <3>1 DEF StartMaintenance
  <2>2. QED
    BY <1>9, <2>1 DEF Gates, AcquireReadLease, ReleaseReadLease, Hold, Release, DeliverWake
<1>10. CASE ExecutorEnds \/ UNCHANGED vars
  BY <1>10 DEF ExecutorEnds, vars
<1>11. QED
  BY <1>1, <1>2, <1>3, <1>5, <1>6, <1>7, <1>8, <1>9, <1>10 DEF Next

\* The `finalized' guards keep a settled promise settled and a final operation
\* inactive, whatever order the hooks, the executor and the recovery handle run in.
THEOREM SettledOnceForAll == Spec => SettledForGood
<1> DEFINE Keep == \A o \in Ops : op[o].finalized =>
        /\ op'[o].finalized /\ ~op'[o].active
        /\ op'[o].outcome = op[o].outcome
<1>1. IInv /\ IInv' /\ [Next]_vars => [Keep]_vars
  <2> SUFFICES ASSUME IInv, IInv', [Next]_vars, NEW o \in Ops, op[o].finalized
               PROVE  /\ op'[o].finalized /\ ~op'[o].active
                      /\ op'[o].outcome = op[o].outcome
    OBVIOUS
  <2>1. op'[o].finalized /\ op'[o].outcome = op[o].outcome
    BY FinalStays
  <2>2. ~op'[o].active
    BY <2>1 DEF IInv, FifoIntegrity, OneWriter
  <2>3. QED
    BY <2>1, <2>2
<1>2. QED
  BY <1>1, Invariant, PTL DEF Spec, SettledForGood
=============================================================================
