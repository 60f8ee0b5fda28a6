----------------------- MODULE OperationRegistryProofs -----------------------
(***************************************************************************)
(* Proofs about OperationRegistry for every set of keys, results, evidence *)
(* and reservations and every capacity.                                    *)
(***************************************************************************)
EXTENDS OperationRegistry, SequenceTheorems, FiniteSetTheorems, TLAPS

\* The four parts of the invariant that concern one key, as predicates of its
\* entry e, leases l, permits p and replays r.
Leases(e, l) ==
    /\ \A i \in DOMAIN l : l[i].active =>
          /\ l[i].generation = e.generation
          /\ e.state = IF l[i].kind = "EXECUTION" THEN "IN_FLIGHT" ELSE "UNKNOWN"
          /\ \A j \in DOMAIN l : l[j].active => i = j
    /\ e.state \in {"IN_FLIGHT", "UNKNOWN"} => \E i \in DOMAIN l : l[i].active

Permits(e, p) ==
    /\ \A g \in 1..(e.generation - 1) :
          \E i \in DOMAIN p : p[i].generation = g /\ ~p[i].active
    /\ \A i, j \in DOMAIN p : i < j => p[i].generation < p[j].generation
    /\ \A i \in DOMAIN p : p[i].generation <= e.generation
    /\ e.authorized =>
          /\ e.state = "UNKNOWN"
          /\ \E i \in DOMAIN p : p[i].generation = e.generation

\* The permit of the current generation can only have been issued to an entry
\* that is still authorized, or has ended since.
PermitIsAuthorization(e, p) ==
    \A i \in DOMAIN p : p[i].generation = e.generation =>
        e.authorized \/ e.state \in Terminal

Replays(e, r) ==
    \A answer \in r :
        /\ e.state \in Terminal
        /\ answer.result = e.result
        /\ answer.artifact = e.artifact

\* Nothing hangs on a key that was never registered.
Untouched(e, l, p, r) ==
    e.state = "ABSENT" => l = << >> /\ p = << >> /\ r = {}

\* An answered key has a result.
Answered(e) == e.state \in Terminal => e.result \in Results

KeyInv(e, l, p, r) ==
    /\ Leases(e, l)
    /\ Answered(e)
    /\ Permits(e, p)
    /\ PermitIsAuthorization(e, p)
    /\ Replays(e, r)
    /\ Untouched(e, l, p, r)

PresentKeys == {k \in Keys : Present(k)}

HeldReservations == {v \in Reservations : reservation[v] = "ACTIVE"}

IInv ==
    /\ TypeOK
    /\ \A k \in Keys : KeyInv(entry[k], lease[k], permit[k], replayed[k])
    /\ IsFiniteSet(PresentKeys) /\ IsFiniteSet(HeldReservations)
    /\ CapacityHolds

-----------------------------------------------------------------------------
(* What an operation does to one key *)

\* addEntry
LEMMA AddEntryKey ==
    ASSUME NEW e \in Entry, NEW l \in Seq(LeaseState), NEW p \in Seq(PermitState),
           NEW r \in SUBSET Replay, KeyInv(e, l, p, r), e.state = "ABSENT",
           NEW artifact \in Artifacts
    PROVE  LET f == [state |-> "IN_FLIGHT", generation |-> 1, artifact |-> artifact,
                     result |-> NoResult, authorized |-> FALSE]
               m == Append(l, Mint("EXECUTION", 1))
           IN  f \in Entry /\ m \in Seq(LeaseState) /\ KeyInv(f, m, p, r)
<1> DEFINE f == [state |-> "IN_FLIGHT", generation |-> 1, artifact |-> artifact,
                 result |-> NoResult, authorized |-> FALSE]
           n == Mint("EXECUTION", 1)
<1>1. f \in Entry /\ n \in LeaseState
  BY DEF Entry, LeaseState, Mint
<1>2. l = << >> /\ p = << >> /\ r = {}
  BY DEF KeyInv, Untouched
<1>3. n.active /\ n.generation = 1 /\ n.kind = "EXECUTION"
  BY DEF Mint
<1>4. f.state = "IN_FLIGHT" /\ f.generation = 1 /\ ~f.authorized
  OBVIOUS
<1> HIDE DEF f, n
<1>5. /\ Append(l, n) \in Seq(LeaseState) /\ DOMAIN Append(l, n) = {1}
      /\ Append(l, n)[1] = n
  BY <1>1, <1>2
<1>6. DOMAIN p = {} /\ 1..(f.generation - 1) = {}
  BY <1>2, <1>4
<1>7. Leases(f, Append(l, n))
  BY <1>3, <1>4, <1>5 DEF Leases
<1>8. Permits(f, p) /\ PermitIsAuthorization(f, p)
  BY <1>4, <1>6 DEF Permits, PermitIsAuthorization
<1>9. Replays(f, r) /\ Untouched(f, Append(l, n), p, r) /\ Answered(f)
  BY <1>2, <1>4 DEF Replays, Untouched, Answered, Terminal
<1>10. QED
  BY <1>1, <1>5, <1>7, <1>8, <1>9 DEF KeyInv, f, n

\* A spent lease is inactive, the others are as they were.
LEMMA SpendLease ==
    ASSUME NEW l \in Seq(LeaseState), NEW i \in DOMAIN l
    PROVE  /\ Spend(l, i) \in Seq(LeaseState)
           /\ DOMAIN Spend(l, i) = DOMAIN l /\ Len(Spend(l, i)) = Len(l)
           /\ ~Spend(l, i)[i].active
           /\ \A j \in DOMAIN l : j # i => Spend(l, i)[j] = l[j]
<1> DEFINE t == [l[i] EXCEPT !.active = FALSE]
<1>1. l[i] \in LeaseState /\ i \in 1..Len(l)
  OBVIOUS
<1>2. t \in LeaseState /\ ~t.active /\ t.generation = l[i].generation
  BY <1>1 DEF LeaseState
<1>3. Spend(l, i) = [l EXCEPT ![i] = t]
  BY DEF Spend
<1> HIDE DEF t
<1>4. QED
  BY <1>1, <1>2, <1>3, ExceptSeq

LEMMA SpendPermit ==
    ASSUME NEW p \in Seq(PermitState), NEW i \in DOMAIN p
    PROVE  /\ Spend(p, i) \in Seq(PermitState)
           /\ DOMAIN Spend(p, i) = DOMAIN p /\ Len(Spend(p, i)) = Len(p)
           /\ ~Spend(p, i)[i].active
           /\ \A j \in DOMAIN p : /\ Spend(p, i)[j].generation = p[j].generation
                                  /\ ~p[j].active => ~Spend(p, i)[j].active
<1> DEFINE t == [p[i] EXCEPT !.active = FALSE]
<1>1. p[i] \in PermitState /\ i \in 1..Len(p)
  OBVIOUS
<1>2. t \in PermitState /\ ~t.active /\ t.generation = p[i].generation
  BY <1>1 DEF PermitState
<1>3. Spend(p, i) = [p EXCEPT ![i] = t]
  BY DEF Spend
<1> HIDE DEF t
<1>4. QED
  BY <1>1, <1>2, <1>3, ExceptSeq

\* Spending the active lease and minting its successor leaves one active lease.
LEMMA SuccessorLease ==
    ASSUME NEW e \in Entry, NEW l \in Seq(LeaseState), Leases(e, l),
           NEW i \in DOMAIN l, l[i].active,
           NEW f \in Entry, NEW n \in LeaseState, n.active, n.generation = f.generation,
           f.state = IF n.kind = "EXECUTION" THEN "IN_FLIGHT" ELSE "UNKNOWN"
    PROVE  /\ Append(Spend(l, i), n) \in Seq(LeaseState)
           /\ Leases(f, Append(Spend(l, i), n))
<1> DEFINE s == Spend(l, i)
           m == Append(s, n)
<1>1. /\ s \in Seq(LeaseState) /\ DOMAIN s = DOMAIN l
      /\ ~s[i].active /\ \A j \in DOMAIN l : j # i => s[j] = l[j]
  BY SpendLease
<1>2. \A j \in DOMAIN s : ~s[j].active
  BY <1>1 DEF Leases
<1> HIDE DEF s
<1>3. /\ m \in Seq(LeaseState) /\ Len(s) \in Nat /\ DOMAIN m = 1..(Len(s) + 1)
      /\ DOMAIN s = 1..Len(s)
      /\ \A j \in 1..Len(s) : m[j] = s[j]
      /\ m[Len(s) + 1] = n
  BY <1>1, AppendProperties
<1> HIDE DEF m
<1>4. \A j \in DOMAIN m : m[j].active => j = Len(s) + 1
  BY <1>2, <1>3
<1>5. Len(s) + 1 \in DOMAIN m
  BY <1>3
<1>6. Leases(f, m)
  BY <1>3, <1>4, <1>5 DEF Leases
<1>7. QED
  BY <1>3, <1>6 DEF m, s

\* markUnknown
LEMMA MarkUnknownKey ==
    ASSUME NEW e \in Entry, NEW l \in Seq(LeaseState), NEW p \in Seq(PermitState),
           NEW r \in SUBSET Replay, KeyInv(e, l, p, r), e.state = "IN_FLIGHT",
           NEW i \in DOMAIN l, l[i].active
    PROVE  LET f == [e EXCEPT !.state = "UNKNOWN", !.authorized = FALSE]
               m == Append(Spend(l, i), Mint("CONFIRMATION", e.generation))
           IN  f \in Entry /\ m \in Seq(LeaseState) /\ KeyInv(f, m, p, r)
<1> DEFINE f == [e EXCEPT !.state = "UNKNOWN", !.authorized = FALSE]
           n == Mint("CONFIRMATION", e.generation)
           m == Append(Spend(l, i), n)
<1>1. /\ f \in Entry /\ f.state = "UNKNOWN" /\ ~f.authorized
      /\ f.generation = e.generation
      /\ n \in LeaseState /\ n.active /\ n.generation = f.generation
      /\ n.kind = "CONFIRMATION"
  BY DEF Entry, LeaseState, Mint
<1> HIDE DEF f, n
<1>2. m \in Seq(LeaseState) /\ Leases(f, m)
  BY <1>1, SuccessorLease DEF KeyInv
<1>3. Permits(f, p)
  BY <1>1 DEF KeyInv, Permits
<1>4. PermitIsAuthorization(f, p)
  BY <1>1 DEF KeyInv, Permits, PermitIsAuthorization, Terminal
<1>5. Replays(f, r) /\ Untouched(f, m, p, r) /\ Answered(f)
  BY <1>1 DEF KeyInv, Replays, Untouched, Answered, Terminal
<1>6. QED
  BY <1>1, <1>2, <1>3, <1>4, <1>5 DEF KeyInv, f, n

\* finishTerminal
LEMMA CompleteKey ==
    ASSUME NEW e \in Entry, NEW l \in Seq(LeaseState), NEW p \in Seq(PermitState),
           NEW r \in SUBSET Replay, KeyInv(e, l, p, r),
           e.state \in {"IN_FLIGHT", "UNKNOWN"},
           NEW i \in DOMAIN l, l[i].active,
           NEW state \in Terminal, NEW result \in Results
    PROVE  LET f == [e EXCEPT !.state = state, !.result = result, !.authorized = FALSE]
               m == Spend(l, i)
           IN  f \in Entry /\ m \in Seq(LeaseState) /\ KeyInv(f, m, p, r)
<1> DEFINE f == [e EXCEPT !.state = state, !.result = result, !.authorized = FALSE]
           m == Spend(l, i)
<1>1. /\ f \in Entry /\ f.state \in Terminal /\ ~f.authorized
      /\ f.generation = e.generation /\ f.result \in Results
  BY DEF Entry, Terminal
<1>2. /\ m \in Seq(LeaseState) /\ DOMAIN m = DOMAIN l
      /\ ~m[i].active /\ \A j \in DOMAIN l : j # i => m[j] = l[j]
  BY SpendLease
<1> HIDE DEF f, m
<1>3. \A j \in DOMAIN m : ~m[j].active
  BY <1>2 DEF KeyInv, Leases
<1>4. Leases(f, m)
  BY <1>1, <1>3 DEF Leases, Terminal
<1>5. Permits(f, p) /\ PermitIsAuthorization(f, p)
  BY <1>1 DEF KeyInv, Permits, PermitIsAuthorization
<1>6. r = {}
  BY DEF KeyInv, Replays, Terminal
<1>7. Replays(f, r) /\ Untouched(f, m, p, r) /\ Answered(f)
  BY <1>1, <1>6 DEF Replays, Untouched, Answered, Terminal
<1>8. QED
  BY <1>1, <1>2, <1>4, <1>5, <1>7 DEF KeyInv, f, m
\* authorizeContinuation
LEMMA AuthorizeKey ==
    ASSUME NEW e \in Entry, NEW l \in Seq(LeaseState), NEW p \in Seq(PermitState),
           NEW r \in SUBSET Replay, KeyInv(e, l, p, r),
           e.state = "UNKNOWN", ~e.authorized
    PROVE  LET f == [e EXCEPT !.authorized = TRUE]
               q == Append(p, [generation |-> e.generation, active |-> TRUE])
           IN  f \in Entry /\ q \in Seq(PermitState) /\ KeyInv(f, l, q, r)
<1> DEFINE f == [e EXCEPT !.authorized = TRUE]
           n == [generation |-> e.generation, active |-> TRUE]
           q == Append(p, n)
<1>1. /\ f \in Entry /\ f.authorized /\ f.state = "UNKNOWN"
      /\ f.generation = e.generation /\ f.generation \in Nat
  BY DEF Entry
<1>2. n \in PermitState /\ n.generation = f.generation
  BY <1>1 DEF PermitState, Entry
<1> HIDE DEF f, n
<1>3. /\ q \in Seq(PermitState) /\ Len(p) \in Nat /\ DOMAIN q = 1..(Len(p) + 1)
      /\ DOMAIN p = 1..Len(p)
      /\ \A j \in 1..Len(p) : q[j] = p[j]
      /\ q[Len(p) + 1] = n
  BY <1>2, AppendProperties
<1> HIDE DEF q
<1>4. \A j \in 1..Len(p) : /\ p[j].generation \in Nat
                           /\ p[j].generation < f.generation
  <2>1. \A j \in 1..Len(p) : p[j] \in PermitState
    BY <1>3
  <2>2. \A j \in 1..Len(p) : p[j].generation \in Nat
    BY <2>1 DEF PermitState
  <2>3. \A j \in 1..Len(p) :
          p[j].generation <= f.generation /\ p[j].generation # f.generation
    BY <1>1, <1>3 DEF KeyInv, Permits, PermitIsAuthorization, Terminal
  <2>4. QED
    BY <1>1, <2>2, <2>3
<1>5. Permits(f, q)
  <2>1. ASSUME NEW g \in 1..(f.generation - 1)
        PROVE  \E i \in DOMAIN q : q[i].generation = g /\ ~q[i].active
    <3>1. PICK i \in DOMAIN p : p[i].generation = g /\ ~p[i].active
      BY <1>1 DEF KeyInv, Permits
    <3>2. i \in DOMAIN q /\ q[i] = p[i]
      BY <1>3
    <3>3. QED
      BY <3>1, <3>2
  <2>2. \A i, j \in DOMAIN q : i < j => q[i].generation < q[j].generation
    <3>1. \A i, j \in 1..Len(p) : i < j => p[i].generation < p[j].generation
      BY <1>3 DEF KeyInv, Permits
    <3>2. QED
      BY <1>2, <1>3, <1>4, <3>1
  <2>3. \A i \in DOMAIN q : q[i].generation <= f.generation
    BY <1>1, <1>2, <1>3, <1>4
  <2>4. \E i \in DOMAIN q : q[i].generation = f.generation
    BY <1>2, <1>3
  <2>5. QED
    BY <1>1, <2>1, <2>2, <2>3, <2>4 DEF Permits
<1>6. Leases(f, l)
  BY <1>1 DEF KeyInv, Leases
<1>7. /\ PermitIsAuthorization(f, q) /\ Replays(f, r) /\ Untouched(f, l, q, r)
      /\ Answered(f)
  BY <1>1 DEF KeyInv, PermitIsAuthorization, Replays, Untouched, Answered, Terminal
<1>8. QED
  BY <1>1, <1>3, <1>5, <1>6, <1>7 DEF KeyInv, f, q, n

\* Spending a permit of an earlier generation, or of an entry other than the one
\* it was presented for.
LEMMA SpendPermitKey ==
    ASSUME NEW e \in Entry, NEW l \in Seq(LeaseState), NEW p \in Seq(PermitState),
           NEW r \in SUBSET Replay, KeyInv(e, l, p, r), NEW i \in DOMAIN p
    PROVE  Spend(p, i) \in Seq(PermitState) /\ KeyInv(e, l, Spend(p, i), r)
<1> DEFINE q == Spend(p, i)
<1>1. /\ q \in Seq(PermitState) /\ DOMAIN q = DOMAIN p
      /\ \A j \in DOMAIN p : /\ q[j].generation = p[j].generation
                             /\ ~p[j].active => ~q[j].active
  BY SpendPermit
<1>2. p # << >>
  OBVIOUS
<1> HIDE DEF q
<1>3. Permits(e, q) /\ PermitIsAuthorization(e, q)
  BY <1>1 DEF KeyInv, Permits, PermitIsAuthorization
<1>4. Untouched(e, l, q, r)
  BY <1>2 DEF KeyInv, Untouched
<1>5. QED
  BY <1>1, <1>3, <1>4 DEF KeyInv, q

\* resumeUnknown
LEMMA ResumeKey ==
    ASSUME NEW e \in Entry, NEW l \in Seq(LeaseState), NEW p \in Seq(PermitState),
           NEW r \in SUBSET Replay, KeyInv(e, l, p, r), e.state = "UNKNOWN",
           NEW i \in DOMAIN l, l[i].active,
           NEW j \in DOMAIN p, p[j].generation = e.generation
    PROVE  LET f == [e EXCEPT !.state = "IN_FLIGHT", !.generation = e.generation + 1,
                              !.authorized = FALSE]
               m == Append(Spend(l, i), Mint("EXECUTION", e.generation + 1))
               q == Spend(p, j)
           IN  /\ f \in Entry /\ m \in Seq(LeaseState) /\ q \in Seq(PermitState)
               /\ KeyInv(f, m, q, r)
<1> DEFINE f == [e EXCEPT !.state = "IN_FLIGHT", !.generation = e.generation + 1,
                          !.authorized = FALSE]
           n == Mint("EXECUTION", e.generation + 1)
           m == Append(Spend(l, i), n)
           q == Spend(p, j)
<1>1. /\ f \in Entry /\ f.state = "IN_FLIGHT" /\ ~f.authorized
      /\ f.generation = e.generation + 1 /\ e.generation \in Nat
      /\ n \in LeaseState /\ n.active /\ n.generation = f.generation
      /\ n.kind = "EXECUTION"
  <2>1. e.generation \in Nat /\ e.generation + 1 \in Nat
    BY DEF Entry
  <2>2. /\ n \in LeaseState /\ n.active /\ n.generation = e.generation + 1
        /\ n.kind = "EXECUTION"
    BY <2>1 DEF LeaseState, Mint
  <2>3. /\ f \in Entry /\ f.state = "IN_FLIGHT" /\ ~f.authorized
        /\ f.generation = e.generation + 1
    BY <2>1 DEF Entry
  <2>4. QED
    BY <2>1, <2>2, <2>3
<1> HIDE DEF f, n
<1>2. m \in Seq(LeaseState) /\ Leases(f, m)
  BY <1>1, SuccessorLease DEF KeyInv
<1>3. /\ q \in Seq(PermitState) /\ DOMAIN q = DOMAIN p
      /\ ~q[j].active
      /\ \A x \in DOMAIN p : /\ q[x].generation = p[x].generation
                             /\ ~p[x].active => ~q[x].active
  BY SpendPermit
<1> HIDE DEF q, m
<1>4. \A x \in DOMAIN q : q[x].generation \in Nat /\ q[x].generation <= e.generation
  <2>1. \A x \in DOMAIN q : q[x] \in PermitState
    BY <1>3
  <2>2. QED
    BY <1>3, <2>1 DEF KeyInv, Permits, PermitState
<1>5. Permits(f, q)
  <2>1. ASSUME NEW g \in 1..(f.generation - 1)
        PROVE  \E x \in DOMAIN q : q[x].generation = g /\ ~q[x].active
    <3>1. CASE g = e.generation
      BY <1>3, <3>1
    <3>2. CASE g # e.generation
      <4>1. g \in 1..(e.generation - 1)
        BY <1>1, <2>1, <3>2
      <4>2. QED
        BY <1>3, <4>1 DEF KeyInv, Permits
    <3>3. QED
      BY <3>1, <3>2
  <2>2. \A x, y \in DOMAIN q : x < y => q[x].generation < q[y].generation
    BY <1>3 DEF KeyInv, Permits
  <2>3. \A x \in DOMAIN q : q[x].generation <= f.generation
    BY <1>1, <1>4
  <2>4. QED
    BY <1>1, <2>1, <2>2, <2>3 DEF Permits
<1>6. PermitIsAuthorization(f, q)
  BY <1>1, <1>4 DEF PermitIsAuthorization
<1>7. Replays(f, r) /\ Untouched(f, m, q, r) /\ Answered(f)
  BY <1>1 DEF KeyInv, Replays, Untouched, Answered, Terminal
<1>8. QED
  BY <1>1, <1>2, <1>3, <1>5, <1>6, <1>7 DEF KeyInv, f, m, q, n

\* existingResult of a terminal entry
LEMMA TellKey ==
    ASSUME NEW e \in Entry, NEW l \in Seq(LeaseState), NEW p \in Seq(PermitState),
           NEW r \in SUBSET Replay, KeyInv(e, l, p, r), e.state \in Terminal
    PROVE  KeyInv(e, l, p, r \cup {[artifact |-> e.artifact, result |-> e.result]})
<1>1. Replays(e, r \cup {[artifact |-> e.artifact, result |-> e.result]})
  BY DEF KeyInv, Replays
<1>2. QED
  BY <1>1 DEF KeyInv, Untouched, Terminal
-----------------------------------------------------------------------------
(* The whole registry *)

LEMMA InitIInv == Init => IInv
<1> SUFFICES ASSUME Init PROVE IInv
  OBVIOUS
<1>1. NoEntry \in Entry
  BY DEF NoEntry, Entry
<1>2. TypeOK
  <2>1. /\ << >> \in Seq(LeaseState) /\ << >> \in Seq(PermitState)
        /\ {} \in SUBSET Replay
    OBVIOUS
  <2>2. /\ entry \in [Keys -> Entry]
        /\ lease \in [Keys -> Seq(LeaseState)] /\ permit \in [Keys -> Seq(PermitState)]
        /\ replayed \in [Keys -> SUBSET Replay]
    BY <1>1, <2>1 DEF Init
  <2>3. QED
    BY <2>2 DEF Init, TypeOK
<1>3. KeyInv(NoEntry, << >>, << >>, {})
  <2>1. /\ NoEntry.state = "ABSENT" /\ NoEntry.generation = 0 /\ ~NoEntry.authorized
    BY DEF NoEntry
  <2>2. 1..(NoEntry.generation - 1) = {}
    BY <2>1
  <2>3. QED
    BY <2>1, <2>2 DEF KeyInv, Leases, Permits, PermitIsAuthorization, Replays, Untouched,
       Answered, Terminal
<1>4. PresentKeys = {} /\ HeldReservations = {}
  BY DEF Init, PresentKeys, HeldReservations, Present, NoEntry
<1>5. CapacityHolds
  <2>1. Cardinality(PresentKeys) = 0 /\ Cardinality(HeldReservations) = 0
    BY <1>4, FS_EmptySet
  <2>2. size = 0 /\ reserved = 0 /\ 0 <= Capacity
    BY CapacityAssumption DEF Init
  <2>3. QED
    BY <2>1, <2>2 DEF CapacityHolds, PresentKeys, HeldReservations
<1>6. QED
  BY <1>2, <1>3, <1>4, <1>5, FS_EmptySet DEF Init, IInv

\* The part of the invariant that does not count.
KeysOK ==
    /\ entry \in [Keys -> Entry]
    /\ lease \in [Keys -> Seq(LeaseState)]
    /\ permit \in [Keys -> Seq(PermitState)]
    /\ replayed \in [Keys -> SUBSET Replay]
    /\ \A k \in Keys : KeyInv(entry[k], lease[k], permit[k], replayed[k])

\* An operation that touches one key keeps it if it keeps it for that key.
LEMMA OneKey ==
    ASSUME IInv, NEW k \in Keys,
           NEW e \in Entry, NEW l \in Seq(LeaseState), NEW p \in Seq(PermitState),
           NEW r \in SUBSET Replay, KeyInv(e, l, p, r),
           entry' = [entry EXCEPT ![k] = e], lease' = [lease EXCEPT ![k] = l],
           permit' = [permit EXCEPT ![k] = p], replayed' = [replayed EXCEPT ![k] = r]
    PROVE  KeysOK'
<1>1. /\ entry' \in [Keys -> Entry] /\ lease' \in [Keys -> Seq(LeaseState)]
      /\ permit' \in [Keys -> Seq(PermitState)]
      /\ replayed' \in [Keys -> SUBSET Replay]
  BY DEF IInv, TypeOK
<1>2. ASSUME NEW x \in Keys
      PROVE  KeyInv(entry'[x], lease'[x], permit'[x], replayed'[x])
  <2>1. CASE x = k
    BY <2>1 DEF IInv, TypeOK
  <2>2. CASE x # k
    <3>1. /\ entry'[x] = entry[x] /\ lease'[x] = lease[x]
          /\ permit'[x] = permit[x] /\ replayed'[x] = replayed[x]
      BY <2>2 DEF IInv, TypeOK
    <3>2. QED
      BY <3>1 DEF IInv
  <2>3. QED
    BY <2>1, <2>2
<1>3. QED
  BY <1>1, <1>2 DEF KeysOK

\* A component that keeps its value is updated with it.
LEMMA SameComponents ==
    ASSUME IInv, NEW k \in Keys
    PROVE  /\ entry = [entry EXCEPT ![k] = entry[k]]
           /\ lease = [lease EXCEPT ![k] = lease[k]]
           /\ permit = [permit EXCEPT ![k] = permit[k]]
           /\ replayed = [replayed EXCEPT ![k] = replayed[k]]
           /\ entry[k] \in Entry /\ lease[k] \in Seq(LeaseState)
           /\ permit[k] \in Seq(PermitState) /\ replayed[k] \in SUBSET Replay
           /\ KeyInv(entry[k], lease[k], permit[k], replayed[k])
BY DEF IInv, TypeOK

\* The counters, when no entry appears and no reservation changes.
LEMMA SamePresence ==
    ASSUME IInv, KeysOK', NEW k \in Keys, NEW e,
           entry' = [entry EXCEPT ![k] = e], e.state = "ABSENT" <=> ~Present(k),
           consumed' \subseteq Evidence, frozen' \in BOOLEAN,
           UNCHANGED <<reservation, size, reserved>>
    PROVE  IInv'
<1>1. PresentKeys' = PresentKeys
  BY DEF IInv, TypeOK, PresentKeys, Present
<1>2. HeldReservations' = HeldReservations
  BY DEF HeldReservations
<1>3. CapacityHolds'
  BY <1>1, <1>2 DEF IInv, CapacityHolds, PresentKeys, HeldReservations
<1>4. TypeOK'
  BY DEF IInv, TypeOK, KeysOK
<1>5. QED
  BY <1>1, <1>2, <1>3, <1>4 DEF IInv, KeysOK

\* The counters, when key k appears and the held reservations are h.
LEMMA NewPresence ==
    ASSUME IInv, NEW k \in Keys, ~Present(k), NEW e,
           entry' = [entry EXCEPT ![k] = e], e.state # "ABSENT", size' = size + 1
    PROVE  /\ IsFiniteSet(PresentKeys') /\ size' = Cardinality(PresentKeys')
           /\ size' \in Nat
<1>1. PresentKeys' = PresentKeys \cup {k} /\ k \notin PresentKeys
  BY DEF IInv, TypeOK, PresentKeys, Present
<1>2. IsFiniteSet(PresentKeys) /\ size = Cardinality(PresentKeys)
  BY DEF IInv, CapacityHolds, PresentKeys
<1>3. Cardinality(PresentKeys \cup {k}) = Cardinality(PresentKeys) + 1
  BY <1>1, <1>2, FS_AddElement
<1>4. QED
  BY <1>1, <1>2, <1>3, FS_AddElement, FS_CardinalityType DEF IInv, TypeOK

LEMMA ConsumedReservation ==
    ASSUME IInv, NEW v \in Reservations, ConsumeReservation(v)
    PROVE  /\ IsFiniteSet(HeldReservations') /\ reserved' = Cardinality(HeldReservations')
           /\ reserved' \in Nat /\ reserved' + 1 = reserved
           /\ reservation' \in [Reservations -> {"UNISSUED", "ACTIVE", "USED"}]
<1>1. HeldReservations' = HeldReservations \ {v} /\ v \in HeldReservations
  BY DEF IInv, TypeOK, HeldReservations, ConsumeReservation
<1>2. IsFiniteSet(HeldReservations) /\ reserved = Cardinality(HeldReservations)
  BY DEF IInv, CapacityHolds, HeldReservations
<1>3. /\ IsFiniteSet(HeldReservations \ {v})
      /\ Cardinality(HeldReservations \ {v}) = Cardinality(HeldReservations) - 1
  BY <1>1, <1>2, FS_RemoveElement
<1>4. reserved' = reserved - 1
  BY DEF ConsumeReservation
<1>5. reserved' \in Nat
  BY <1>1, <1>2, <1>3, <1>4, FS_CardinalityType
<1>6. QED
  BY <1>1, <1>2, <1>3, <1>4, <1>5 DEF IInv, TypeOK, ConsumeReservation

\* addEntry keeps every key in order.
LEMMA AddEntryStep ==
    ASSUME IInv, NEW k \in Keys, NEW artifact \in Artifacts, ~Present(k),
           AddEntry(k, artifact), UNCHANGED <<permit, replayed>>
    PROVE  /\ KeysOK'
           /\ IsFiniteSet(PresentKeys') /\ size' = Cardinality(PresentKeys')
           /\ size' \in Nat
<1> DEFINE e == [state |-> "IN_FLIGHT", generation |-> 1, artifact |-> artifact,
                 result |-> NoResult, authorized |-> FALSE]
           l == Append(lease[k], Mint("EXECUTION", 1))
<1>1. /\ e \in Entry /\ l \in Seq(LeaseState)
      /\ KeyInv(e, l, permit[k], replayed[k])
  BY SameComponents, AddEntryKey DEF Present
<1>2. /\ entry' = [entry EXCEPT ![k] = e] /\ lease' = [lease EXCEPT ![k] = l]
      /\ size' = size + 1 /\ e.state # "ABSENT"
  BY DEF AddEntry
<1> HIDE DEF e, l
<1>3. KeysOK'
  BY <1>1, <1>2, SameComponents, OneKey
<1>4. QED
  BY <1>2, <1>3, NewPresence

\* existingResult only adds to what callers were told.
LEMMA TellStep ==
    ASSUME IInv, NEW k \in Keys, NEW artifact \in Artifacts,
           Tell(k, artifact), UNCHANGED <<entry, lease, permit>>
    PROVE  KeysOK'
<1>1. CASE replayed' = replayed
  BY <1>1, SameComponents, OneKey
<1>2. CASE replayed' # replayed
  <2> DEFINE answer == [artifact |-> entry[k].artifact, result |-> entry[k].result]
  <2>1. /\ entry[k].artifact = artifact /\ entry[k].state \in Terminal
        /\ replayed' = [replayed EXCEPT ![k] = replayed[k] \cup {answer}]
    BY <1>2 DEF Tell
  <2>2. KeyInv(entry[k], lease[k], permit[k], replayed[k] \cup {answer})
    BY <2>1, SameComponents, TellKey
  <2>3. entry[k].result \in Results
    BY <2>1, SameComponents DEF KeyInv, Answered
  <2>4. replayed[k] \cup {answer} \in SUBSET Replay
    BY <2>1, <2>3, SameComponents DEF Replay
  <2> DEFINE r == replayed[k] \cup {answer}
  <2>5. r \in SUBSET Replay /\ KeyInv(entry[k], lease[k], permit[k], r)
        /\ replayed' = [replayed EXCEPT ![k] = r]
    BY <2>1, <2>2, <2>4
  <2> HIDE DEF answer, r
  <2>6. /\ entry' = [entry EXCEPT ![k] = entry[k]]
        /\ lease' = [lease EXCEPT ![k] = lease[k]]
        /\ permit' = [permit EXCEPT ![k] = permit[k]]
        /\ entry[k] \in Entry /\ lease[k] \in Seq(LeaseState)
        /\ permit[k] \in Seq(PermitState)
    BY SameComponents
  <2>7. QED
    BY <2>5, <2>6, OneKey
<1>3. QED
  BY <1>1, <1>2
-----------------------------------------------------------------------------
(* Every step *)

LEMMA RegisterStep ==
    ASSUME IInv, NEW k \in Keys, NEW artifact \in Artifacts, Register(k, artifact)
    PROVE  IInv'
<1>1. /\ KeysOK'
      /\ IsFiniteSet(PresentKeys') /\ size' = Cardinality(PresentKeys')
      /\ size' \in Nat
  BY AddEntryStep DEF Register
<1>2. UNCHANGED <<consumed, reservation, reserved, frozen>>
  BY DEF Register
<1>3. HeldReservations' = HeldReservations
  BY <1>2 DEF HeldReservations
<1>4. size' + reserved' <= Capacity
  BY CapacityAssumption DEF Register, AddEntry, IInv, TypeOK
<1>5. CapacityHolds'
  BY <1>1, <1>2, <1>3, <1>4 DEF IInv, CapacityHolds, PresentKeys, HeldReservations
<1>6. TypeOK'
  BY <1>1, <1>2 DEF IInv, TypeOK, KeysOK
<1>7. QED
  BY <1>1, <1>3, <1>5, <1>6 DEF IInv, KeysOK

LEMMA ReserveStep ==
    ASSUME IInv, NEW v \in Reservations, ReserveCandidate(v) PROVE IInv'
<1>1. HeldReservations' = HeldReservations \cup {v} /\ v \notin HeldReservations
  BY DEF IInv, TypeOK, HeldReservations, ReserveCandidate
<1>2. IsFiniteSet(HeldReservations) /\ reserved = Cardinality(HeldReservations)
  BY DEF IInv, CapacityHolds, HeldReservations
<1>3. /\ IsFiniteSet(HeldReservations')
      /\ Cardinality(HeldReservations') = Cardinality(HeldReservations) + 1
  BY <1>1, <1>2, FS_AddElement
<1>4. UNCHANGED <<entry, lease, permit, consumed, size, frozen, replayed>>
  BY DEF ReserveCandidate
<1>5. PresentKeys' = PresentKeys
  BY <1>4 DEF PresentKeys, Present
<1>6. size' + reserved' <= Capacity
  BY CapacityAssumption DEF ReserveCandidate, IInv, TypeOK
<1>7. CapacityHolds'
  BY <1>2, <1>3, <1>4, <1>5, <1>6
     DEF IInv, CapacityHolds, PresentKeys, HeldReservations, ReserveCandidate
<1>8. TypeOK'
  BY <1>4 DEF IInv, TypeOK, ReserveCandidate
<1>9. \A k \in Keys : KeyInv(entry'[k], lease'[k], permit'[k], replayed'[k])
  BY <1>4 DEF IInv
<1>10. QED
  BY <1>3, <1>5, <1>7, <1>8, <1>9 DEF IInv

LEMMA ReleaseStep ==
    ASSUME IInv, NEW v \in Reservations, ReleaseReservation(v) PROVE IInv'
<1>1. /\ IsFiniteSet(HeldReservations') /\ reserved' = Cardinality(HeldReservations')
      /\ reserved' \in Nat /\ reserved' + 1 = reserved
      /\ reservation' \in [Reservations -> {"UNISSUED", "ACTIVE", "USED"}]
  BY ConsumedReservation DEF ReleaseReservation
<1>2. UNCHANGED <<entry, lease, permit, consumed, size, frozen, replayed>>
  BY DEF ReleaseReservation
<1>3. PresentKeys' = PresentKeys
  BY <1>2 DEF PresentKeys, Present
<1>4. size' + reserved' <= Capacity
  BY <1>1, <1>2, CapacityAssumption DEF IInv, TypeOK, CapacityHolds
<1>5. CapacityHolds'
  BY <1>1, <1>2, <1>3, <1>4 DEF IInv, CapacityHolds, PresentKeys, HeldReservations
<1>6. TypeOK'
  BY <1>1, <1>2 DEF IInv, TypeOK
<1>7. \A k \in Keys : KeyInv(entry'[k], lease'[k], permit'[k], replayed'[k])
  BY <1>2 DEF IInv
<1>8. QED
  BY <1>1, <1>3, <1>5, <1>6, <1>7 DEF IInv

LEMMA RegisterReservedStep ==
    ASSUME IInv, NEW v \in Reservations, NEW k \in Keys, NEW artifact \in Artifacts,
           RegisterReserved(v, k, artifact)
    PROVE  IInv'
<1>1. /\ IsFiniteSet(HeldReservations') /\ reserved' = Cardinality(HeldReservations')
      /\ reserved' \in Nat /\ reserved' + 1 = reserved
      /\ reservation' \in [Reservations -> {"UNISSUED", "ACTIVE", "USED"}]
  BY ConsumedReservation DEF RegisterReserved
<1>2. UNCHANGED <<permit, consumed, frozen>>
  BY DEF RegisterReserved
<1>3. /\ KeysOK'
      /\ IsFiniteSet(PresentKeys') /\ size' = Cardinality(PresentKeys')
      /\ size' \in Nat /\ size' <= size + 1
  <2>1. CASE ~Present(k)
    <3>1. AddEntry(k, artifact) /\ UNCHANGED <<permit, replayed>>
      BY <2>1 DEF RegisterReserved
    <3>2. size' = size + 1 /\ size \in Nat
      BY <3>1 DEF AddEntry, IInv, TypeOK
    <3>3. QED
      BY <2>1, <3>1, <3>2, AddEntryStep
  <2>2. CASE Present(k)
    <3>1. Tell(k, artifact) /\ UNCHANGED <<entry, lease, permit, size>>
      BY <2>2 DEF RegisterReserved
    <3>2. PresentKeys' = PresentKeys
      BY <3>1 DEF PresentKeys, Present
    <3>3. /\ IsFiniteSet(PresentKeys) /\ size = Cardinality(PresentKeys) /\ size \in Nat
      BY DEF IInv, CapacityHolds, PresentKeys, TypeOK
    <3>4. QED
      BY <3>1, <3>2, <3>3, TellStep
  <2>3. QED
    BY <2>1, <2>2
<1>4. size' + reserved' <= Capacity
  BY <1>1, <1>3, CapacityAssumption DEF IInv, TypeOK, CapacityHolds
<1>5. CapacityHolds'
  BY <1>1, <1>3, <1>4 DEF CapacityHolds, PresentKeys, HeldReservations
<1>6. TypeOK'
  BY <1>1, <1>2, <1>3 DEF IInv, TypeOK, KeysOK
<1>7. QED
  BY <1>1, <1>3, <1>5, <1>6 DEF IInv, KeysOK

LEMMA LookupStep ==
    ASSUME IInv, NEW k \in Keys, NEW artifact \in Artifacts, LookupExisting(k, artifact)
    PROVE  IInv'
<1>1. KeysOK'
  BY TellStep DEF LookupExisting
<1>2. /\ entry' = [entry EXCEPT ![k] = entry[k]]
      /\ UNCHANGED <<consumed, reservation, size, reserved, frozen>>
  BY SameComponents DEF LookupExisting
<1>3. QED
  BY <1>1, <1>2, SamePresence DEF IInv, TypeOK, Present

\* One lease, permit or evidence callback on the entry of k.
LEMMA HolderStep ==
    ASSUME IInv, NEW k \in Keys, HolderCalls(k) PROVE IInv'
<1>0. PICK i \in DOMAIN lease[k] :
        \/ MarkUnknown(k, i)
        \/ \E state \in Terminal, result \in Results : Complete(k, i, state, result)
        \/ \E e \in Evidence : AuthorizeContinuation(k, i, e)
        \/ \E p \in DOMAIN permit[k] : ResumeUnknown(k, i, p)
        \/ \E other \in Keys : \E p \in DOMAIN permit[other] :
              ResumeStalePermit(k, i, other, p)
  BY DEF HolderCalls
<1>a. /\ entry = [entry EXCEPT ![k] = entry[k]]
      /\ lease = [lease EXCEPT ![k] = lease[k]]
      /\ permit = [permit EXCEPT ![k] = permit[k]]
      /\ replayed = [replayed EXCEPT ![k] = replayed[k]]
      /\ entry[k] \in Entry /\ lease[k] \in Seq(LeaseState)
      /\ permit[k] \in Seq(PermitState) /\ replayed[k] \in SUBSET Replay
      /\ KeyInv(entry[k], lease[k], permit[k], replayed[k])
  BY SameComponents
<1>b. consumed \subseteq Evidence /\ frozen \in BOOLEAN
  BY DEF IInv, TypeOK
<1>1. CASE MarkUnknown(k, i)
  <2> DEFINE e == [entry[k] EXCEPT !.state = "UNKNOWN", !.authorized = FALSE]
             l == Append(Spend(lease[k], i), Mint("CONFIRMATION", entry[k].generation))
  <2>1. /\ entry' = [entry EXCEPT ![k] = e] /\ lease' = [lease EXCEPT ![k] = l]
        /\ UNCHANGED <<permit, consumed, reservation, size, reserved, frozen, replayed>>
        /\ entry[k].state = "IN_FLIGHT" /\ lease[k][i].active
    BY <1>1 DEF MarkUnknown, UsableLease
  <2>2. e \in Entry /\ l \in Seq(LeaseState) /\ KeyInv(e, l, permit[k], replayed[k])
    BY <1>a, <2>1, MarkUnknownKey
  <2>3. e.state = "UNKNOWN"
    BY <1>a DEF Entry
  <2> HIDE DEF e, l
  <2>4. KeysOK'
    BY <1>a, <2>1, <2>2, OneKey
  <2>5. QED
    BY <1>b, <2>1, <2>3, <2>4, SamePresence DEF Present
<1>2. CASE \E state \in Terminal, result \in Results : Complete(k, i, state, result)
  <2>0. PICK state \in Terminal, result \in Results : Complete(k, i, state, result)
    BY <1>2
  <2> DEFINE e == [entry[k] EXCEPT !.state = state, !.result = result,
                                   !.authorized = FALSE]
             l == Spend(lease[k], i)
  <2>1. /\ entry' = [entry EXCEPT ![k] = e] /\ lease' = [lease EXCEPT ![k] = l]
        /\ UNCHANGED <<permit, consumed, reservation, size, reserved, frozen, replayed>>
        /\ entry[k].state \in {"IN_FLIGHT", "UNKNOWN"} /\ lease[k][i].active
    BY <2>0 DEF Complete, UsableLease
  <2>2. e \in Entry /\ l \in Seq(LeaseState) /\ KeyInv(e, l, permit[k], replayed[k])
    BY <1>a, <2>1, CompleteKey
  <2>3. e.state # "ABSENT"
    BY <1>a DEF Entry, Terminal
  <2> HIDE DEF e, l
  <2>4. KeysOK'
    BY <1>a, <2>1, <2>2, OneKey
  <2>5. QED
    BY <1>b, <2>1, <2>3, <2>4, SamePresence DEF Present
<1>3. CASE \E e \in Evidence : AuthorizeContinuation(k, i, e)
  <2>0. PICK evidence \in Evidence : AuthorizeContinuation(k, i, evidence)
    BY <1>3
  <2> DEFINE e == [entry[k] EXCEPT !.authorized = TRUE]
             p == Append(permit[k], [generation |-> entry[k].generation, active |-> TRUE])
  <2>1. /\ entry' = [entry EXCEPT ![k] = e] /\ permit' = [permit EXCEPT ![k] = p]
        /\ UNCHANGED <<lease, reservation, size, reserved, frozen, replayed>>
        /\ consumed' = consumed \cup {evidence}
        /\ entry[k].state = "UNKNOWN" /\ ~entry[k].authorized
    BY <2>0 DEF AuthorizeContinuation, UsableLease
  <2>2. e \in Entry /\ p \in Seq(PermitState) /\ KeyInv(e, lease[k], p, replayed[k])
    BY <1>a, <2>1, AuthorizeKey
  <2>3. e.state = "UNKNOWN"
    BY <1>a, <2>1 DEF Entry
  <2> HIDE DEF e, p
  <2>4. KeysOK'
    BY <1>a, <2>1, <2>2, OneKey
  <2>5. QED
    BY <1>b, <2>1, <2>3, <2>4, SamePresence DEF Present
<1>4. CASE \E p \in DOMAIN permit[k] : ResumeUnknown(k, i, p)
  <2>0. PICK j \in DOMAIN permit[k] : ResumeUnknown(k, i, j)
    BY <1>4
  <2> DEFINE e == [entry[k] EXCEPT !.state = "IN_FLIGHT",
                                   !.generation = entry[k].generation + 1,
                                   !.authorized = FALSE]
             l == Append(Spend(lease[k], i), Mint("EXECUTION", entry[k].generation + 1))
             p == Spend(permit[k], j)
  <2>1. /\ entry' = [entry EXCEPT ![k] = e] /\ lease' = [lease EXCEPT ![k] = l]
        /\ permit' = [permit EXCEPT ![k] = p]
        /\ UNCHANGED <<consumed, reservation, size, reserved, frozen, replayed>>
        /\ entry[k].state = "UNKNOWN" /\ lease[k][i].active
        /\ permit[k][j].generation = entry[k].generation
    BY <2>0 DEF ResumeUnknown, UsableLease
  <2>2. /\ e \in Entry /\ l \in Seq(LeaseState) /\ p \in Seq(PermitState)
        /\ KeyInv(e, l, p, replayed[k])
    BY <1>a, <2>1, ResumeKey
  <2>3. e.state = "IN_FLIGHT"
    BY <1>a DEF Entry
  <2> HIDE DEF e, l, p
  <2>4. KeysOK'
    BY <1>a, <2>1, <2>2, OneKey
  <2>5. QED
    BY <1>b, <2>1, <2>3, <2>4, SamePresence DEF Present
<1>5. ASSUME NEW other \in Keys, NEW j \in DOMAIN permit[other],
             ResumeStalePermit(k, i, other, j)
      PROVE  IInv'
  <2> DEFINE p == Spend(permit[other], j)
  <2>1. /\ permit' = [permit EXCEPT ![other] = p]
        /\ UNCHANGED <<entry, lease, consumed, reservation, size, reserved, frozen, replayed>>
    BY <1>5 DEF ResumeStalePermit
  <2>2. /\ entry = [entry EXCEPT ![other] = entry[other]]
        /\ lease = [lease EXCEPT ![other] = lease[other]]
        /\ replayed = [replayed EXCEPT ![other] = replayed[other]]
        /\ entry[other] \in Entry /\ lease[other] \in Seq(LeaseState)
        /\ permit[other] \in Seq(PermitState) /\ replayed[other] \in SUBSET Replay
        /\ KeyInv(entry[other], lease[other], permit[other], replayed[other])
    BY SameComponents
  <2>3. p \in Seq(PermitState) /\ KeyInv(entry[other], lease[other], p, replayed[other])
    BY <2>2, SpendPermitKey
  <2> HIDE DEF p
  <2>4. KeysOK'
    BY <2>1, <2>2, <2>3, OneKey
  <2>5. QED
    BY <1>b, <2>1, <2>2, <2>4, SamePresence DEF Present
<1>6. QED
  BY <1>0, <1>1, <1>2, <1>3, <1>4, <1>5

LEMMA QuietStep ==
    ASSUME IInv, Freeze \/ UNCHANGED vars PROVE IInv'
<1>1. /\ UNCHANGED <<entry, lease, permit, consumed, reservation, size, reserved, replayed>>
      /\ frozen' \in BOOLEAN
  BY DEF Freeze, vars, IInv, TypeOK
<1>2. PresentKeys' = PresentKeys /\ HeldReservations' = HeldReservations
  BY <1>1 DEF PresentKeys, Present, HeldReservations
<1>3. CapacityHolds'
  BY <1>1, <1>2 DEF IInv, CapacityHolds, PresentKeys, HeldReservations
<1>4. TypeOK'
  BY <1>1 DEF IInv, TypeOK
<1>5. QED
  BY <1>1, <1>2, <1>3, <1>4 DEF IInv

LEMMA IInvStep == IInv /\ [Next]_vars => IInv'
BY RegisterStep, LookupStep, ReserveStep, ReleaseStep, RegisterReservedStep, HolderStep,
   QuietStep DEF Next

\* The inductive invariant holds in every reachable state.
THEOREM Invariant == Spec => []IInv
BY InitIInv, IInvStep, PTL DEF Spec

\* Every variable stays in its domain.
THEOREM TypeCorrect == Spec => []TypeOK
<1>1. IInv => TypeOK
  BY DEF IInv
<1>2. QED
  BY <1>1, Invariant, PTL

\* requireLease, markUnknown, finishTerminal and resumeUnknown leave exactly one
\* active lease to a live entry and none to a terminal one.
THEOREM OneActiveLease == Spec => []LeasesFollowTheEntry
<1>1. IInv => LeasesFollowTheEntry
  BY DEF IInv, KeyInv, Leases, LeasesFollowTheEntry
<1>2. QED
  BY <1>1, Invariant, PTL

\* register, reserveCandidate and registerReserved never exceed the capacity.
THEOREM CapacityIsNeverExceeded == Spec => []CapacityHolds
<1>1. IInv => CapacityHolds
  BY DEF IInv
<1>2. QED
  BY <1>1, Invariant, PTL

\* Each generation after the first has its own spent permit.
THEOREM ContinuationsArePaidFor == Spec => []ContinuationIsPaidFor
<1>1. IInv => ContinuationIsPaidFor
  BY DEF IInv, KeyInv, Permits, ContinuationIsPaidFor
<1>2. QED
  BY <1>1, Invariant, PTL

\* Every caller is told the one result of the content it presented.
THEOREM ReplaysAreConsistent == Spec => []ReplaysAgree
<1>1. IInv => ReplaysAgree
  BY DEF IInv, KeyInv, Replays, ReplaysAgree
<1>2. QED
  BY <1>1, Invariant, PTL

\* What callers rely on at any time: one lease, exact counters, one answer.
THEOREM RegistryIsConsistent == Spec => []EntriesAreConsistent
BY OneActiveLease, CapacityIsNeverExceeded, ReplaysAreConsistent, PTL
   DEF EntriesAreConsistent

-----------------------------------------------------------------------------
(* The registry implements OnceStore *)

\* What OnceStore sees of an entry.
Seen(e) ==
    [state  |-> IF e.state \in {"IN_FLIGHT", "UNKNOWN"} THEN "PENDING" ELSE e.state,
     result |-> e.result]

LEMMA OutcomeIsSeen ==
    /\ Outcome = [k \in Keys |-> Seen(entry[k])]
    /\ Outcome' = [k \in Keys |-> Seen(entry'[k])]
BY DEF Outcome, Seen

LEMMA InitRefines == Init => Abstract!Init
<1> SUFFICES ASSUME Init PROVE Abstract!Init
  OBVIOUS
<1>1. \A k \in Keys : Seen(entry[k]) = [state |-> "ABSENT", result |-> NoResult]
  BY DEF Init, NoEntry, Seen
<1>2. QED
  BY <1>1, OutcomeIsSeen DEF Abstract!Init

\* A step that shows nothing of one entry stutters.
LEMMA Stutters ==
    ASSUME IInv, NEW k \in Keys, NEW e, entry' = [entry EXCEPT ![k] = e],
           Seen(e) = Seen(entry[k])
    PROVE  Outcome' = Outcome
BY OutcomeIsSeen DEF IInv, TypeOK

\* The counters bound what OnceStore counts.
LEMMA AddEntryRefines ==
    ASSUME IInv, NEW k \in Keys, NEW artifact, ~Present(k), size < Capacity,
           AddEntry(k, artifact)
    PROVE  Abstract!Begin(k)
<1> DEFINE f == [state |-> "IN_FLIGHT", generation |-> 1, artifact |-> artifact,
                 result |-> NoResult, authorized |-> FALSE]
<1>1. entry' = [entry EXCEPT ![k] = f] /\ entry \in [Keys -> Entry]
  BY DEF AddEntry, IInv, TypeOK
<1>2. Seen(f) = [state |-> "PENDING", result |-> NoResult]
  BY DEF Seen
<1>3. \A x \in Keys : Outcome[x].state # "ABSENT" <=> Present(x)
  BY DEF Outcome, Present
<1>4. Abstract!Begun = PresentKeys
  BY <1>3 DEF Abstract!Begun, PresentKeys
<1>5. Cardinality(Abstract!Begun) < Capacity
  BY <1>4 DEF IInv, CapacityHolds, PresentKeys
<1> HIDE DEF f
<1>6. Outcome' = [Outcome EXCEPT ![k] = [state |-> "PENDING", result |-> NoResult]]
  <2>1. \A x \in Keys : entry'[x] = IF x = k THEN f ELSE entry[x]
    BY <1>1
  <2>2. QED
    BY <1>2, <2>1, OutcomeIsSeen
<1>7. Outcome[k].state = "ABSENT"
  BY <1>3
<1>8. Abstract!Cardinality(Abstract!Begun) = Cardinality(Abstract!Begun)
  BY DEF Abstract!Cardinality, Cardinality
<1>9. QED
  BY <1>5, <1>6, <1>7, <1>8 DEF Abstract!Begin

LEMMA CompleteRefines ==
    ASSUME IInv, NEW k \in Keys, NEW i, NEW state \in Terminal, NEW result \in Results,
           Complete(k, i, state, result)
    PROVE  Abstract!Answer(k)
<1> DEFINE f == [entry[k] EXCEPT !.state = state, !.result = result, !.authorized = FALSE]
<1>1. /\ entry' = [entry EXCEPT ![k] = f] /\ entry \in [Keys -> Entry]
      /\ entry[k].state \in {"IN_FLIGHT", "UNKNOWN"} /\ entry[k] \in Entry
  BY DEF Complete, IInv, TypeOK
<1>2. Seen(f) = [state |-> state, result |-> result]
  BY <1>1 DEF Seen, Entry, Terminal
<1> HIDE DEF f
<1>3. Outcome[k].state = "PENDING"
  BY <1>1 DEF Outcome
<1>4. Outcome' = [Outcome EXCEPT ![k] = [state |-> state, result |-> result]]
  <2>1. \A x \in Keys : entry'[x] = IF x = k THEN f ELSE entry[x]
    BY <1>1
  <2>2. QED
    BY <1>2, <2>1, OutcomeIsSeen
<1>5. QED
  BY <1>3, <1>4 DEF Abstract!Answer, Abstract!Answers, Terminal

LEMMA StepRefines == IInv /\ [Next]_vars => [Abstract!Next]_Outcome
<1> SUFFICES ASSUME IInv, [Next]_vars PROVE [Abstract!Next]_Outcome
  OBVIOUS
<1>0. \A k \in Keys : entry[k] \in Entry
  BY DEF IInv, TypeOK
<1>1. CASE entry' = entry
  BY <1>1 DEF Outcome
<1>2. ASSUME NEW k \in Keys, NEW artifact \in Artifacts, Register(k, artifact)
      PROVE  Abstract!Next
  <2>1. size < Capacity /\ ~Present(k) /\ AddEntry(k, artifact)
    BY <1>2, CapacityAssumption DEF Register, IInv, TypeOK
  <2>2. QED
    BY <2>1, AddEntryRefines DEF Abstract!Next
<1>3. ASSUME NEW v \in Reservations, NEW k \in Keys, NEW artifact \in Artifacts,
             RegisterReserved(v, k, artifact), entry' # entry
      PROVE  Abstract!Next
  <2>1. ~Present(k) /\ AddEntry(k, artifact)
    BY <1>3 DEF RegisterReserved
  <2>2. size < Capacity
    <3>1. reserved' \in Nat /\ reserved' + 1 = reserved
      BY <1>3, ConsumedReservation DEF RegisterReserved
    <3>2. QED
      BY <3>1, CapacityAssumption DEF IInv, TypeOK, CapacityHolds
  <2>3. QED
    BY <2>1, <2>2, AddEntryRefines DEF Abstract!Next
<1>4. ASSUME NEW k \in Keys, HolderCalls(k), entry' # entry
      PROVE  Abstract!Next \/ Outcome' = Outcome
  <2>1. ASSUME NEW i, NEW state \in Terminal, NEW result \in Results,
               Complete(k, i, state, result)
        PROVE  Abstract!Next
    BY <2>1, CompleteRefines DEF Abstract!Next
  <2>2. ASSUME NEW i, MarkUnknown(k, i) PROVE Outcome' = Outcome
    <3> DEFINE f == [entry[k] EXCEPT !.state = "UNKNOWN", !.authorized = FALSE]
    <3>1. entry' = [entry EXCEPT ![k] = f] /\ entry[k].state = "IN_FLIGHT"
      BY <2>2 DEF MarkUnknown
    <3>2. Seen(f) = Seen(entry[k])
      BY <1>0, <3>1 DEF Seen, Entry
    <3> HIDE DEF f
    <3>3. QED
      BY <3>1, <3>2, Stutters
  <2>3. ASSUME NEW i, NEW e, AuthorizeContinuation(k, i, e) PROVE Outcome' = Outcome
    <3> DEFINE f == [entry[k] EXCEPT !.authorized = TRUE]
    <3>1. entry' = [entry EXCEPT ![k] = f]
      BY <2>3 DEF AuthorizeContinuation
    <3>2. Seen(f) = Seen(entry[k])
      BY <1>0 DEF Seen, Entry
    <3> HIDE DEF f
    <3>3. QED
      BY <3>1, <3>2, Stutters
  <2>4. ASSUME NEW i, NEW p, ResumeUnknown(k, i, p) PROVE Outcome' = Outcome
    <3> DEFINE f == [entry[k] EXCEPT !.state = "IN_FLIGHT",
                                     !.generation = entry[k].generation + 1,
                                     !.authorized = FALSE]
    <3>1. entry' = [entry EXCEPT ![k] = f] /\ entry[k].state = "UNKNOWN"
      BY <2>4 DEF ResumeUnknown
    <3>2. Seen(f) = Seen(entry[k])
      BY <1>0, <3>1 DEF Seen, Entry
    <3> HIDE DEF f
    <3>3. QED
      BY <3>1, <3>2, Stutters
  <2>5. QED
    BY <1>4, <2>1, <2>2, <2>3, <2>4 DEF HolderCalls, ResumeStalePermit
<1>5. /\ UNCHANGED vars \/ Freeze => entry' = entry
      /\ \A k \in Keys, artifact \in Artifacts :
            LookupExisting(k, artifact) => entry' = entry
      /\ \A v \in Reservations :
            ReserveCandidate(v) \/ ReleaseReservation(v) => entry' = entry
  BY DEF vars, Freeze, LookupExisting, ReserveCandidate, ReleaseReservation
<1>6. entry' = entry \/ Abstract!Next \/ Outcome' = Outcome
  BY <1>2, <1>3, <1>4, <1>5 DEF Next
<1>7. QED
  BY <1>1, <1>6

\* Whatever leases, permits and reservations the callers hold and however late
\* they present them, each key is begun below the capacity and answered once.
THEOREM Refinement == Spec => ImplementsOnceStore
<1>1. Init => Abstract!Init
  BY InitRefines
<1>2. IInv /\ [Next]_vars => [Abstract!Next]_Outcome
  BY StepRefines
<1>3. QED
  BY <1>1, <1>2, Invariant, PTL DEF Spec, ImplementsOnceStore, Abstract!Spec
=============================================================================
