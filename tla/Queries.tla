-------------------------------- MODULE Queries --------------------------------
(***************************************************************************)
(* Listings of qualifications, of who is inside and of events, one page    *)
(* per request, while writers change what is listed                        *)
(* (query-application.ts, query-cursor.ts, g09a-query-composition.ts,      *)
(* writer-quiescence.ts and the query part of g04b-persistence-adapter.ts).*)
(*                                                                         *)
(* A request reads under the observation lease, which no writer shares; a  *)
(* reader follows the cursor of one page to the next page, and between two *)
(* pages rows come, go and change.  A reset puts a new dataset, and a new  *)
(* process, in the place of the old ones: readers keep their cursors.      *)
(* Identifiers are numbered in the order of their strings.                 *)
(***************************************************************************)
EXTENDS Naturals, FiniteSets, Sequences

CONSTANTS Readers,      \* clients, with one request at a time
          QueryScopes,  \* the listings asked for: [endpoint, of], of 0 = any
          QueryLimit,   \* rows of a page
          Visitors,     \* identifiers of qualifications
          EventIds,     \* identifiers of events
          LastInstant,  \* instants are 1..LastInstant
          MaxChanges,   \* writes in a behaviour
          MaxDatasets   \* datasets in a behaviour

ASSUME QueriesAssumption ==
    /\ QueryLimit \in Nat \ {0} /\ LastInstant \in Nat \ {0}
    /\ Visitors \subseteq Nat \ {0} /\ EventIds \subseteq Nat \ {0}
    /\ MaxChanges \in Nat /\ MaxDatasets \in Nat \ {0}
    /\ QueryScopes \subseteq
           [endpoint : {"qualifications", "inside", "events", "qualification"}, of : Nat]

VARIABLES quals,    \* stored qualifications
          events,   \* stored events
          dataset,  \* the epoch of the process and of what it stores
          writer,   \* the write operation under way
          asks,     \* reader -> the request it has under way
          walks,    \* reader -> the listing it is going through
          changes   \* writes so far

queryVars == <<quals, events, dataset, writer, asks, walks, changes>>

Instants == 1..LastInstant

\* A cursor of null: everything is after it.
FromTheTop == [at |-> LastInstant + 1, id |-> 0]

NoAsk == [stage |-> "NONE"]

NoWalk == [stage |-> "NONE"]

QueryInit ==
    /\ quals = {}
    /\ events = {}
    /\ dataset = 1
    /\ writer = "NONE"
    /\ asks = [r \in Readers |-> NoAsk]
    /\ walks = [r \in Readers |-> NoWalk]
    /\ changes = 0

-----------------------------------------------------------------------------
(* What a listing holds. *)

\* The filter of the endpoint, and the time its rows are sorted by.
MatchingIn(qs, es, scope) ==
    CASE scope.endpoint = "qualifications" ->
           {[at |-> q.created, id |-> q.id] : q \in qs}
      [] scope.endpoint = "inside" ->
           {[at |-> q.entered, id |-> q.id] :
               q \in {x \in qs : x.presence = "INSIDE"}}
      [] scope.endpoint = "events" ->
           {[at |-> e.received, id |-> e.id] :
               e \in {x \in es : scope.of \in {0, x.of}}}
      [] scope.endpoint = "qualification" ->
           {[at |-> q.created, id |-> q.id] : q \in {x \in qs : x.id = scope.of}}

Matching(scope) == MatchingIn(quals, events, scope)

\* The sort order: time, then identifier, both descending.
Below(k, l) == k.at < l.at \/ (k.at = l.at /\ k.id < l.id)

Highest(rows, n) == {k \in rows : Cardinality({l \in rows : Below(k, l)}) < n}

\* Mutant of AfterCursor: rows of the very instant of the cursor are passed over.
AfterCursorInTime(k, last) == k.at < last.at

\* queryKeyset.
AfterCursor(k, last) == k.at < last.at \/ (k.at = last.at /\ k.id < last.id)

\* One row more than the page tells whether another page follows.
Fetched(scope, last) ==
    Highest({k \in Matching(scope) : AfterCursor(k, last)}, QueryLimit + 1)

\* The face slots of the rows, as the lookup joins them.
Bound(rows) == {k.id : k \in {l \in rows : \E q \in quals : q.id = l.id /\ q.bound}}

-----------------------------------------------------------------------------
(* Requests. *)

LeaseHeld == \E r \in Readers : asks[r].stage # "NONE"

\* acquireReadObservationLease: a writer in any state keeps readers out.
Busy == LeaseHeld \/ writer # "NONE"

\* decodeAfter: the cursor is of this dataset, this endpoint and these filters.
CursorFits(walk, scope) ==
    walk.stage = "MORE" /\ walk.epoch = dataset /\ walk.scope = scope

Acquire(r, scope, last) ==
    asks' = [asks EXCEPT ![r] = [stage |-> "HELD", scope |-> scope, last |-> last,
                                 rows |-> {}, faces |-> {}]]

\* A first page.
AskFirst(r, scope) ==
    /\ asks[r].stage = "NONE"
    /\ ~Busy
    /\ Acquire(r, scope, FromTheTop)
    /\ walks' = [walks EXCEPT ![r] =
           [stage |-> "MORE", scope |-> scope, epoch |-> dataset,
            last |-> FromTheTop, pages |-> <<>>, whole |-> Matching(scope)]]
    /\ UNCHANGED <<quals, events, dataset, writer, changes>>

\* The page at a cursor; a cursor that does not fit is refused, a busy reader
\* comes back with it.
AskNext(r, scope) ==
    /\ asks[r].stage = "NONE"
    /\ CursorFits(walks[r], scope)
    /\ walks[r].pages # <<>>
    /\ ~Busy
    /\ Acquire(r, scope, walks[r].last)
    /\ UNCHANGED <<quals, events, dataset, writer, walks, changes>>

\* $match, $sort and $limit.
ReadRows(r) ==
    /\ asks[r].stage = "HELD"
    /\ asks' = [asks EXCEPT ![r].stage = "READ",
                            ![r].rows = Fetched(asks[r].scope, asks[r].last)]
    /\ UNCHANGED <<quals, events, dataset, writer, walks, changes>>

\* $lookup of the face slots of those rows.
LookUpFaces(r) ==
    /\ asks[r].stage = "READ"
    /\ asks' = [asks EXCEPT ![r].stage = "MAPPED", ![r].faces = Bound(asks[r].rows)]
    /\ UNCHANGED <<quals, events, dataset, writer, walks, changes>>

\* afterKeyFor the last row that is shown.
LastKey(page, rows) == CHOOSE k \in page : \A l \in page : k = l \/ Below(k, l)

\* The page is shown, the lease released.
AnswerPage(r) ==
    /\ asks[r].stage = "MAPPED"
    /\ LET rows == asks[r].rows
           page == Highest(rows, QueryLimit)
       IN  walks' = [walks EXCEPT
             ![r].pages = Append(@, page),
             ![r].stage = IF rows = page THEN "DONE" ELSE "MORE",
             ![r].last = IF rows = page THEN @ ELSE LastKey(page, rows)]
    /\ asks' = [asks EXCEPT ![r] = NoAsk]
    /\ UNCHANGED <<quals, events, dataset, writer, changes>>

\* The read or the mapping fails: PERSISTENCE_UNAVAILABLE, and the lease goes.
AskFails(r) ==
    /\ asks[r].stage # "NONE"
    /\ asks' = [asks EXCEPT ![r] = NoAsk]
    /\ UNCHANGED <<quals, events, dataset, writer, walks, changes>>

-----------------------------------------------------------------------------
(* Writers, one at a time: registered, running once no reader holds the     *)
(* lease, applied, settled.                                                 *)

RegisterWrite ==
    /\ writer = "NONE"
    /\ changes < MaxChanges
    /\ writer' = "WAITING"
    /\ UNCHANGED <<quals, events, dataset, asks, walks, changes>>

\* canStartWriter.
StartWrite ==
    /\ writer = "WAITING"
    /\ ~LeaseHeld
    /\ writer' = "RUNNING"
    /\ UNCHANGED <<quals, events, dataset, asks, walks, changes>>

\* Clocks may be stepped: an instant tells nothing of the order of the writes.
Created ==
    \E id \in Visitors, at \in Instants, bound \in BOOLEAN :
        /\ \A q \in quals : q.id # id
        /\ quals' = quals \cup {[id |-> id, created |-> at, entered |-> 0,
                                 presence |-> "NOT_ENTERED", bound |-> bound]}
        /\ UNCHANGED events

Changed(q, r) == quals' = (quals \ {q}) \cup {r}

Logged(q, at) ==
    \E id \in EventIds : /\ \A e \in events : e.id # id
                         /\ events' = events \cup {[id |-> id, received |-> at, of |-> q.id]}

Moved ==
    \E q \in quals, at \in Instants :
        /\ q.presence # "EXITED"
        /\ IF q.presence = "NOT_ENTERED"
           THEN Changed(q, [q EXCEPT !.presence = "INSIDE", !.entered = at])
           ELSE Changed(q, [q EXCEPT !.presence = "EXITED", !.bound = FALSE])
        /\ Logged(q, at)

Rebound ==
    \E q \in quals : /\ q.presence # "EXITED"
                     /\ Changed(q, [q EXCEPT !.bound = ~@])
                     /\ UNCHANGED events

\* A row counts for a listing while it keeps its place in it.
ApplyWrite ==
    /\ writer = "RUNNING"
    /\ Created \/ Moved \/ Rebound
    /\ walks' = [r \in Readers |->
           IF walks[r].stage = "NONE" THEN walks[r]
           ELSE [walks[r] EXCEPT !.whole = @ \cap MatchingIn(quals', events', walks[r].scope)]]
    /\ writer' = "APPLIED"
    /\ changes' = changes + 1
    /\ UNCHANGED <<dataset, asks>>

SettleWrite ==
    /\ writer \in {"WAITING", "RUNNING", "APPLIED"}
    /\ writer' = "NONE"
    /\ UNCHANGED <<quals, events, dataset, asks, walks, changes>>

\* Another process on another dataset; its seeds may bear the same names.
Reseeded ==
    /\ dataset < MaxDatasets
    /\ dataset' = dataset + 1
    /\ quals' = {} /\ events' = {}
    /\ writer' = "NONE"
    /\ asks' = [r \in Readers |-> NoAsk]
    /\ UNCHANGED <<walks, changes>>

QueryNext ==
    \/ \E r \in Readers :
         \/ \E scope \in QueryScopes : AskFirst(r, scope) \/ AskNext(r, scope)
         \/ ReadRows(r) \/ LookUpFaces(r) \/ AnswerPage(r) \/ AskFails(r)
    \/ RegisterWrite \/ StartWrite \/ ApplyWrite \/ SettleWrite
    \/ Reseeded

QuerySpec == QueryInit /\ [][QueryNext]_queryVars

-----------------------------------------------------------------------------
(* Properties. *)

\* A page is one state of the store, rows and face slots alike: what its
\* reader has in hand is still what is stored (one aggregation joins two
\* collections without a snapshot, under the lease alone).
PagesAreSnapshots ==
    \A r \in Readers :
        /\ asks[r].stage \in {"READ", "MAPPED"} =>
               asks[r].rows = Fetched(asks[r].scope, asks[r].last)
        /\ asks[r].stage = "MAPPED" => asks[r].faces = Bound(asks[r].rows)

\* A reader that follows the cursors sees no row twice, sees them in order,
\* and has missed, once there is no more cursor, no row that kept its place
\* from the first page on (the keyset and the cursor, over writes, failed
\* requests and cursors of other listings and other datasets).
WalksAreComplete ==
    \A r \in Readers :
        LET walk == walks[r]
            shown == UNION {walk.pages[i] : i \in 1..Len(walk.pages)}
        IN  walk.stage # "NONE" =>
              /\ \A i, j \in 1..Len(walk.pages) :
                   i < j => \A k \in walk.pages[i], l \in walk.pages[j] :
                              Below(l, k) /\ l.id # k.id
              /\ walk.epoch = dataset =>
                   \A k \in walk.whole :
                     k \in shown \/ (walk.stage = "MORE" /\ Below(k, walk.last))

\* What a listing shows is what was stored: page by page, and from the first
\* page to the last.
ListingsAreTrue == PagesAreSnapshots /\ WalksAreComplete
=============================================================================
