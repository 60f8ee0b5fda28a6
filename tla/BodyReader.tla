------------------------------ MODULE BodyReader ------------------------------
(***************************************************************************)
(* Reading the JSON body of a request (bounded-json-ingress.ts): what is   *)
(* refused on its headers, the bounded number of readers, the bounded      *)
(* size, the upload timer, and the end, abort, error and close of the      *)
(* stream, which may all come for the same request.  A request is handed   *)
(* on, or refused, at most once, and gives its reader's place back once.   *)
(***************************************************************************)
EXTENDS Naturals, FiniteSets

CONSTANTS
    Uploads,      \* requests
    MaxReaders,   \* INGRESS_LIMITS.maxReaders
    MaxBody       \* INGRESS_LIMITS.maxBodyBytes, in chunks

ASSUME BodyReaderAssumption == MaxReaders \in Nat /\ MaxBody \in Nat

VARIABLES
    request,        \* as the client makes it
    reading,        \* [settled, byteLength, timer] of each middleware call
    stream,         \* what the socket delivered: OPEN, COMPLETE, ENDED, GONE
    ingressAnswer,  \* what became of it
    activeReaders

ingressVars == <<request, reading, stream, ingressAnswer, activeReaders>>

\* A client declares the length of its body, or sends it in chunks.
IngressRequests ==
    [json : BOOLEAN, valid : BOOLEAN, declares : BOOLEAN, size : 0..(MaxBody + 1)]
NoRequest == [size |-> 0]
NoReading == [settled |-> TRUE, byteLength |-> 0, timer |-> FALSE]

IngressInit ==
    /\ request = [r \in Uploads |-> NoRequest]
    /\ reading = [r \in Uploads |-> NoReading]
    /\ stream = [r \in Uploads |-> "NONE"]
    /\ ingressAnswer = [r \in Uploads |-> "NONE"]
    /\ activeReaders = 0

Answers(r, what) ==
    ingressAnswer' = [ingressAnswer EXCEPT ![r] = what]

\* sendRejection leaves a response alone that is destroyed.
Rejects(r, code) ==
    IF stream[r] = "GONE" THEN UNCHANGED ingressAnswer ELSE Answers(r, code)

-----------------------------------------------------------------------------
(* The middleware, synchronously *)

PlaceFreeLate == activeReaders <= MaxReaders
PlaceFree == activeReaders < MaxReaders

\* A bad header, a bad query, another media type or coding
RefusedOnHeaders(m) ==
    CASE ~m.valid -> {"INVALID_HTTP_HEADERS"}
      [] m.valid /\ ~m.json /\ m.size > 0 -> {"BODY_NOT_ALLOWED"}
      [] m.valid /\ m.json /\ m.declares /\ m.size > MaxBody -> {"REQUEST_BODY_TOO_LARGE"}
      [] m.valid /\ m.json /\ ~(m.declares /\ m.size > MaxBody) /\ ~PlaceFree ->
            {"RAW_READER_CAPACITY_EXHAUSTED"}
      [] OTHER -> {}

\* The deadline counts from the first line; it may be over before the timer
\* is armed.
Receive(r, m) ==
    /\ stream[r] = "NONE"
    /\ request' = [request EXCEPT ![r] = m]
    /\ stream' = [stream EXCEPT ![r] = "OPEN"]
    /\ \/ /\ RefusedOnHeaders(m) # {}
          /\ \E code \in RefusedOnHeaders(m) : Answers(r, code)
          /\ UNCHANGED <<reading, activeReaders>>
       \/ /\ RefusedOnHeaders(m) = {} /\ ~m.json
          /\ Answers(r, "HANDED_OFF")
          /\ UNCHANGED <<reading, activeReaders>>
       \/ /\ RefusedOnHeaders(m) = {} /\ m.json
          /\ activeReaders' = activeReaders + 1
          /\ reading' = [reading EXCEPT ![r] =
                [settled |-> FALSE, byteLength |-> 0, timer |-> TRUE]]
          /\ UNCHANGED ingressAnswer
       \/ /\ RefusedOnHeaders(m) = {} /\ m.json
          /\ Answers(r, "REQUEST_BODY_TIMEOUT")
          /\ UNCHANGED <<reading, activeReaders>>

-----------------------------------------------------------------------------
(* The listeners and the timer *)

Listening(r) == ~reading[r].settled

Cleanup(r) ==
    /\ reading' = [reading EXCEPT ![r].settled = TRUE, ![r].timer = FALSE]
    /\ activeReaders' = activeReaders - 1

Fail(r, code) == Cleanup(r) /\ Rejects(r, code)

OnData(r) ==
    /\ stream[r] = "OPEN" /\ Listening(r)
    /\ reading[r].byteLength < request[r].size
    /\ IF 1 > MaxBody - reading[r].byteLength
       THEN Fail(r, "REQUEST_BODY_TOO_LARGE")
       ELSE /\ reading' = [reading EXCEPT ![r].byteLength = @ + 1]
            /\ UNCHANGED <<ingressAnswer, activeReaders>>
    /\ UNCHANGED <<request, stream>>

\* The parser has the whole message: request.complete.
Completes(r) ==
    /\ stream[r] = "OPEN"
    /\ Listening(r) => reading[r].byteLength = request[r].size
    /\ stream' = [stream EXCEPT ![r] = "COMPLETE"]
    /\ UNCHANGED <<request, reading, ingressAnswer, activeReaders>>

\* The body is parsed after its reader's place is given back.
OnEnd(r) ==
    /\ stream[r] = "COMPLETE"
    /\ stream' = [stream EXCEPT ![r] = "ENDED"]
    /\ IF Listening(r)
       THEN Cleanup(r) /\ \E parsed \in {"HANDED_OFF", "INVALID_JSON_BODY"} : Answers(r, parsed)
       ELSE UNCHANGED <<reading, ingressAnswer, activeReaders>>
    /\ UNCHANGED request

\* aborted, error and close of a stream that is not complete
OnAborted(r) ==
    /\ stream[r] = "OPEN"
    /\ stream' = [stream EXCEPT ![r] = "GONE"]
    /\ IF Listening(r) THEN Cleanup(r) ELSE UNCHANGED <<reading, activeReaders>>
    /\ UNCHANGED <<request, ingressAnswer>>

\* close of a complete stream before its end: onClose leaves it to the timer.
OnClose(r) ==
    /\ stream[r] = "COMPLETE"
    /\ stream' = [stream EXCEPT ![r] = "GONE"]
    /\ UNCHANGED <<request, reading, ingressAnswer, activeReaders>>

OnTimer(r) ==
    /\ reading[r].timer
    /\ Fail(r, "REQUEST_BODY_TIMEOUT")
    /\ UNCHANGED <<request, stream>>

IngressNext ==
    \E r \in Uploads :
        \/ \E m \in IngressRequests : Receive(r, m)
        \/ OnData(r) \/ Completes(r) \/ OnEnd(r)
        \/ OnAborted(r) \/ OnClose(r) \/ OnTimer(r)

IngressSpec == IngressInit /\ [][IngressNext]_ingressVars

-----------------------------------------------------------------------------
(* Correctness *)

\* A reader's place is taken exactly by the bodies that are being read, never
\* more than there are; a place that no event will free any more has a timer;
\* and what is handed on is a whole body.
ReadersAreCounted ==
    /\ activeReaders = Cardinality({r \in Uploads : Listening(r)})
    /\ activeReaders <= MaxReaders
    /\ \A r \in Uploads :
        /\ Listening(r) => reading[r].timer /\ ingressAnswer[r] = "NONE"
        /\ ingressAnswer[r] = "HANDED_OFF" /\ request[r].json =>
                reading[r].byteLength = request[r].size /\ request[r].size <= MaxBody
=============================================================================
