------------------------------ MODULE RuntimeLog ------------------------------
(***************************************************************************)
(* The runtime log: the bounded, never-throwing sink with its one worker   *)
(* (runtime-log-sink.ts) over the ring of files with its rotation, its     *)
(* mutex and its snapshot reader (runtime-log-file-store.ts).              *)
(*                                                                         *)
(* Records are numbered in the order they are offered.  A file holds       *)
(* FileRecords of them; a name of the ring points to a file, so that a     *)
(* rename moves the name and a reader that opened the file keeps it.  The  *)
(* process may die between any two file operations, in the middle of an    *)
(* append too, and a later process finds what is left.                     *)
(***************************************************************************)
EXTENDS Naturals, Sequences, Functions

CONSTANTS Archives,        \* RUNTIME_LOG_ARCHIVE_COUNT
          FileRecords,     \* records that fit in RUNTIME_LOG_FILE_MAX_BYTES
          WaitingCapacity, \* RUNTIME_LOG_WAITING_CAPACITY
          MaxRecords,      \* records, those of before the behaviour included
          MaxProcesses     \* processes that open the log

ASSUME RuntimeLogAssumption ==
    /\ Archives \in Nat \ {0} /\ FileRecords \in Nat \ {0}
    /\ WaitingCapacity \in Nat \ {0}
    /\ MaxRecords \in Nat /\ MaxProcesses \in Nat

VARIABLES names,     \* 0 (active) .. Archives -> a file, 0 = no such file
          files,     \* the files ever created: [records, torn]
          written,   \* the records that ever reached a file
          sink,      \* the sink of the running process
          store,     \* its file store: [failed, step, turn, record, generation]
          health,    \* what the sink last published: [degraded, dropped]
          counts,    \* of this process: offered and acknowledged records
          opened,    \* processes so far, and whether one runs
          records,   \* records so far
          reader     \* a readOperation under way

logVars == <<names, files, written, sink, store, health, counts, opened,
             records, reader>>

Names == 0..Archives

NoWrite == [failed |-> FALSE, step |-> "NONE", turn |-> 0, record |-> 0,
            generation |-> 0]

NewSink(degraded) ==
    [queue |-> <<>>, writing |-> FALSE, closed |-> FALSE, awaited |-> FALSE,
     abandoned |-> degraded, degraded |-> degraded, dropped |-> 0,
     generation |-> 0]

NotReading == [open |-> <<>>, left |-> {}, got |-> <<>>, held |-> {},
               active |-> FALSE]

EmptyFile == [records |-> <<>>, torn |-> FALSE]

\* The k newest names are there, each of a full file; the active one is 0.
Left(k) ==
    /\ names = [n \in Names |-> IF n < k THEN k - n ELSE 0]
    /\ files = [f \in 1..k |-> [records |-> [i \in 1..FileRecords |->
                                               (f - 1) * FileRecords + i],
                                torn |-> FALSE]]
    /\ written = UNION {Range(files[f].records) : f \in 1..k}
    /\ records = k * FileRecords

\* An earlier deployment may have left some files behind.
LogInit ==
    /\ \E k \in 0..(Archives + 1) : Left(k)
    /\ sink = NewSink(TRUE)
    /\ store = NoWrite
    /\ health = [degraded |-> TRUE, dropped |-> 0]
    /\ counts = [offered |-> 0, acknowledged |-> 0, landed |-> 0]
    /\ opened = [processes |-> 0, up |-> FALSE]
    /\ reader = NotReading

\* The names of the ring that exist; the greater one is older
\* (pathsOldestToActive).
Ring == {n \in Names : names[n] # 0}

Recorded(n) == Range(files[names[n]].records)

Held == UNION {Recorded(n) : n \in Ring}

MutexFree == store.step \in {"NONE", "CALLED", "RESOLVED", "REJECTED"}

-----------------------------------------------------------------------------
(* The sink. *)

Idle(s) == ~s.writing /\ s.queue = <<>>

Drop(s, n) == [s EXCEPT !.degraded = TRUE, !.dropped = @ + n]

\* Every drop publishes; nothing else does.
Publish(s) ==
    health' = IF s.dropped = sink.dropped THEN health
              ELSE [degraded |-> s.degraded, dropped |-> s.dropped]

\* The sink becomes s and startWorker looks for a line: one at a time goes to
\* the driver.  Waiters are released as soon as the sink is idle.
SinkBecomes(s, resting) ==
    /\ IF ~s.writing /\ ~s.abandoned /\ s.queue # <<>>
          THEN /\ sink' = [s EXCEPT !.queue = Tail(@), !.writing = TRUE]
               /\ store' = [resting EXCEPT !.step = "CALLED", !.record = Head(s.queue),
                                           !.generation = s.generation]
          ELSE /\ sink' = [s EXCEPT !.awaited = @ /\ ~Idle(s)]
               /\ store' = resting
    /\ Publish(s)

\* append: refused when closed; the newest record is dropped by an abandoned
\* worker, a full queue or an encoding that fails.
Append1 ==
    /\ opened.up
    /\ ~sink.closed
    /\ records < MaxRecords
    /\ records' = records + 1
    /\ counts' = [counts EXCEPT !.offered = @ + 1]
    /\ \/ SinkBecomes(Drop(sink, 1), store)
       \/ /\ ~sink.abandoned
          /\ Len(sink.queue) < WaitingCapacity
          /\ SinkBecomes([sink EXCEPT !.queue = Append(@, records + 1)], store)
    /\ UNCHANGED <<names, files, written, opened, reader>>

\* The rejected line and the waiting tail are dropped; the driver is not used
\* again.
FailDriver ==
    [Drop(sink, Len(sink.queue) + (IF sink.writing THEN 1 ELSE 0)) EXCEPT
        !.writing = FALSE, !.abandoned = TRUE, !.queue = <<>>]

\* writeOne goes on after the driver's promise: an answer of an invalidated
\* worker is ignored.
WriteSettles ==
    /\ opened.up
    /\ store.step \in {"RESOLVED", "REJECTED"}
    /\ LET resting == [NoWrite EXCEPT !.failed = store.failed]
       IN  IF store.generation # sink.generation
              THEN store' = resting /\ UNCHANGED <<sink, health, counts>>
           ELSE IF store.step = "REJECTED"
              THEN SinkBecomes(FailDriver, resting) /\ UNCHANGED counts
           ELSE /\ SinkBecomes([sink EXCEPT !.writing = FALSE], resting)
                /\ counts' = [counts EXCEPT !.acknowledged = @ + 1]
    /\ UNCHANGED <<names, files, written, opened, records, reader>>

\* flush or close: waits, at most the deadline, until the sink is idle.
FlushOrClose(close) ==
    /\ opened.up
    /\ close => ~sink.closed
    /\ ~close => ~Idle(sink) /\ ~sink.awaited
    /\ sink' = [sink EXCEPT !.closed = @ \/ close, !.awaited = ~Idle(sink)]
    /\ UNCHANGED <<names, files, written, store, health, counts, opened,
                   records, reader>>

\* The deadline: the worker is invalidated, its line counted as dropped
\* although its write cannot be cancelled.
SettleTimeout ==
    /\ opened.up
    /\ sink.awaited
    /\ sink' = [FailDriver EXCEPT !.generation = @ + 1, !.awaited = FALSE]
    /\ Publish(sink')
    /\ UNCHANGED <<names, files, written, store, counts, opened, records, reader>>

-----------------------------------------------------------------------------
(* The file store: write, under its mutex. *)

Stops(outcome) ==
    store' = [store EXCEPT !.step = outcome,
                           !.failed = @ \/ outcome = "REJECTED"]

\* A write of a failed store touches no file.
Locks ==
    /\ opened.up
    /\ store.step = "CALLED"
    /\ IF store.failed THEN Stops("REJECTED")
                       ELSE store' = [store EXCEPT !.step = "LOCKED"]
    /\ UNCHANGED <<names, files, written, sink, health, counts, opened,
                   records, reader>>

\* requiresRotation: the line would not fit in the active file.
MeasuresActive ==
    /\ store.step = "LOCKED"
    /\ store' = IF Len(files[names[0]].records) < FileRecords
                   THEN [store EXCEPT !.step = "APPEND"]
                   ELSE [store EXCEPT !.step = "ROTATE", !.turn = Archives]
    /\ UNCHANGED <<names, files, written, sink, health, counts, opened,
                   records, reader>>

\* The k-th name, from the oldest: removed, or renamed to the next older one.
Turned(k) ==
    IF k = Archives THEN [names EXCEPT ![k] = 0]
    ELSE IF names[k] = 0 THEN names
    ELSE [names EXCEPT ![k + 1] = names[k], ![k] = 0]

\* rotate, one removal or rename at a time; each file is validated just before.
RotateStep(k) ==
    /\ store.step = "ROTATE" /\ store.turn = k
    /\ names' = Turned(k)
    /\ store' = IF k = 0 THEN [store EXCEPT !.step = "CREATE"]
                        ELSE [store EXCEPT !.turn = k - 1]
    /\ UNCHANGED <<files, written, sink, health, counts, opened, records, reader>>

CreateActive ==
    /\ store.step = "CREATE"
    /\ files' = Append(files, EmptyFile)
    /\ names' = [names EXCEPT ![0] = Len(files) + 1]
    /\ store' = [store EXCEPT !.step = "APPEND"]
    /\ UNCHANGED <<written, sink, health, counts, opened, records, reader>>

\* appendExactly: the line is there, and yet the closing of its file may fail.
AppendExactly ==
    /\ store.step = "APPEND"
    /\ files' = [files EXCEPT ![names[0]].records = Append(@, store.record)]
    /\ written' = written \cup {store.record}
    /\ counts' = [counts EXCEPT !.landed = @ + 1]
    /\ \E outcome \in {"RESOLVED", "REJECTED"} : Stops(outcome)
    /\ UNCHANGED <<names, sink, health, opened, records, reader>>

\* A file operation fails; an append may have left part of its line behind.
WriteFails ==
    /\ ~MutexFree
    /\ \/ UNCHANGED files
       \/ /\ store.step = "APPEND"
          /\ files' = [files EXCEPT ![names[0]].torn = TRUE]
    /\ Stops("REJECTED")
    /\ UNCHANGED <<names, written, sink, health, counts, opened, records, reader>>

\* The process dies, in the middle of an append too.
LogDies ==
    /\ opened.up
    /\ opened' = [opened EXCEPT !.up = FALSE]
    /\ \/ UNCHANGED files
       \/ /\ store.step = "APPEND"
          /\ files' = [files EXCEPT ![names[0]].torn = TRUE]
    /\ sink' = NewSink(TRUE)
    /\ store' = NoWrite
    /\ health' = [degraded |-> TRUE, dropped |-> 0]
    /\ counts' = [offered |-> 0, acknowledged |-> 0, landed |-> 0]
    /\ reader' = NotReading
    /\ UNCHANGED <<names, written, records>>

\* createRuntimeLogFileStore: every file of the ring must be readable to its
\* last line, and a missing active file is created; if not, the process runs
\* with a degraded sink that writes nothing.
OpenLog ==
    /\ ~opened.up
    /\ opened.processes < MaxProcesses
    /\ opened' = [processes |-> opened.processes + 1, up |-> TRUE]
    /\ LET torn == \E n \in Ring : files[names[n]].torn
           make == ~torn /\ names[0] = 0
       IN  /\ sink' = NewSink(torn)
           /\ health' = [degraded |-> torn, dropped |-> 0]
           /\ files' = IF make THEN Append(files, EmptyFile) ELSE files
           /\ names' = IF make THEN [names EXCEPT ![0] = Len(files) + 1] ELSE names
    /\ UNCHANGED <<written, store, counts, records, reader>>

-----------------------------------------------------------------------------
(* readOperation. *)

\* Under the mutex every existing file is opened and measured.
TakeSnapshot ==
    /\ opened.up
    /\ ~reader.active
    /\ MutexFree
    /\ names[0] # 0
    /\ reader' = [open |-> [n \in Ring |->
                              [file |-> names[n], torn |-> files[names[n]].torn,
                               length |-> Len(files[names[n]].records)]],
                  left |-> Ring, got |-> <<>>, held |-> Held, active |-> TRUE]
    /\ UNCHANGED <<names, files, written, sink, store, health, counts, opened,
                   records>>

\* A reader that goes back to the name (a mutant).
ReadsByName(n) ==
    IF names[n] = 0 THEN <<>>
    ELSE SubSeq(files[names[n]].records, 1, reader.open[n].length)

\* The measured prefix of the file that was opened.
ReadsFile(n) == SubSeq(files[reader.open[n].file].records, 1, reader.open[n].length)

\* Without the mutex, one file after the other from the oldest; a torn tail
\* fails the read.
ReadNext ==
    /\ reader.active
    /\ \E n \in reader.left :
         /\ \A m \in reader.left : m <= n
         /\ reader' = IF reader.open[n].torn THEN NotReading
                      ELSE [reader EXCEPT !.left = @ \ {n}, !.got = @ \o ReadsFile(n)]
    /\ UNCHANGED <<names, files, written, sink, store, health, counts, opened,
                   records>>

\* The answer is given, or the caller aborts.
ReadEnds ==
    /\ reader.active
    /\ reader' = NotReading
    /\ UNCHANGED <<names, files, written, sink, store, health, counts, opened,
                   records>>

-----------------------------------------------------------------------------

LogNext ==
    \/ OpenLog \/ LogDies
    \/ Append1 \/ WriteSettles \/ SettleTimeout
    \/ \E close \in BOOLEAN : FlushOrClose(close)
    \/ Locks \/ MeasuresActive \/ CreateActive \/ AppendExactly \/ WriteFails
    \/ \E k \in Names : RotateStep(k)
    \/ TakeSnapshot \/ ReadNext \/ ReadEnds

LogSpec == LogInit /\ [][LogNext]_logVars

-----------------------------------------------------------------------------
(* Properties. *)

Increasing(s) == \A i, j \in 1..Len(s) : i < j => s[i] < s[j]

\* What the ring holds, read from the oldest file to the active one, is the
\* newest records that were written, without a gap and in the order they were
\* offered: across rotations, failures and deaths between any two of their
\* steps.
LogIsASuffix ==
    /\ \A n \in Ring : Increasing(files[names[n]].records)
    /\ \A m, n \in Ring : m < n => \A a \in Recorded(n), b \in Recorded(m) : a < b
    /\ Held \subseteq written
    /\ \A a \in Held, b \in written : a < b => b \in Held

\* A read answers with the ring as it was at one moment, although records are
\* appended and files renamed and removed while it reads.
ReadsAreSnapshots ==
    reader.active /\ reader.left = {} =>
        Increasing(reader.got) /\ Range(reader.got) = reader.held

\* Every record offered to an open sink is waiting, in flight, acknowledged or
\* counted as dropped, once; a record counted as dropped is on disk only when
\* it is the one whose write was cut off or failed at the last; and the published
\* health is current.
DropsAreReported ==
    opened.up =>
        /\ counts.offered = Len(sink.queue) + (IF sink.writing THEN 1 ELSE 0)
                            + counts.acknowledged + sink.dropped
        /\ counts.landed \in counts.acknowledged..(counts.acknowledged + 1)
        /\ health = [degraded |-> sink.degraded, dropped |-> sink.dropped]

\* The log says what was written: on disk, in every read of it,
\* and in what it reports of itself.
LogIsFaithful == LogIsASuffix /\ ReadsAreSnapshots /\ DropsAreReported
=============================================================================
