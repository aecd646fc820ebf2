----------------------------- MODULE LogCollection -----------------------------
(***************************************************************************)
(* The log collection service (pkg/logcollection/service.go).  Callers     *)
(* start and stop the service, register and unregister workers and hand it *)
(* the output streams of their processes; a reader goroutine per stream    *)
(* passes the lines to the writers of the service.                         *)
(*                                                                         *)
(* The flag running is an atomic, everything else is under s.mu, which     *)
(* Stop and UnregisterWorker keep while they wait for readers.  The        *)
(* readers read s.outputs without a lock.  The writer of a file is         *)
(* modelled, the one of the console keeps nothing.                         *)
(*                                                                         *)
(* A line is numbered in its stream.  What is buffered, what the file      *)
(* holds and what was reported with recordError are sets of lines.         *)
(***************************************************************************)
EXTENDS Integers, FiniteSets

CONSTANTS
    Caller,          \* goroutines that call the service
    Owner, Client,   \* those that start and stop it, and those that collect with it
    Worker,          \* identifiers of workers
    Stream,          \* output streams of processes, each collected once
    Kind,            \* whether a stream is a "stdout" or a "stderr"
    Capture,         \* what the configuration of a worker may capture
    MaxLine,         \* bounds the lines of a stream
    MaxCollector,    \* bounds the registrations
    MaxWriter,       \* bounds the starts with aggregation
    NoCaller

ASSUME LogOK ==
    /\ Owner \subseteq Caller /\ Client \subseteq Caller
    /\ Kind \in [Stream -> {"stdout", "stderr"}]
    /\ Capture \subseteq SUBSET {"stdout", "stderr"}
    /\ MaxLine \in Nat /\ MaxCollector \in Nat /\ MaxWriter \in Nat
    /\ NoCaller \notin Caller

Collector == 1..MaxCollector
Writer == 1..MaxWriter
Line == Stream \X (1..MaxLine)

VARIABLES
    running,      \* s.running
    holder,       \* who keeps s.mu, or NoCaller
    workers,      \* s.workers: the collector of a worker, or 0
    aggregate,    \* s.config.GlobalAggregation.Enabled
    outputs,      \* s.outputs: the writer of the file, or 0
    left,         \* workers whose collector Stop has not stopped
    pc,           \* what a caller is doing
    cur,          \* the collector it does it to, or 0
    todo,         \* the streams a caller has yet to start reading
    made,         \* collectors made
    capture,      \* the streams each captures (config)
    stopCh,       \* the collectors whose stopCh is closed
    active,       \* the collectors with w.active
    rd,           \* where the reader of a stream is
    on,           \* the collector it works for, or 0
    n,            \* lines it has scanned
    writers,      \* file writers made
    file,         \* f.file of a writer
    shut,         \* the writers that Stop has closed
    buffer,       \* f.writer: the lines in its buffer
    broken,       \* the writers whose buffer could not be flushed
    disk,         \* lines in the files
    reported,     \* lines of which an error was recorded
    given,        \* lines handed to the writers
    swept,        \* collectors that a Stop of the service has stopped
    orderly       \* starts, stops and registrations came one after the other

service == <<running, holder, workers, aggregate, outputs, left>>
callers == <<pc, cur, todo>>
collectors == <<made, capture, stopCh, active>>
readers == <<rd, on, n>>
files == <<writers, file, shut, buffer, broken, disk, reported, given>>
ghosts == <<swept, orderly>>
vars == <<service, callers, collectors, readers, files, ghosts>>

CallerState == {"idle", "start", "outputs", "stop", "sweep", "sweepwait", "register",
                "unregisterwait", "released", "sweepreleased", "collect", "closepanic",
                "addpanic"}

TypeService ==
    /\ running \in BOOLEAN
    /\ holder \in Caller \cup {NoCaller}
    /\ workers \in [Worker -> Collector \cup {0}]
    /\ aggregate \in BOOLEAN
    /\ outputs \in Writer \cup {0}
    /\ left \subseteq Worker
    /\ orderly \in BOOLEAN

TypeCallers ==
    /\ pc \in [Caller -> CallerState]
    /\ cur \in [Caller -> Collector \cup {0}]
    /\ todo \in [Caller -> SUBSET Stream]

TypeCollectors ==
    /\ made \in 0..MaxCollector
    /\ capture \in [Collector -> SUBSET {"stdout", "stderr"}]
    /\ stopCh \subseteq Collector
    /\ active \subseteq Collector
    /\ swept \subseteq Collector

TypeReaders ==
    /\ rd \in [Stream -> {"none", "scan", "check", "write", "done", "panicked"}]
    /\ on \in [Stream -> Collector \cup {0}]
    /\ n \in [Stream -> 0..MaxLine]

TypeFiles ==
    /\ writers \in 0..MaxWriter
    /\ file \in [Writer -> {"nil", "open", "closed"}]
    /\ shut \subseteq Writer
    /\ buffer \in [Writer -> SUBSET Line]
    /\ broken \subseteq Writer
    /\ disk \subseteq Line /\ reported \subseteq Line /\ given \subseteq Line

TypeOK == TypeService /\ TypeCallers /\ TypeCollectors /\ TypeReaders /\ TypeFiles

\* NewLogCollectionService
Init ==
    /\ running = FALSE /\ holder = NoCaller /\ aggregate \in BOOLEAN
    /\ workers = [w \in Worker |-> 0] /\ outputs = 0 /\ left = {}
    /\ pc = [c \in Caller |-> "idle"] /\ cur = [c \in Caller |-> 0]
    /\ todo = [c \in Caller |-> {}]
    /\ made = 0 /\ capture = [k \in Collector |-> {}] /\ stopCh = {} /\ active = {}
    /\ rd = [s \in Stream |-> "none"] /\ on = [s \in Stream |-> 0] /\ n = [s \in Stream |-> 0]
    /\ writers = 0 /\ file = [w \in Writer |-> "nil"] /\ shut = {}
    /\ buffer = [w \in Writer |-> {}] /\ broken = {}
    /\ disk = {} /\ reported = {} /\ given = {}
    /\ swept = {} /\ orderly = TRUE

Starting == \E c \in Caller : pc[c] \in {"start", "outputs"}
Stopping == \E c \in Caller : pc[c] \in {"stop", "sweep", "sweepwait", "sweepreleased"}
Panicked ==
    \/ \E c \in Caller : pc[c] \in {"closepanic", "addpanic"}
    \/ \E s \in Stream : rd[s] = "panicked"

Free == holder = NoCaller
Goto(c, place) == pc' = [pc EXCEPT ![c] = place]
Return(c) == Goto(c, "idle") /\ cur' = [cur EXCEPT ![c] = 0]

\* w.wg of collector k counts a reader.
Live(s) == rd[s] \in {"scan", "check", "write", "panicked"}
Read(k) == \E s \in Stream : Live(s) /\ on[s] = k
-----------------------------------------------------------------------------
(* Starting the service.                                                     *)

\* Start: the flag is set before the lock is taken.
Start(c) ==
    /\ pc[c] = "idle" /\ ~running /\ writers < MaxWriter
    /\ running' = TRUE
    /\ Goto(c, "start")
    /\ orderly' = (orderly /\ ~Starting /\ ~Stopping)
    /\ UNCHANGED <<holder, workers, aggregate, outputs, left, cur, todo, collectors, readers,
                   files, swept>>

\* A service that does not aggregate keeps the outputs it had.
StartPlain(c) ==
    /\ pc[c] = "start" /\ Free /\ ~aggregate
    /\ Goto(c, "idle")
    /\ orderly' = (orderly /\ outputs = 0)
    /\ UNCHANGED <<service, cur, todo, collectors, readers, files, swept>>

\* initializeOutputs replaces s.outputs by an empty slice, then appends the new writer to it.
StartLocked(c) ==
    /\ pc[c] = "start" /\ Free /\ aggregate
    /\ writers < MaxWriter
    /\ writers' = writers + 1
    /\ holder' = c
    /\ Goto(c, "outputs")
    /\ UNCHANGED <<running, workers, aggregate, outputs, left, cur, todo, collectors, readers,
                   file, shut, buffer, broken, disk, reported, given, ghosts>>

InitializeOutputs(c) ==
    /\ pc[c] = "outputs"
    /\ outputs' = writers
    /\ holder' = NoCaller
    /\ Goto(c, "idle")
    /\ UNCHANGED <<running, workers, aggregate, left, cur, todo, collectors, readers, files,
                   ghosts>>
-----------------------------------------------------------------------------
(* Stopping a collector: stop() closes stopCh, which panics when it is       *)
(* closed already, and waits for the readers.                                *)

CloseStopCh(c, k, place) ==
    /\ cur' = [cur EXCEPT ![c] = k]
    /\ IF k \in stopCh THEN Goto(c, "closepanic") ELSE Goto(c, place)
    /\ stopCh' = stopCh \cup {k}

\* w.wg.Wait returns: there is no reader, or the last one has woken it up.
Waited(c, waiting, woken) == pc[c] = woken \/ (pc[c] = waiting /\ ~Read(cur[c]))
-----------------------------------------------------------------------------
(* Stopping the service.                                                     *)

Stop(c) ==
    /\ pc[c] = "idle" /\ running
    /\ running' = FALSE
    /\ Goto(c, "stop")
    /\ orderly' = (orderly /\ ~Starting /\ ~Stopping)
    /\ UNCHANGED <<holder, workers, aggregate, outputs, left, cur, todo, collectors, readers,
                   files, swept>>

StopLocked(c) ==
    /\ pc[c] = "stop" /\ Free
    /\ holder' = c
    /\ left' = {w \in Worker : workers[w] # 0}
    /\ Goto(c, "sweep")
    /\ UNCHANGED <<running, workers, aggregate, outputs, cur, todo, collectors, readers, files,
                   ghosts>>

\* The collectors in the order of the map; they stay registered.
StopCollector(c, w) ==
    /\ pc[c] = "sweep" /\ w \in left
    /\ left' = left \ {w}
    /\ CloseStopCh(c, workers[w], "sweepwait")
    /\ UNCHANGED <<running, holder, workers, aggregate, outputs, todo, made, capture, active,
                   readers, files, ghosts>>

CollectorStopped(c) ==
    /\ Waited(c, "sweepwait", "sweepreleased")
    /\ active' = active \ {cur[c]}
    /\ swept' = swept \cup {cur[c]}
    /\ Goto(c, "sweep")
    /\ cur' = [cur EXCEPT ![c] = 0]
    /\ UNCHANGED <<service, todo, made, capture, stopCh, readers, files, orderly>>

\* Mutant: the file is closed without a flush.
CloseFileUnflushed(f, flushed) ==
    /\ file' = [file EXCEPT ![f] = IF @ = "nil" THEN "nil" ELSE "closed"]
    /\ shut' = shut \cup {f}
    /\ UNCHANGED <<disk, buffer, broken>>

\* Close flushes the buffer, whose error is not returned, and closes the file if it was opened.
CloseFile(f, flushed) ==
    /\ disk' = IF flushed THEN disk \cup buffer[f] ELSE disk
    /\ buffer' = IF flushed THEN [buffer EXCEPT ![f] = {}] ELSE buffer
    /\ broken' = IF flushed THEN broken ELSE broken \cup {f}
    /\ file' = [file EXCEPT ![f] = IF @ = "nil" THEN "nil" ELSE "closed"]
    /\ shut' = shut \cup {f}

CanFlush(f) == buffer[f] = {} \/ (file[f] = "open" /\ f \notin broken)

CloseOutputs(c) ==
    /\ pc[c] = "sweep" /\ left = {}
    /\ IF outputs = 0
         THEN UNCHANGED <<disk, buffer, broken, file, shut>>
         ELSE \E flushed \in BOOLEAN :
                 /\ flushed => CanFlush(outputs)
                 /\ ~flushed => buffer[outputs] # {}
                 /\ CloseFile(outputs, flushed)
    /\ holder' = NoCaller
    /\ Goto(c, "idle")
    /\ UNCHANGED <<running, workers, aggregate, outputs, left, cur, todo, collectors, readers,
                   writers, reported, given, ghosts>>
-----------------------------------------------------------------------------
(* Workers.                                                                  *)

\* RegisterWorker looks at the flag before it takes the lock.
RegisterWorker(c) ==
    /\ pc[c] = "idle" /\ running
    /\ Goto(c, "register")
    /\ UNCHANGED <<service, cur, todo, collectors, readers, files, ghosts>>

\* Mutant: a second registration replaces the collector.
RegisterAgain(c, w) ==
    /\ pc[c] = "register" /\ Free
    /\ Goto(c, "idle")
    /\ made < MaxCollector
    /\ made' = made + 1
    /\ \E kinds \in Capture : capture' = [capture EXCEPT ![made + 1] = kinds]
    /\ workers' = [workers EXCEPT ![w] = made + 1]
    /\ orderly' = (orderly /\ running /\ ~Starting)
    /\ UNCHANGED <<stopCh, active>>
    /\ UNCHANGED <<running, holder, aggregate, outputs, left, cur, todo, readers, files, swept>>

\* A second registration of a worker is a conflict.
RegisterLocked(c, w) ==
    /\ pc[c] = "register" /\ Free
    /\ Goto(c, "idle")
    /\ IF workers[w] # 0
         THEN UNCHANGED <<workers, collectors, orderly>>
         ELSE /\ made < MaxCollector
              /\ made' = made + 1
              /\ \E kinds \in Capture : capture' = [capture EXCEPT ![made + 1] = kinds]
              /\ workers' = [workers EXCEPT ![w] = made + 1]
              /\ orderly' = (orderly /\ running /\ ~Starting)
              /\ UNCHANGED <<stopCh, active>>
    /\ UNCHANGED <<running, holder, aggregate, outputs, left, cur, todo, readers, files, swept>>

UnregisterWorker(c, w) ==
    /\ pc[c] = "idle" /\ Free /\ workers[w] # 0
    /\ holder' = c
    /\ CloseStopCh(c, workers[w], "unregisterwait")
    /\ UNCHANGED <<running, workers, aggregate, outputs, left, todo, made, capture, active,
                   readers, files, ghosts>>

\* Mutant: the worker is stopped but not deleted.
WorkerUnregisteredKept(c) ==
    /\ Waited(c, "unregisterwait", "released")
    /\ active' = active \ {cur[c]}
    /\ holder' = NoCaller
    /\ Return(c)
    /\ UNCHANGED <<running, workers, aggregate, outputs, left, todo, made, capture, stopCh,
                   readers, files, ghosts>>

\* Mutant: the lock is not released.
WorkerUnregisteredLocked(c) ==
    /\ Waited(c, "unregisterwait", "released")
    /\ active' = active \ {cur[c]}
    /\ workers' = [w \in Worker |-> IF workers[w] = cur[c] THEN 0 ELSE workers[w]]
    /\ Return(c)
    /\ UNCHANGED <<running, holder, aggregate, outputs, left, todo, made, capture, stopCh,
                   readers, files, ghosts>>

WorkerUnregistered(c) ==
    /\ Waited(c, "unregisterwait", "released")
    /\ active' = active \ {cur[c]}
    /\ workers' = [w \in Worker |-> IF workers[w] = cur[c] THEN 0 ELSE workers[w]]
    /\ holder' = NoCaller
    /\ Return(c)
    /\ UNCHANGED <<running, aggregate, outputs, left, todo, made, capture, stopCh, readers,
                   files, ghosts>>

UpdateConfiguration(c, enabled) ==
    /\ pc[c] = "idle" /\ Free
    /\ aggregate' = enabled
    /\ UNCHANGED <<running, holder, workers, outputs, left, callers, collectors, readers, files,
                   ghosts>>
-----------------------------------------------------------------------------
(* Collecting.                                                               *)

\* Streams of a process that nobody reads.
Fresh == {s \in Stream : rd[s] = "none" /\ \A c \in Caller : s \notin todo[c]}

\* getWorker, then the streams that the configuration of the worker captures.
Collect(c, w, streams) ==
    /\ pc[c] = "idle" /\ Free /\ workers[w] # 0
    /\ streams # {} /\ streams \subseteq Fresh
    /\ \A s, t \in streams : Kind[s] = Kind[t] => s = t
    /\ \A s \in streams : Kind[s] \in capture[workers[w]]
    /\ cur' = [cur EXCEPT ![c] = workers[w]]
    /\ todo' = [todo EXCEPT ![c] = streams]
    /\ Goto(c, "collect")
    /\ UNCHANGED <<service, collectors, readers, files, ghosts>>

CollectFromStream(c, w) == \E s \in Stream : Collect(c, w, {s})
CollectFromProcess(c, w) == \E s, t \in Stream : s # t /\ Collect(c, w, {s, t})

\* collectFromStream of the collector, the standard output first.
StartReader(c, s) ==
    /\ pc[c] = "collect" /\ s \in todo[c]
    /\ \A t \in todo[c] : Kind[t] = "stdout" => Kind[s] = "stdout"
    /\ active' = active \cup {cur[c]}
    /\ rd' = [rd EXCEPT ![s] = "scan"]
    /\ on' = [on EXCEPT ![s] = cur[c]]
    /\ todo' = [todo EXCEPT ![c] = @ \ {s}]
    /\ IF todo[c] = {s} THEN Return(c) ELSE UNCHANGED <<pc, cur>>
    /\ UNCHANGED <<service, made, capture, stopCh, n, files, ghosts>>

\* wg.Add while the last Done is waking up a Wait: the runtime panics.
AddPanics(c) ==
    /\ pc[c] = "collect"
    /\ \E d \in Caller : pc[d] \in {"released", "sweepreleased"} /\ cur[d] = cur[c]
    /\ Goto(c, "addpanic")
    /\ UNCHANGED <<service, cur, todo, collectors, readers, files, ghosts>>
-----------------------------------------------------------------------------
(* Readers.                                                                  *)

\* scanner.Scan returns a line.
Scan(s) ==
    /\ rd[s] = "scan" /\ n[s] < MaxLine
    /\ n' = [n EXCEPT ![s] = @ + 1]
    /\ rd' = [rd EXCEPT ![s] = "check"]
    /\ UNCHANGED <<service, callers, collectors, on, files, ghosts>>

\* wg.Done: the last one wakes up a Wait that has begun.
Done(s) ==
    /\ rd' = [rd EXCEPT ![s] = "done"]
    /\ \/ UNCHANGED pc
       \/ /\ ~\E t \in Stream \ {s} : Live(t) /\ on[t] = on[s]
          /\ \E c \in Caller :
                /\ pc[c] \in {"sweepwait", "unregisterwait"} /\ cur[c] = on[s]
                /\ Goto(c, IF pc[c] = "sweepwait" THEN "sweepreleased" ELSE "released")

\* Mutant: the end of the stream leaves the collector active.
StreamEndsActive(s) ==
    /\ rd[s] = "scan"
    /\ Done(s)
    /\ UNCHANGED <<service, cur, todo, collectors, on, n, files, ghosts>>

\* The stream ends, or its next line is too long for the scanner.
StreamEnds(s) ==
    /\ rd[s] = "scan"
    /\ active' = active \ {on[s]}
    /\ Done(s)
    /\ UNCHANGED <<service, cur, todo, made, capture, stopCh, on, n, files, ghosts>>

\* A reader that has a line finds stopCh closed, and drops the line.
Quits(s) ==
    /\ rd[s] = "check" /\ on[s] \in stopCh
    /\ Done(s)
    /\ UNCHANGED <<service, cur, todo, collectors, on, n, files, ghosts>>

GoesOn(s) ==
    /\ rd[s] = "check" /\ on[s] \notin stopCh
    /\ rd' = [rd EXCEPT ![s] = "write"]
    /\ UNCHANGED <<service, callers, collectors, on, n, files, ghosts>>
-----------------------------------------------------------------------------
(* Writing.                                                                  *)

\* What an unlocked read of s.outputs may see.
Seen == {outputs} \cup {0 : c \in {d \in Caller : pc[d] = "outputs"}}

\* The pointer of the new slice with the length of the old one: its element is nil.
Torn == outputs # 0 /\ \E c \in Caller : pc[c] = "outputs"

\* ensureFileOpen fails, or the buffer had an error before: Write returns an error.
WriteFails(f, lines) ==
    /\ file[f] = "nil" \/ f \in broken
    /\ reported' = reported \cup lines
    /\ UNCHANGED <<file, buffer, broken, disk>>

\* The line fits into the buffer, which is flushed first if it is full.
WriteBuffered(f, lines) ==
    /\ f \notin broken
    /\ file' = [file EXCEPT ![f] = IF @ = "nil" THEN "open" ELSE @]
    /\ \/ /\ buffer' = [buffer EXCEPT ![f] = @ \cup lines]
          /\ UNCHANGED disk
       \/ /\ file[f] = "open"
          /\ buffer' = [buffer EXCEPT ![f] = lines]
          /\ disk' = disk \cup buffer[f]
    /\ UNCHANGED <<broken, reported>>

\* The flush of a full buffer fails.
FlushFails(f, lines) ==
    /\ f \notin broken /\ file[f] # "nil"
    /\ broken' = broken \cup {f}
    /\ reported' = reported \cup lines
    /\ UNCHANGED <<file, buffer, disk>>

\* writeToOutputs
WriteToOutputs(f, lines) ==
    IF f = 0 THEN UNCHANGED <<file, buffer, broken, disk, reported>>
    ELSE WriteFails(f, lines) \/ WriteBuffered(f, lines) \/ FlushFails(f, lines)

\* A service that has no outputs and is not starting was given nothing to keep.
ProcessLine(s) ==
    /\ rd[s] = "write"
    /\ \E f \in Seen :
          /\ WriteToOutputs(f, {<<s, n[s]>>})
          /\ given' = IF f = 0 /\ ~Starting THEN given ELSE given \cup {<<s, n[s]>>}
    /\ rd' = [rd EXCEPT ![s] = "scan"]
    /\ UNCHANGED <<service, callers, collectors, on, n, writers, shut, ghosts>>

\* The reader calls the Write of a nil writer.
ReaderPanics(s) ==
    /\ rd[s] = "write" /\ Torn
    /\ rd' = [rd EXCEPT ![s] = "panicked"]
    /\ UNCHANGED <<service, callers, collectors, on, n, files, ghosts>>
-----------------------------------------------------------------------------
Call(c) ==
    \/ c \in Owner /\ (Start(c) \/ Stop(c))
    \/ c \in Owner /\ \E enabled \in BOOLEAN : UpdateConfiguration(c, enabled)
    \/ c \in Client /\ RegisterWorker(c)
    \/ /\ c \in Client
       /\ \E w \in Worker : \/ UnregisterWorker(c, w) \/ CollectFromStream(c, w)
                            \/ CollectFromProcess(c, w)

\* What a caller does without waiting for anybody but the lock.
Advance(c) ==
    \/ StartPlain(c) \/ StartLocked(c) \/ InitializeOutputs(c)
    \/ StopLocked(c) \/ CollectorStopped(c) \/ CloseOutputs(c) \/ WorkerUnregistered(c)
    \/ \E w \in Worker : StopCollector(c, w) \/ RegisterLocked(c, w)
    \/ \E s \in Stream : StartReader(c, s)
    \/ AddPanics(c)

Process(s) == Quits(s) \/ GoesOn(s) \/ ProcessLine(s) \/ ReaderPanics(s)

Next ==
    /\ ~Panicked
    /\ \/ \E c \in Caller : Call(c) \/ Advance(c)
       \/ \E s \in Stream : Scan(s) \/ StreamEnds(s) \/ Process(s)

Spec == Init /\ [][Next]_vars

\* Goroutines run and the lock reaches those who wait; nothing makes a stream go on or end.
Fairness ==
    /\ \A c \in Caller : SF_vars(~Panicked /\ Advance(c))
    /\ \A s \in Stream : WF_vars(~Panicked /\ Process(s))

FairSpec == Spec /\ Fairness
-----------------------------------------------------------------------------
\* stop() of the collector has returned.
Stopped(k) ==
    /\ k \in stopCh
    /\ \A c \in Caller :
          pc[c] \in {"sweepwait", "sweepreleased", "unregisterwait", "released"} => cur[c] # k

\* Once the stop of a collector has returned no reader of it hands a line to the writers,
\* whoever started reading, and when (stop, streamReader).
QuietAfterStop == \A s \in Stream : Stopped(on[s]) => rd[s] # "write"

\* The service as its callers may think of it: without the lock, and with collectors that are
\* open, told to stop or stopped.  A panic changes nothing there.
Registry == INSTANCE CollectorRegistry WITH
    None <- 0,
    registered <- workers,
    known <- 1..made,
    closing <- stopCh,
    stopped <- {k \in Collector : Stopped(k)},
    handing <- {s \in Stream : rd[s] = "write"}

\* Every step of the service is one of CollectorRegistry or changes nothing there: a worker gets
\* a collector only when it has none, a collector that was told to stop hands over no more lines
\* and is never opened again, and its worker is forgotten only when the stop has returned
\* (RegisterWorker, UnregisterWorker, Stop, stop, streamReader).
ImplementsRegistry == Registry!Spec

\* As long as starts, stops and registrations do not overlap, and a service that aggregated is
\* not started without aggregation, a line that a reader handed to the writers is in the file,
\* or its error was recorded, or it waits in the buffer of a writer that Stop has yet to close;
\* or the file could not be written (Stop, writeToOutputs, fileWriter).
NoSilentLoss ==
    orderly =>
        \A l \in given :
            \/ l \in disk \cup reported
            \/ \E f \in Writer : l \in buffer[f] /\ (f \in broken \/ f \notin shut)

\* The stop channel of a collector is closed twice only if a Stop of the service stopped it and
\* left it registered, and a reader meets a half written s.outputs only if the calls overlapped
\* (Stop, UnregisterWorker, initializeOutputs).
PanicsExplained ==
    /\ \A c \in Caller : pc[c] = "closepanic" => cur[c] \in swept
    /\ orderly => \A s \in Stream : rd[s] # "panicked"

\* The status of a worker with one stream says active exactly while its stream is read
\* (collectFromStream, streamReader, getStatus).
ActiveTellsTruth ==
    \A k \in Collector \ stopCh :
        (\A s, t \in Stream : on[s] = k /\ on[t] = k => s = t) => (k \in active <=> Read(k))

\* A Stop of the service returns, or a reader that it has to wait for is blocked for ever on a
\* stream that neither goes on nor ends, or the program has panicked (Stop, stop).
StopReturnsOrSilent ==
    \A c \in Caller :
        \/ []<>(pc[c] \notin {"stop", "sweep", "sweepwait", "sweepreleased"})
        \/ <>[](\E s \in Stream : rd[s] = "scan" /\ on[s] \in stopCh)
        \/ <>[]Panicked
=============================================================================
