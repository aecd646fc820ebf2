-------------------------- MODULE LogCollectionProofs --------------------------
(***************************************************************************)
(* Theorems about LogCollection, for every set of callers, workers and     *)
(* streams and every bound.  Inv relates the lock, the collectors and the  *)
(* readers to what the callers are doing; it is inductive and carries the  *)
(* type invariant, QuietAfterStop and PanicsExplained.  OrderInv says what *)
(* orderly calls add to it, and carries NoSilentLoss.                      *)
(***************************************************************************)
EXTENDS LogCollection, TLAPS

Waits == {"sweepwait", "sweepreleased", "unregisterwait", "released"}
Sweeps == {"sweep", "sweepwait", "sweepreleased"}

\* Who is past the lock in Start, Stop and UnregisterWorker keeps it.
LockInv == \A c \in Caller : pc[c] \in {"outputs", "sweep"} \cup Waits => holder = c

\* What is left to a Stop is registered.
LeftInv ==
    \A w \in left : /\ workers[w] # 0
                    /\ \E c \in Caller : pc[c] \in Sweeps \cup {"closepanic"}

\* Collectors are made before they are used, each for one worker.
MadeInv ==
    /\ \A w \in Worker : workers[w] <= made
    /\ \A v, w \in Worker : workers[v] = workers[w] /\ workers[w] # 0 => v = w
    /\ \A k \in stopCh \cup swept : k <= made
    /\ \A c \in Caller : cur[c] <= made
    /\ \A s \in Stream : on[s] <= made

\* Who waits for a collector has closed its stop channel, who collects has looked it up.
CurInv ==
    \A c \in Caller : /\ pc[c] \in Waits => cur[c] \in stopCh
                      /\ pc[c] = "collect" => cur[c] # 0

\* A stream that is to be read has no reader, and one caller has it.
TodoInv ==
    \A c \in Caller : \A s \in todo[c] :
        /\ pc[c] \in {"collect", "addpanic"} /\ rd[s] = "none"
        /\ \A d \in Caller : s \in todo[d] => c = d

ReaderInv ==
    \A s \in Stream : /\ rd[s] = "none" <=> on[s] = 0
                      /\ rd[s] \in {"check", "write"} => n[s] > 0

\* Writers are made before they are used, and the one that is made is not closed.
WriterInv ==
    /\ \A f \in shut \cup {outputs} : f <= writers
    /\ \A c \in Caller : pc[c] = "outputs" => writers # 0 /\ writers \notin shut

Inv == TypeOK /\ LockInv /\ LeftInv /\ MadeInv /\ CurInv /\ TodoInv /\ ReaderInv /\ WriterInv

\* The assumptions on the bounds.
LEMMA Bounds == MaxLine \in Nat /\ MaxCollector \in Nat /\ MaxWriter \in Nat /\ NoCaller \notin Caller
  BY LogOK

(***************************************************************************)
(* The steps, one lemma for each part of the invariant.                    *)
(***************************************************************************)

\* Every step keeps the types of the fields of the service.
LEMMA ServiceTypeStep ==
    ASSUME TypeOK, WriterInv, [Next]_vars
    PROVE  TypeService'
  <1> USE Bounds DEF TypeOK, TypeService, Collector, Writer
  <1>1. ASSUME ~Panicked, NEW c \in Caller, Call(c)
         PROVE  TypeService'
    <2>1. CASE Start(c) \/ Stop(c) \/ RegisterWorker(c)
      BY <2>1, <1>1 DEF Start, Stop, RegisterWorker, Goto, service, callers, collectors, readers,
         files, ghosts
    <2>2. ASSUME NEW enabled \in BOOLEAN, UpdateConfiguration(c, enabled) PROVE TypeService'
      BY <2>2, <1>1 DEF UpdateConfiguration, Free, Goto, service, callers, collectors, readers,
         files, ghosts
    <2>3. ASSUME NEW w \in Worker, UnregisterWorker(c, w) \/ CollectFromStream(c, w) \/
       CollectFromProcess(c, w) PROVE TypeService'
      BY <2>3, <1>1 DEF UnregisterWorker, CloseStopCh, Free, CollectFromStream, Collect, Fresh,
         CollectFromProcess, Goto, service, callers, collectors, readers, files, ghosts
    <2> QED
      BY <1>1, <2>1, <2>2, <2>3 DEF Call
  <1>2. ASSUME ~Panicked, NEW c \in Caller, Advance(c)
         PROVE  TypeService'
    <2>1. CASE StartPlain(c) \/ StartLocked(c) \/ StopLocked(c)
      BY <2>1, <1>2 DEF StartPlain, Free, StartLocked, StopLocked, Goto, service, callers,
         collectors, readers, files, ghosts
    <2>2. CASE InitializeOutputs(c)
      BY <2>2, <1>2 DEF InitializeOutputs, TypeFiles, WriterInv, Goto, service, callers,
         collectors, readers, files, ghosts
    <2>3. CASE CollectorStopped(c) \/ CloseOutputs(c) \/ WorkerUnregistered(c)
      BY <2>3, <1>2 DEF CollectorStopped, Waited, CloseOutputs, CloseFile, WorkerUnregistered,
         Return, Goto, service, callers, collectors, readers, files, ghosts
    <2>4. ASSUME NEW w \in Worker, StopCollector(c, w) PROVE TypeService'
      BY <2>4, <1>2 DEF StopCollector, CloseStopCh, Goto, service, callers, collectors, readers,
         files, ghosts
    <2>5. ASSUME NEW w \in Worker, RegisterLocked(c, w) PROVE TypeService'
      <3>1. made \in Nat /\ (made < MaxCollector => made + 1 \in 1..MaxCollector)
        BY DEF TypeCollectors
      <3>2. workers' \in [Worker -> Collector \cup {0}]
        BY <2>5, <3>1 DEF RegisterLocked, collectors
      <3> QED
        BY <2>5, <3>2 DEF RegisterLocked
    <2>6. ASSUME NEW s \in Stream, StartReader(c, s) PROVE TypeService'
      BY <2>6, <1>2 DEF StartReader, Return, Goto, service, callers, collectors, readers, files,
         ghosts
    <2>7. CASE AddPanics(c)
      BY <2>7, <1>2 DEF AddPanics, Goto, service, callers, collectors, readers, files, ghosts
    <2> QED
      BY <1>2, <2>1, <2>2, <2>3, <2>4, <2>5, <2>6, <2>7 DEF Advance
  <1>3. ASSUME ~Panicked, NEW r \in Stream, Scan(r) \/ StreamEnds(r) \/ Process(r)
         PROVE  TypeService'
    <2>1. CASE Scan(r) \/ StreamEnds(r) \/ Quits(r)
      BY <2>1, <1>3 DEF Scan, StreamEnds, Done, Quits, Goto, service, callers, collectors,
         readers, files, ghosts
    <2>2. CASE GoesOn(r) \/ ProcessLine(r) \/ ReaderPanics(r)
      BY <2>2, <1>3 DEF GoesOn, ProcessLine, WriteToOutputs, WriteFails, WriteBuffered,
         FlushFails, Seen, ReaderPanics, Torn, Goto, service, callers, collectors, readers,
         files, ghosts
    <2> QED
      BY <1>3, <2>1, <2>2 DEF Process
  <1>4. CASE UNCHANGED vars
    BY <1>4 DEF vars, service, callers, collectors, readers, files, ghosts
  <1> QED
    BY <1>1, <1>2, <1>3, <1>4 DEF Next

\* Every step keeps the types of the callers.
LEMMA CallerTypeStep ==
    ASSUME TypeOK, LeftInv, [Next]_vars
    PROVE  TypeCallers'
  <1> USE Bounds DEF TypeOK, TypeCallers, CallerState
  <1>1. ASSUME ~Panicked, NEW c \in Caller, Call(c)
         PROVE  TypeCallers'
    <2>1. CASE Start(c) \/ Stop(c) \/ RegisterWorker(c)
      BY <2>1, <1>1 DEF Start, Stop, RegisterWorker, Goto, service, callers, collectors, readers,
         files, ghosts
    <2>2. ASSUME NEW enabled \in BOOLEAN, UpdateConfiguration(c, enabled) PROVE TypeCallers'
      BY <2>2, <1>1 DEF UpdateConfiguration, Free, Goto, service, callers, collectors, readers,
         files, ghosts
    <2>3. ASSUME NEW w \in Worker, UnregisterWorker(c, w) PROVE TypeCallers'
      BY <2>3, <1>1 DEF UnregisterWorker, CloseStopCh, Free, TypeService, Goto, service, callers,
         collectors, readers, files, ghosts
    <2>4. ASSUME NEW w \in Worker, CollectFromStream(c, w) PROVE TypeCallers'
      <3>1. workers[w] \in Collector \cup {0}
        BY DEF TypeService
      <3>2. PICK t \in Stream : Collect(c, w, {t})
        BY <2>4 DEF CollectFromStream
      <3> QED
        BY <3>1, <3>2 DEF Collect, Goto
    <2>5. ASSUME NEW w \in Worker, CollectFromProcess(c, w) PROVE TypeCallers'
      <3>1. workers[w] \in Collector \cup {0}
        BY DEF TypeService
      <3>2. PICK t, u \in Stream : Collect(c, w, {t, u})
        BY <2>5 DEF CollectFromProcess
      <3> QED
        BY <3>1, <3>2 DEF Collect, Goto
    <2> QED
      BY <1>1, <2>1, <2>2, <2>3, <2>4, <2>5 DEF Call
  <1>2. ASSUME ~Panicked, NEW c \in Caller, Advance(c)
         PROVE  TypeCallers'
    <2>1. CASE StartPlain(c) \/ StartLocked(c) \/ InitializeOutputs(c)
      BY <2>1, <1>2 DEF StartPlain, Free, StartLocked, InitializeOutputs, Goto, service, callers,
         collectors, readers, files, ghosts
    <2>2. CASE StopLocked(c) \/ CollectorStopped(c) \/ CloseOutputs(c)
      BY <2>2, <1>2 DEF StopLocked, Free, CollectorStopped, Waited, CloseOutputs, CloseFile,
         Goto, service, callers, collectors, readers, files, ghosts
    <2>3. CASE WorkerUnregistered(c) \/ AddPanics(c)
      BY <2>3, <1>2 DEF WorkerUnregistered, Return, Waited, AddPanics, Goto, service, callers,
         collectors, readers, files, ghosts
    <2>4. ASSUME NEW w \in Worker, StopCollector(c, w) PROVE TypeCallers'
      BY <2>4, <1>2 DEF StopCollector, CloseStopCh, TypeService, Goto, service, callers,
         collectors, readers, files, ghosts
    <2>5. ASSUME NEW w \in Worker, RegisterLocked(c, w) PROVE TypeCallers'
      BY <2>5, <1>2 DEF RegisterLocked, Free, Goto, service, callers, collectors, readers, files,
         ghosts
    <2>6. ASSUME NEW s \in Stream, StartReader(c, s) PROVE TypeCallers'
      BY <2>6, <1>2 DEF StartReader, Return, Goto, service, callers, collectors, readers, files,
         ghosts
    <2> QED
      BY <1>2, <2>1, <2>2, <2>3, <2>4, <2>5, <2>6 DEF Advance
  <1>3. ASSUME ~Panicked, NEW r \in Stream, Scan(r) \/ StreamEnds(r) \/ Process(r)
         PROVE  TypeCallers'
    <2>1. CASE Scan(r) \/ StreamEnds(r) \/ Quits(r)
      BY <2>1, <1>3 DEF Scan, StreamEnds, Done, Quits, Goto, service, callers, collectors,
         readers, files, ghosts
    <2>2. CASE GoesOn(r) \/ ProcessLine(r) \/ ReaderPanics(r)
      BY <2>2, <1>3 DEF GoesOn, ProcessLine, WriteToOutputs, WriteFails, WriteBuffered,
         FlushFails, Seen, ReaderPanics, Torn, Goto, service, callers, collectors, readers,
         files, ghosts
    <2> QED
      BY <1>3, <2>1, <2>2 DEF Process
  <1>4. CASE UNCHANGED vars
    BY <1>4 DEF vars, service, callers, collectors, readers, files, ghosts
  <1> QED
    BY <1>1, <1>2, <1>3, <1>4 DEF Next

\* Every step keeps the types of the collectors.
LEMMA CollectorTypeStep ==
    ASSUME TypeOK, LeftInv, CurInv, [Next]_vars
    PROVE  TypeCollectors'
  <1> USE Bounds DEF TypeOK, TypeCollectors
  <1>1. ASSUME ~Panicked, NEW c \in Caller, Call(c)
         PROVE  TypeCollectors'
    <2>1. CASE Start(c) \/ Stop(c) \/ RegisterWorker(c)
      BY <2>1, <1>1 DEF Start, Stop, RegisterWorker, Goto, service, callers, collectors, readers,
         files, ghosts
    <2>2. ASSUME NEW enabled \in BOOLEAN, UpdateConfiguration(c, enabled) PROVE TypeCollectors'
      BY <2>2, <1>1 DEF UpdateConfiguration, Free, Goto, service, callers, collectors, readers,
         files, ghosts
    <2>3. ASSUME NEW w \in Worker, UnregisterWorker(c, w) PROVE TypeCollectors'
      <3>1. workers[w] \in Collector
        BY <2>3 DEF UnregisterWorker, TypeService
      <3> QED
        BY <2>3, <3>1 DEF UnregisterWorker, CloseStopCh, ghosts
    <2>4. ASSUME NEW w \in Worker, CollectFromStream(c, w) \/ CollectFromProcess(c, w) PROVE
       TypeCollectors'
      BY <2>4, <1>1 DEF CollectFromStream, Collect, Fresh, Free, CollectFromProcess, Goto,
         service, callers, collectors, readers, files, ghosts
    <2> QED
      BY <1>1, <2>1, <2>2, <2>3, <2>4 DEF Call
  <1>2. ASSUME ~Panicked, NEW c \in Caller, Advance(c)
         PROVE  TypeCollectors'
    <2>1. CASE StartPlain(c) \/ StartLocked(c) \/ InitializeOutputs(c)
      BY <2>1, <1>2 DEF StartPlain, Free, StartLocked, InitializeOutputs, Goto, service, callers,
         collectors, readers, files, ghosts
    <2>2. CASE StopLocked(c) \/ CloseOutputs(c) \/ WorkerUnregistered(c)
      BY <2>2, <1>2 DEF StopLocked, Free, CloseOutputs, CloseFile, WorkerUnregistered, Return,
         Waited, Goto, service, callers, collectors, readers, files, ghosts
    <2>3. CASE CollectorStopped(c)
      <3>1. cur[c] \in Collector
        BY <2>3 DEF CollectorStopped, Waited, CurInv, Waits
      <3> QED
        BY <2>3, <3>1 DEF CollectorStopped
    <2>4. ASSUME NEW w \in Worker, StopCollector(c, w) PROVE TypeCollectors'
      <3>1. workers[w] \in Collector
        BY <2>4 DEF StopCollector, TypeService, LeftInv
      <3> QED
        BY <2>4, <3>1 DEF StopCollector, CloseStopCh, ghosts
    <2>5. ASSUME NEW w \in Worker, RegisterLocked(c, w) PROVE TypeCollectors'
      <3>1. made \in Nat /\ (made < MaxCollector => made + 1 \in 0..MaxCollector)
        OBVIOUS
      <3>2. CASE workers[w] # 0
        BY <2>5, <3>2 DEF RegisterLocked, collectors
      <3>3. CASE workers[w] = 0
        <4>1. Capture \subseteq SUBSET {"stdout", "stderr"}
          BY LogOK
        <4>2. PICK kinds \in Capture : capture' = [capture EXCEPT ![made + 1] = kinds]
          BY <2>5, <3>3 DEF RegisterLocked
        <4> QED
          BY <2>5, <3>1, <3>3, <4>1, <4>2 DEF RegisterLocked
      <3> QED
        BY <3>2, <3>3
    <2>6. ASSUME NEW s \in Stream, StartReader(c, s) PROVE TypeCollectors'
      <3>1. cur[c] \in Collector
        BY <2>6 DEF StartReader, TypeCallers, CurInv
      <3> QED
        BY <2>6, <3>1 DEF StartReader, ghosts
    <2>7. CASE AddPanics(c)
      BY <2>7, <1>2 DEF AddPanics, Goto, service, callers, collectors, readers, files, ghosts
    <2> QED
      BY <1>2, <2>1, <2>2, <2>3, <2>4, <2>5, <2>6, <2>7 DEF Advance
  <1>3. ASSUME ~Panicked, NEW r \in Stream, Scan(r) \/ StreamEnds(r) \/ Process(r)
         PROVE  TypeCollectors'
    <2>1. CASE Scan(r) \/ StreamEnds(r) \/ Quits(r)
      BY <2>1, <1>3 DEF Scan, StreamEnds, Done, Quits, Goto, service, callers, collectors,
         readers, files, ghosts
    <2>2. CASE GoesOn(r) \/ ProcessLine(r) \/ ReaderPanics(r)
      BY <2>2, <1>3 DEF GoesOn, ProcessLine, WriteToOutputs, WriteFails, WriteBuffered,
         FlushFails, Seen, ReaderPanics, Torn, Goto, service, callers, collectors, readers,
         files, ghosts
    <2> QED
      BY <1>3, <2>1, <2>2 DEF Process
  <1>4. CASE UNCHANGED vars
    BY <1>4 DEF vars, service, callers, collectors, readers, files, ghosts
  <1> QED
    BY <1>1, <1>2, <1>3, <1>4 DEF Next

\* Every step keeps the types of the readers.
LEMMA ReaderTypeStep ==
    ASSUME TypeOK, CurInv, [Next]_vars
    PROVE  TypeReaders'
  <1> USE Bounds DEF TypeOK, TypeReaders
  <1>1. ASSUME ~Panicked, NEW c \in Caller, Call(c)
         PROVE  TypeReaders'
    <2>1. CASE Start(c) \/ Stop(c) \/ RegisterWorker(c)
      BY <2>1, <1>1 DEF Start, Stop, RegisterWorker, Goto, service, callers, collectors, readers,
         files, ghosts
    <2>2. ASSUME NEW enabled \in BOOLEAN, UpdateConfiguration(c, enabled) PROVE TypeReaders'
      BY <2>2, <1>1 DEF UpdateConfiguration, Free, Goto, service, callers, collectors, readers,
         files, ghosts
    <2>3. ASSUME NEW w \in Worker, UnregisterWorker(c, w) \/ CollectFromStream(c, w) \/
       CollectFromProcess(c, w) PROVE TypeReaders'
      BY <2>3, <1>1 DEF UnregisterWorker, CloseStopCh, Free, CollectFromStream, Collect, Fresh,
         CollectFromProcess, Goto, service, callers, collectors, readers, files, ghosts
    <2> QED
      BY <1>1, <2>1, <2>2, <2>3 DEF Call
  <1>2. ASSUME ~Panicked, NEW c \in Caller, Advance(c)
         PROVE  TypeReaders'
    <2>1. CASE StartPlain(c) \/ StartLocked(c) \/ InitializeOutputs(c)
      BY <2>1, <1>2 DEF StartPlain, Free, StartLocked, InitializeOutputs, Goto, service, callers,
         collectors, readers, files, ghosts
    <2>2. CASE StopLocked(c) \/ CollectorStopped(c) \/ CloseOutputs(c)
      BY <2>2, <1>2 DEF StopLocked, Free, CollectorStopped, Waited, CloseOutputs, CloseFile,
         Goto, service, callers, collectors, readers, files, ghosts
    <2>3. CASE WorkerUnregistered(c) \/ AddPanics(c)
      BY <2>3, <1>2 DEF WorkerUnregistered, Return, Waited, AddPanics, Goto, service, callers,
         collectors, readers, files, ghosts
    <2>4. ASSUME NEW w \in Worker, StopCollector(c, w) \/ RegisterLocked(c, w) PROVE TypeReaders'
      BY <2>4, <1>2 DEF StopCollector, CloseStopCh, RegisterLocked, Free, Goto, service, callers,
         collectors, readers, files, ghosts
    <2>5. ASSUME NEW s \in Stream, StartReader(c, s) PROVE TypeReaders'
      BY <2>5, <1>2 DEF StartReader, Return, TypeCallers, Goto, service, callers, collectors,
         readers, files, ghosts
    <2> QED
      BY <1>2, <2>1, <2>2, <2>3, <2>4, <2>5 DEF Advance
  <1>3. ASSUME ~Panicked, NEW r \in Stream, Scan(r) \/ StreamEnds(r) \/ Process(r)
         PROVE  TypeReaders'
    <2>1. CASE Scan(r) \/ StreamEnds(r) \/ Quits(r)
      BY <2>1, <1>3 DEF Scan, StreamEnds, Done, Quits, Goto, service, callers, collectors,
         readers, files, ghosts
    <2>2. CASE GoesOn(r) \/ ProcessLine(r) \/ ReaderPanics(r)
      BY <2>2, <1>3 DEF GoesOn, ProcessLine, WriteToOutputs, WriteFails, WriteBuffered,
         FlushFails, Seen, ReaderPanics, Torn, Goto, service, callers, collectors, readers,
         files, ghosts
    <2> QED
      BY <1>3, <2>1, <2>2 DEF Process
  <1>4. CASE UNCHANGED vars
    BY <1>4 DEF vars, service, callers, collectors, readers, files, ghosts
  <1> QED
    BY <1>1, <1>2, <1>3, <1>4 DEF Next

\* Every step keeps the types of the files.
LEMMA FileTypeStep ==
    ASSUME TypeOK, ReaderInv, [Next]_vars
    PROVE  TypeFiles'
  <1> USE Bounds DEF TypeOK, TypeFiles
  <1>1. ASSUME ~Panicked, NEW c \in Caller, Call(c)
         PROVE  TypeFiles'
    <2>1. CASE Start(c) \/ Stop(c) \/ RegisterWorker(c)
      BY <2>1, <1>1 DEF Start, Stop, RegisterWorker, Goto, service, callers, collectors, readers,
         files, ghosts
    <2>2. ASSUME NEW enabled \in BOOLEAN, UpdateConfiguration(c, enabled) PROVE TypeFiles'
      BY <2>2, <1>1 DEF UpdateConfiguration, Free, Goto, service, callers, collectors, readers,
         files, ghosts
    <2>3. ASSUME NEW w \in Worker, UnregisterWorker(c, w) \/ CollectFromStream(c, w) \/
       CollectFromProcess(c, w) PROVE TypeFiles'
      BY <2>3, <1>1 DEF UnregisterWorker, CloseStopCh, Free, CollectFromStream, Collect, Fresh,
         CollectFromProcess, Goto, service, callers, collectors, readers, files, ghosts
    <2> QED
      BY <1>1, <2>1, <2>2, <2>3 DEF Call
  <1>2. ASSUME ~Panicked, NEW c \in Caller, Advance(c)
         PROVE  TypeFiles'
    <2>1. CASE StartPlain(c) \/ InitializeOutputs(c) \/ StopLocked(c)
      BY <2>1, <1>2 DEF StartPlain, Free, InitializeOutputs, StopLocked, Goto, service, callers,
         collectors, readers, files, ghosts
    <2>2. CASE StartLocked(c)
      <3>1. writers + 1 \in 0..MaxWriter
        BY <2>2 DEF StartLocked
      <3> QED
        BY <2>2, <3>1 DEF StartLocked
    <2>3. CASE CollectorStopped(c) \/ WorkerUnregistered(c) \/ AddPanics(c)
      BY <2>3, <1>2 DEF CollectorStopped, Waited, WorkerUnregistered, Return, AddPanics, Goto,
         service, callers, collectors, readers, files, ghosts
    <2>4. CASE CloseOutputs(c)
      <3>1. CASE outputs = 0
        BY <2>4, <3>1 DEF CloseOutputs
      <3>2. ASSUME outputs # 0, NEW flushed \in BOOLEAN, CloseFile(outputs, flushed)
             PROVE  TypeFiles'
        <4>1. outputs \in Writer
          BY <3>2 DEF TypeService
        <4> QED
          BY <2>4, <3>2, <4>1 DEF CloseFile, CloseOutputs
      <3> QED
        BY <2>4, <3>1, <3>2 DEF CloseOutputs
    <2>5. ASSUME NEW w \in Worker, StopCollector(c, w) \/ RegisterLocked(c, w) PROVE TypeFiles'
      BY <2>5, <1>2 DEF StopCollector, CloseStopCh, RegisterLocked, Free, Goto, service, callers,
         collectors, readers, files, ghosts
    <2>6. ASSUME NEW s \in Stream, StartReader(c, s) PROVE TypeFiles'
      BY <2>6, <1>2 DEF StartReader, Return, Goto, service, callers, collectors, readers, files,
         ghosts
    <2> QED
      BY <1>2, <2>1, <2>2, <2>3, <2>4, <2>5, <2>6 DEF Advance
  <1>3. ASSUME ~Panicked, NEW r \in Stream, Scan(r) \/ StreamEnds(r) \/ Process(r)
         PROVE  TypeFiles'
    <2>1. CASE Scan(r) \/ StreamEnds(r) \/ Quits(r)
      BY <2>1, <1>3 DEF Scan, StreamEnds, Done, Quits, Goto, service, callers, collectors,
         readers, files, ghosts
    <2>2. CASE GoesOn(r) \/ ReaderPanics(r)
      BY <2>2, <1>3 DEF GoesOn, ReaderPanics, Torn, Goto, service, callers, collectors, readers,
         files, ghosts
    <2>3. CASE ProcessLine(r)
      <3>1. PICK f \in Seen : /\ WriteToOutputs(f, {<<r, n[r]>>})
                               /\ given' = IF f = 0 /\ ~Starting THEN given ELSE given \cup {<<r, n[r]>>}
        BY <2>3 DEF ProcessLine
      <3>2. <<r, n[r]>> \in Line
        BY <2>3 DEF ProcessLine, ReaderInv, TypeReaders, Line
      <3>3. writers' = writers /\ shut' = shut
        BY <2>3 DEF ProcessLine
      <3>4. given' \subseteq Line
        BY <3>1, <3>2
      <3>5. CASE f = 0
        BY <3>1, <3>3, <3>4, <3>5 DEF WriteToOutputs
      <3>6. CASE f # 0
        <4>1. f \in Writer
          BY <3>6 DEF Seen, TypeService
        <4>2. CASE WriteFails(f, {<<r, n[r]>>})
          BY <3>2, <3>3, <3>4, <4>1, <4>2 DEF WriteFails
        <4>3. CASE WriteBuffered(f, {<<r, n[r]>>})
          BY <3>2, <3>3, <3>4, <4>1, <4>3 DEF WriteBuffered
        <4>4. CASE FlushFails(f, {<<r, n[r]>>})
          BY <3>2, <3>3, <3>4, <4>1, <4>4 DEF FlushFails
        <4> QED
          BY <3>1, <3>6, <4>2, <4>3, <4>4 DEF WriteToOutputs
      <3> QED
        BY <3>5, <3>6
    <2> QED
      BY <1>3, <2>1, <2>2, <2>3 DEF Process
  <1>4. CASE UNCHANGED vars
    BY <1>4 DEF vars, service, callers, collectors, readers, files, ghosts
  <1> QED
    BY <1>1, <1>2, <1>3, <1>4 DEF Next

\* Whoever gets past the lock found it free.
LEMMA LockStep ==
    ASSUME TypeOK, LockInv, LeftInv, [Next]_vars
    PROVE  LockInv'
  <1> USE DEF LockInv, Waits, TypeOK, TypeCallers, TypeService
  <1>1. ASSUME ~Panicked, NEW c \in Caller, Call(c)
         PROVE  LockInv'
    <2>1. CASE Start(c) \/ Stop(c) \/ RegisterWorker(c)
      BY <2>1, <1>1 DEF Start, Stop, RegisterWorker, Goto, service, callers, collectors, readers,
         files, ghosts
    <2>2. ASSUME NEW enabled \in BOOLEAN, UpdateConfiguration(c, enabled) PROVE LockInv'
      BY <2>2, <1>1 DEF UpdateConfiguration, Free, Goto, service, callers, collectors, readers,
         files, ghosts
    <2>3. ASSUME NEW w \in Worker, UnregisterWorker(c, w) PROVE LockInv'
      <3>1. \A d \in Caller : pc[d] \notin {"outputs", "sweep"} \cup Waits
        BY <2>3, Bounds DEF UnregisterWorker, CloseStopCh, Free
      <3> QED
        BY <2>3, <3>1 DEF UnregisterWorker, CloseStopCh, Goto
    <2>4. ASSUME NEW w \in Worker, CollectFromStream(c, w) \/ CollectFromProcess(c, w) PROVE
       LockInv'
      BY <2>4, <1>1 DEF CollectFromStream, Collect, Fresh, Free, CollectFromProcess, Goto,
         service, callers, collectors, readers, files, ghosts
    <2> QED
      BY <1>1, <2>1, <2>2, <2>3, <2>4 DEF Call
  <1>2. ASSUME ~Panicked, NEW c \in Caller, Advance(c)
         PROVE  LockInv'
    <2>1. CASE StartPlain(c) \/ InitializeOutputs(c) \/ CollectorStopped(c)
      BY <2>1, <1>2 DEF StartPlain, Free, InitializeOutputs, CollectorStopped, Waited, Goto,
         service, callers, collectors, readers, files, ghosts
    <2>2. CASE StartLocked(c)
      <3>1. \A d \in Caller : pc[d] \notin {"outputs", "sweep"} \cup Waits
        BY <2>2, Bounds DEF StartLocked, Free
      <3> QED
        BY <2>2, <3>1 DEF StartLocked, Goto
    <2>3. CASE StopLocked(c)
      <3>1. \A d \in Caller : pc[d] \notin {"outputs", "sweep"} \cup Waits
        BY <2>3, Bounds DEF StopLocked, Free
      <3> QED
        BY <2>3, <3>1 DEF StopLocked, Goto
    <2>4. CASE CloseOutputs(c) \/ WorkerUnregistered(c) \/ AddPanics(c)
      BY <2>4, <1>2 DEF CloseOutputs, CloseFile, WorkerUnregistered, Return, Waited, AddPanics,
         Goto, service, callers, collectors, readers, files, ghosts
    <2>5. ASSUME NEW w \in Worker, StopCollector(c, w) \/ RegisterLocked(c, w) PROVE LockInv'
      BY <2>5, <1>2 DEF StopCollector, CloseStopCh, RegisterLocked, Free, Goto, service, callers,
         collectors, readers, files, ghosts
    <2>6. ASSUME NEW s \in Stream, StartReader(c, s) PROVE LockInv'
      BY <2>6, <1>2 DEF StartReader, Return, Goto, service, callers, collectors, readers, files,
         ghosts
    <2> QED
      BY <1>2, <2>1, <2>2, <2>3, <2>4, <2>5, <2>6 DEF Advance
  <1>3. ASSUME ~Panicked, NEW r \in Stream, Scan(r) \/ StreamEnds(r) \/ Process(r)
         PROVE  LockInv'
    <2>1. CASE Scan(r) \/ StreamEnds(r) \/ Quits(r)
      BY <2>1, <1>3 DEF Scan, StreamEnds, Done, Quits, Goto, service, callers, collectors,
         readers, files, ghosts
    <2>2. CASE GoesOn(r) \/ ProcessLine(r) \/ ReaderPanics(r)
      BY <2>2, <1>3 DEF GoesOn, ProcessLine, WriteToOutputs, WriteFails, WriteBuffered,
         FlushFails, Seen, ReaderPanics, Torn, Goto, service, callers, collectors, readers,
         files, ghosts
    <2> QED
      BY <1>3, <2>1, <2>2 DEF Process
  <1>4. CASE UNCHANGED vars
    BY <1>4 DEF vars, service, callers, collectors, readers, files, ghosts
  <1> QED
    BY <1>1, <1>2, <1>3, <1>4 DEF Next

\* What a Stop has left stays registered while it holds the lock.
LEMMA LeftStep ==
    ASSUME TypeOK, LockInv, LeftInv, [Next]_vars
    PROVE  LeftInv'
  <1> USE DEF LeftInv, Sweeps, TypeOK, TypeCallers, TypeService
  <1>1. ASSUME ~Panicked, NEW c \in Caller, Call(c)
         PROVE  LeftInv'
    <2>1. CASE Start(c)
      BY <2>1, <1>1 DEF Start, Goto, Panicked, service, callers, collectors, readers, files,
         ghosts
    <2>2. CASE Stop(c)
      BY <2>2, <1>1 DEF Stop, Goto, Panicked, service, callers, collectors, readers, files,
         ghosts
    <2>3. ASSUME NEW enabled \in BOOLEAN, UpdateConfiguration(c, enabled) PROVE LeftInv'
      BY <2>3, <1>1 DEF UpdateConfiguration, Free, Goto, Panicked, service, callers, collectors,
         readers, files, ghosts
    <2>4. CASE RegisterWorker(c)
      BY <2>4, <1>1 DEF RegisterWorker, Goto, Panicked, service, callers, collectors, readers,
         files, ghosts
    <2>5. ASSUME NEW w \in Worker, UnregisterWorker(c, w) PROVE LeftInv'
      BY <2>5, <1>1 DEF UnregisterWorker, CloseStopCh, Free, Goto, Panicked, service, callers,
         collectors, readers, files, ghosts
    <2>6. ASSUME NEW w \in Worker, CollectFromStream(c, w) PROVE LeftInv'
      BY <2>6, <1>1 DEF CollectFromStream, Collect, Fresh, Free, Goto, Panicked, service,
         callers, collectors, readers, files, ghosts
    <2>7. ASSUME NEW w \in Worker, CollectFromProcess(c, w) PROVE LeftInv'
      BY <2>7, <1>1 DEF CollectFromProcess, Collect, Fresh, Free, Goto, Panicked, service,
         callers, collectors, readers, files, ghosts
    <2> QED
      BY <1>1, <2>1, <2>2, <2>3, <2>4, <2>5, <2>6, <2>7 DEF Call
  <1>2. ASSUME ~Panicked, NEW c \in Caller, Advance(c)
         PROVE  LeftInv'
    <2>1. CASE StartPlain(c)
      BY <2>1, <1>2 DEF StartPlain, Free, Goto, Panicked, service, callers, collectors, readers,
         files, ghosts
    <2>2. CASE StartLocked(c)
      BY <2>2, <1>2 DEF StartLocked, Free, Goto, Panicked, service, callers, collectors, readers,
         files, ghosts
    <2>3. CASE InitializeOutputs(c)
      BY <2>3, <1>2 DEF InitializeOutputs, Goto, Panicked, service, callers, collectors, readers,
         files, ghosts
    <2>4. CASE StopLocked(c)
      BY <2>4, <1>2 DEF StopLocked, Free, Goto, Panicked, service, callers, collectors, readers,
         files, ghosts
    <2>5. CASE CollectorStopped(c)
      BY <2>5, <1>2 DEF CollectorStopped, Waited, Goto, Panicked, service, callers, collectors,
         readers, files, ghosts
    <2>6. CASE CloseOutputs(c)
      BY <2>6, <1>2 DEF CloseOutputs, CloseFile, Goto, Panicked, service, callers, collectors,
         readers, files, ghosts
    <2>7. CASE WorkerUnregistered(c)
      <3>1. holder = c /\ pc[c] \in {"unregisterwait", "released"}
        BY <2>7 DEF WorkerUnregistered, Waited, LockInv, Waits
      <3>2. left = {}
        BY <3>1, <1>2 DEF LockInv, Waits, Panicked
      <3> QED
        BY <2>7, <3>2 DEF WorkerUnregistered
    <2>8. ASSUME NEW w \in Worker, StopCollector(c, w) PROVE LeftInv'
      BY <2>8, <1>2 DEF StopCollector, CloseStopCh, Goto, Panicked, service, callers, collectors,
         readers, files, ghosts
    <2>9. ASSUME NEW w \in Worker, RegisterLocked(c, w) PROVE LeftInv'
      BY <2>9, <1>2 DEF RegisterLocked, Free, Goto, Panicked, service, callers, collectors,
         readers, files, ghosts
    <2>10. ASSUME NEW s \in Stream, StartReader(c, s) PROVE LeftInv'
      BY <2>10, <1>2 DEF StartReader, Return, Goto, Panicked, service, callers, collectors,
         readers, files, ghosts
    <2>11. CASE AddPanics(c)
      BY <2>11, <1>2 DEF AddPanics, Goto, Panicked, service, callers, collectors, readers, files,
         ghosts
    <2> QED
      BY <1>2, <2>1, <2>2, <2>3, <2>4, <2>5, <2>6, <2>7, <2>8, <2>9, <2>10, <2>11 DEF Advance
  <1>3. ASSUME ~Panicked, NEW r \in Stream, Scan(r) \/ StreamEnds(r) \/ Process(r)
         PROVE  LeftInv'
    <2>1. CASE Scan(r)
      BY <2>1, <1>3 DEF Scan, Goto, Panicked, service, callers, collectors, readers, files,
         ghosts
    <2>2. CASE StreamEnds(r)
      BY <2>2, <1>3 DEF StreamEnds, Done, Goto, Panicked, service, callers, collectors, readers,
         files, ghosts
    <2>3. CASE Quits(r)
      BY <2>3, <1>3 DEF Quits, Done, Goto, Panicked, service, callers, collectors, readers,
         files, ghosts
    <2>4. CASE GoesOn(r)
      BY <2>4, <1>3 DEF GoesOn, Goto, Panicked, service, callers, collectors, readers, files,
         ghosts
    <2>5. CASE ProcessLine(r)
      BY <2>5, <1>3 DEF ProcessLine, WriteToOutputs, WriteFails, WriteBuffered, FlushFails, Seen,
         Goto, Panicked, service, callers, collectors, readers, files, ghosts
    <2>6. CASE ReaderPanics(r)
      BY <2>6, <1>3 DEF ReaderPanics, Torn, Goto, Panicked, service, callers, collectors,
         readers, files, ghosts
    <2> QED
      BY <1>3, <2>1, <2>2, <2>3, <2>4, <2>5, <2>6 DEF Process
  <1>4. CASE UNCHANGED vars
    BY <1>4 DEF Panicked, vars, service, callers, collectors, readers, files, ghosts
  <1> QED
    BY <1>1, <1>2, <1>3, <1>4 DEF Next

\* Collectors are made one by one, and found only once made.
LEMMA MadeStep ==
    ASSUME TypeOK, LeftInv, MadeInv, CurInv, [Next]_vars
    PROVE  MadeInv'
  <1> USE DEF MadeInv, TypeOK, TypeCallers, TypeService, TypeCollectors, TypeReaders, Collector
  <1>1. ASSUME ~Panicked, NEW c \in Caller, Call(c)
         PROVE  MadeInv'
    <2>1. CASE Start(c)
      BY <2>1, <1>1 DEF Start, Goto, service, callers, collectors, readers, files, ghosts
    <2>2. CASE Stop(c)
      BY <2>2, <1>1 DEF Stop, Goto, service, callers, collectors, readers, files, ghosts
    <2>3. ASSUME NEW enabled \in BOOLEAN, UpdateConfiguration(c, enabled) PROVE MadeInv'
      BY <2>3, <1>1 DEF UpdateConfiguration, Free, Goto, service, callers, collectors, readers,
         files, ghosts
    <2>4. CASE RegisterWorker(c)
      BY <2>4, <1>1 DEF RegisterWorker, Goto, service, callers, collectors, readers, files,
         ghosts
    <2>5. ASSUME NEW w \in Worker, UnregisterWorker(c, w) PROVE MadeInv'
      BY <2>5, <1>1 DEF UnregisterWorker, CloseStopCh, Free, Goto, service, callers, collectors,
         readers, files, ghosts
    <2>6. ASSUME NEW w \in Worker, CollectFromStream(c, w) PROVE MadeInv'
      <3>1. PICK t \in Stream : Collect(c, w, {t})
        BY <2>6 DEF CollectFromStream
      <3> QED
        BY <3>1 DEF Collect, service, collectors, readers, ghosts
    <2>7. ASSUME NEW w \in Worker, CollectFromProcess(c, w) PROVE MadeInv'
      <3>1. PICK t, u \in Stream : Collect(c, w, {t, u})
        BY <2>7 DEF CollectFromProcess
      <3> QED
        BY <3>1 DEF Collect, service, collectors, readers, ghosts
    <2> QED
      BY <1>1, <2>1, <2>2, <2>3, <2>4, <2>5, <2>6, <2>7 DEF Call
  <1>2. ASSUME ~Panicked, NEW c \in Caller, Advance(c)
         PROVE  MadeInv'
    <2>1. CASE StartPlain(c)
      BY <2>1, <1>2 DEF StartPlain, Free, Goto, service, callers, collectors, readers, files,
         ghosts
    <2>2. CASE StartLocked(c)
      BY <2>2, <1>2 DEF StartLocked, Free, Goto, service, callers, collectors, readers, files,
         ghosts
    <2>3. CASE InitializeOutputs(c)
      BY <2>3, <1>2 DEF InitializeOutputs, Goto, service, callers, collectors, readers, files,
         ghosts
    <2>4. CASE StopLocked(c)
      BY <2>4, <1>2 DEF StopLocked, Free, Goto, service, callers, collectors, readers, files,
         ghosts
    <2>5. CASE CollectorStopped(c)
      BY <2>5, <1>2 DEF CollectorStopped, Waited, Goto, service, callers, collectors, readers,
         files, ghosts
    <2>6. CASE CloseOutputs(c)
      BY <2>6, <1>2 DEF CloseOutputs, CloseFile, Goto, service, callers, collectors, readers,
         files, ghosts
    <2>7. CASE WorkerUnregistered(c)
      BY <2>7, <1>2 DEF WorkerUnregistered, Return, Waited, Goto, service, callers, collectors,
         readers, files, ghosts
    <2>8. ASSUME NEW w \in Worker, StopCollector(c, w) PROVE MadeInv'
      BY <2>8, <1>2 DEF StopCollector, CloseStopCh, Goto, service, callers, collectors, readers,
         files, ghosts
    <2>9. ASSUME NEW w \in Worker, RegisterLocked(c, w) PROVE MadeInv'
      <3>1. CASE workers[w] # 0
        BY <2>9, <3>1 DEF RegisterLocked, collectors, callers, readers
      <3>2. CASE workers[w] = 0
        <4>1. /\ made' = made + 1 /\ workers' = [workers EXCEPT ![w] = made + 1]
              /\ UNCHANGED <<stopCh, swept, cur, on>>
          BY <2>9, <3>2 DEF RegisterLocked, readers
        <4>2. made \in Nat
          BY Bounds
        <4>3. \A v \in Worker : workers[v] \in Int /\ workers[v] < made + 1
          BY <4>2
        <4>4. \A v, x \in Worker : workers'[v] = workers'[x] /\ workers'[x] # 0 => v = x
          BY <4>1, <4>2, <4>3
        <4>5. \A v \in Worker : workers'[v] <= made'
          BY <4>1, <4>2, <4>3
        <4>6. \A k \in stopCh \cup swept : k <= made + 1
          BY <4>2, Bounds
        <4>7. \A d \in Caller : cur[d] <= made + 1
          <5>1. \A d \in Caller : cur[d] \in Int /\ cur[d] <= made
            BY Bounds
          <5> QED
            BY <4>2, <5>1
        <4>8. \A s \in Stream : on[s] <= made + 1
          BY <4>2, Bounds
        <4> QED
          BY <4>1, <4>4, <4>5, <4>6, <4>7, <4>8
      <3> QED
        BY <3>1, <3>2
    <2>10. ASSUME NEW s \in Stream, StartReader(c, s) PROVE MadeInv'
      <3>1. cur' \in {cur, [cur EXCEPT ![c] = 0]}
        BY <2>10 DEF StartReader, Return
      <3>2. \A d \in Caller : cur'[d] <= made
        BY <3>1
      <3>3. \A t \in Stream : on'[t] <= made
        BY <2>10 DEF StartReader
      <3> QED
        BY <2>10, <3>2, <3>3 DEF StartReader, service, ghosts
    <2>11. CASE AddPanics(c)
      BY <2>11, <1>2 DEF AddPanics, Goto, service, callers, collectors, readers, files, ghosts
    <2> QED
      BY <1>2, <2>1, <2>2, <2>3, <2>4, <2>5, <2>6, <2>7, <2>8, <2>9, <2>10, <2>11 DEF Advance
  <1>3. ASSUME ~Panicked, NEW r \in Stream, Scan(r) \/ StreamEnds(r) \/ Process(r)
         PROVE  MadeInv'
    <2>1. CASE Scan(r)
      BY <2>1, <1>3 DEF Scan, Goto, service, callers, collectors, readers, files, ghosts
    <2>2. CASE StreamEnds(r)
      BY <2>2, <1>3 DEF StreamEnds, Done, Goto, service, callers, collectors, readers, files,
         ghosts
    <2>3. CASE Quits(r)
      BY <2>3, <1>3 DEF Quits, Done, Goto, service, callers, collectors, readers, files, ghosts
    <2>4. CASE GoesOn(r)
      BY <2>4, <1>3 DEF GoesOn, Goto, service, callers, collectors, readers, files, ghosts
    <2>5. CASE ProcessLine(r)
      BY <2>5, <1>3 DEF ProcessLine, WriteToOutputs, WriteFails, WriteBuffered, FlushFails, Seen,
         Goto, service, callers, collectors, readers, files, ghosts
    <2>6. CASE ReaderPanics(r)
      BY <2>6, <1>3 DEF ReaderPanics, Torn, Goto, service, callers, collectors, readers, files,
         ghosts
    <2> QED
      BY <1>3, <2>1, <2>2, <2>3, <2>4, <2>5, <2>6 DEF Process
  <1>4. CASE UNCHANGED vars
    BY <1>4 DEF vars, service, callers, collectors, readers, files, ghosts
  <1> QED
    BY <1>1, <1>2, <1>3, <1>4 DEF Next

\* A caller that waits for a collector has closed its stop channel.
LEMMA CurStep ==
    ASSUME TypeOK, LeftInv, CurInv, [Next]_vars
    PROVE  CurInv'
  <1> USE DEF CurInv, Waits, TypeOK, TypeCallers, TypeService, TypeCollectors, TypeReaders, Collector
  <1>1. ASSUME ~Panicked, NEW c \in Caller, Call(c)
         PROVE  CurInv'
    <2>1. CASE Start(c) \/ Stop(c) \/ RegisterWorker(c)
      BY <2>1, <1>1 DEF Start, Stop, RegisterWorker, Goto, service, callers, collectors, readers,
         files, ghosts
    <2>2. ASSUME NEW enabled \in BOOLEAN, UpdateConfiguration(c, enabled) PROVE CurInv'
      BY <2>2, <1>1 DEF UpdateConfiguration, Free, Goto, service, callers, collectors, readers,
         files, ghosts
    <2>3. ASSUME NEW w \in Worker, UnregisterWorker(c, w) PROVE CurInv'
      BY <2>3, <1>1 DEF UnregisterWorker, CloseStopCh, Free, Goto, service, callers, collectors,
         readers, files, ghosts
    <2>4. ASSUME NEW w \in Worker, CollectFromStream(c, w) PROVE CurInv'
      <3>1. PICK t \in Stream : Collect(c, w, {t})
        BY <2>4 DEF CollectFromStream
      <3> QED
        BY <3>1 DEF Collect, Goto, collectors
    <2>5. ASSUME NEW w \in Worker, CollectFromProcess(c, w) PROVE CurInv'
      <3>1. PICK t, u \in Stream : Collect(c, w, {t, u})
        BY <2>5 DEF CollectFromProcess
      <3> QED
        BY <3>1 DEF Collect, Goto, collectors
    <2> QED
      BY <1>1, <2>1, <2>2, <2>3, <2>4, <2>5 DEF Call
  <1>2. ASSUME ~Panicked, NEW c \in Caller, Advance(c)
         PROVE  CurInv'
    <2>1. CASE StartPlain(c) \/ StartLocked(c) \/ InitializeOutputs(c)
      BY <2>1, <1>2 DEF StartPlain, Free, StartLocked, InitializeOutputs, Goto, service, callers,
         collectors, readers, files, ghosts
    <2>2. CASE StopLocked(c) \/ CollectorStopped(c) \/ CloseOutputs(c)
      BY <2>2, <1>2 DEF StopLocked, Free, CollectorStopped, Waited, CloseOutputs, CloseFile,
         Goto, service, callers, collectors, readers, files, ghosts
    <2>3. CASE WorkerUnregistered(c) \/ AddPanics(c)
      BY <2>3, <1>2 DEF WorkerUnregistered, Return, Waited, AddPanics, Goto, service, callers,
         collectors, readers, files, ghosts
    <2>4. ASSUME NEW w \in Worker, StopCollector(c, w) \/ RegisterLocked(c, w) PROVE CurInv'
      BY <2>4, <1>2 DEF StopCollector, CloseStopCh, RegisterLocked, Free, Goto, service, callers,
         collectors, readers, files, ghosts
    <2>5. ASSUME NEW s \in Stream, StartReader(c, s) PROVE CurInv'
      BY <2>5, <1>2 DEF StartReader, Return, Goto, service, callers, collectors, readers, files,
         ghosts
    <2> QED
      BY <1>2, <2>1, <2>2, <2>3, <2>4, <2>5 DEF Advance
  <1>3. ASSUME ~Panicked, NEW r \in Stream, Scan(r) \/ StreamEnds(r) \/ Process(r)
         PROVE  CurInv'
    <2>1. CASE Scan(r) \/ StreamEnds(r) \/ Quits(r)
      BY <2>1, <1>3 DEF Scan, StreamEnds, Done, Quits, Goto, service, callers, collectors,
         readers, files, ghosts
    <2>2. CASE GoesOn(r) \/ ProcessLine(r) \/ ReaderPanics(r)
      BY <2>2, <1>3 DEF GoesOn, ProcessLine, WriteToOutputs, WriteFails, WriteBuffered,
         FlushFails, Seen, ReaderPanics, Torn, Goto, service, callers, collectors, readers,
         files, ghosts
    <2> QED
      BY <1>3, <2>1, <2>2 DEF Process
  <1>4. CASE UNCHANGED vars
    BY <1>4 DEF vars, service, callers, collectors, readers, files, ghosts
  <1> QED
    BY <1>1, <1>2, <1>3, <1>4 DEF Next

\* A stream is handed to one caller, who starts its reader once.
LEMMA TodoStep ==
    ASSUME TypeOK, TodoInv, [Next]_vars
    PROVE  TodoInv'
  <1> USE DEF TodoInv, TypeOK, TypeCallers, TypeReaders
  <1>1. ASSUME ~Panicked, NEW c \in Caller, Call(c)
         PROVE  TodoInv'
    <2>1. CASE Start(c) \/ Stop(c) \/ RegisterWorker(c)
      BY <2>1, <1>1 DEF Start, Stop, RegisterWorker, Goto, service, callers, collectors, readers,
         files, ghosts
    <2>2. ASSUME NEW enabled \in BOOLEAN, UpdateConfiguration(c, enabled) PROVE TodoInv'
      BY <2>2, <1>1 DEF UpdateConfiguration, Free, Goto, service, callers, collectors, readers,
         files, ghosts
    <2>3. ASSUME NEW w \in Worker, UnregisterWorker(c, w) PROVE TodoInv'
      BY <2>3, <1>1 DEF UnregisterWorker, CloseStopCh, Free, Goto, service, callers, collectors,
         readers, files, ghosts
    <2>4. ASSUME NEW w \in Worker, CollectFromStream(c, w) PROVE TodoInv'
      <3>1. PICK t \in Stream : Collect(c, w, {t})
        BY <2>4 DEF CollectFromStream
      <3> QED
        BY <3>1 DEF Collect, Fresh, Goto, readers
    <2>5. ASSUME NEW w \in Worker, CollectFromProcess(c, w) PROVE TodoInv'
      <3>1. PICK t, u \in Stream : Collect(c, w, {t, u})
        BY <2>5 DEF CollectFromProcess
      <3> QED
        BY <3>1 DEF Collect, Fresh, Goto, readers
    <2> QED
      BY <1>1, <2>1, <2>2, <2>3, <2>4, <2>5 DEF Call
  <1>2. ASSUME ~Panicked, NEW c \in Caller, Advance(c)
         PROVE  TodoInv'
    <2>1. CASE StartPlain(c) \/ StartLocked(c) \/ InitializeOutputs(c)
      BY <2>1, <1>2 DEF StartPlain, Free, StartLocked, InitializeOutputs, Goto, service, callers,
         collectors, readers, files, ghosts
    <2>2. CASE StopLocked(c) \/ CollectorStopped(c) \/ CloseOutputs(c)
      BY <2>2, <1>2 DEF StopLocked, Free, CollectorStopped, Waited, CloseOutputs, CloseFile,
         Goto, service, callers, collectors, readers, files, ghosts
    <2>3. CASE WorkerUnregistered(c) \/ AddPanics(c)
      BY <2>3, <1>2 DEF WorkerUnregistered, Return, Waited, AddPanics, Goto, service, callers,
         collectors, readers, files, ghosts
    <2>4. ASSUME NEW w \in Worker, StopCollector(c, w) \/ RegisterLocked(c, w) PROVE TodoInv'
      BY <2>4, <1>2 DEF StopCollector, CloseStopCh, RegisterLocked, Free, Goto, service, callers,
         collectors, readers, files, ghosts
    <2>5. ASSUME NEW s \in Stream, StartReader(c, s) PROVE TodoInv'
      BY <2>5, <1>2 DEF StartReader, Return, Goto, service, callers, collectors, readers, files,
         ghosts
    <2> QED
      BY <1>2, <2>1, <2>2, <2>3, <2>4, <2>5 DEF Advance
  <1>3. ASSUME ~Panicked, NEW r \in Stream, Scan(r) \/ StreamEnds(r) \/ Process(r)
         PROVE  TodoInv'
    <2>1. CASE Scan(r) \/ StreamEnds(r) \/ Quits(r)
      BY <2>1, <1>3 DEF Scan, StreamEnds, Done, Quits, Goto, service, callers, collectors,
         readers, files, ghosts
    <2>2. CASE GoesOn(r) \/ ProcessLine(r) \/ ReaderPanics(r)
      BY <2>2, <1>3 DEF GoesOn, ProcessLine, WriteToOutputs, WriteFails, WriteBuffered,
         FlushFails, Seen, ReaderPanics, Torn, Goto, service, callers, collectors, readers,
         files, ghosts
    <2> QED
      BY <1>3, <2>1, <2>2 DEF Process
  <1>4. CASE UNCHANGED vars
    BY <1>4 DEF vars, service, callers, collectors, readers, files, ghosts
  <1> QED
    BY <1>1, <1>2, <1>3, <1>4 DEF Next

\* A reader works for a collector, and has scanned the line it works on.
LEMMA ReaderStep ==
    ASSUME TypeOK, CurInv, TodoInv, ReaderInv, [Next]_vars
    PROVE  ReaderInv'
  <1> USE DEF ReaderInv, TypeOK, TypeReaders
  <1>1. ASSUME ~Panicked, NEW c \in Caller, Call(c)
         PROVE  ReaderInv'
    <2>1. CASE Start(c) \/ Stop(c) \/ RegisterWorker(c)
      BY <2>1, <1>1 DEF Start, Stop, RegisterWorker, Goto, service, callers, collectors, readers,
         files, ghosts
    <2>2. ASSUME NEW enabled \in BOOLEAN, UpdateConfiguration(c, enabled) PROVE ReaderInv'
      BY <2>2, <1>1 DEF UpdateConfiguration, Free, Goto, service, callers, collectors, readers,
         files, ghosts
    <2>3. ASSUME NEW w \in Worker, UnregisterWorker(c, w) \/ CollectFromStream(c, w) \/
       CollectFromProcess(c, w) PROVE ReaderInv'
      BY <2>3, <1>1 DEF UnregisterWorker, CloseStopCh, Free, CollectFromStream, Collect, Fresh,
         CollectFromProcess, Goto, service, callers, collectors, readers, files, ghosts
    <2> QED
      BY <1>1, <2>1, <2>2, <2>3 DEF Call
  <1>2. ASSUME ~Panicked, NEW c \in Caller, Advance(c)
         PROVE  ReaderInv'
    <2>1. CASE StartPlain(c) \/ StartLocked(c) \/ InitializeOutputs(c)
      BY <2>1, <1>2 DEF StartPlain, Free, StartLocked, InitializeOutputs, Goto, service, callers,
         collectors, readers, files, ghosts
    <2>2. CASE StopLocked(c) \/ CollectorStopped(c) \/ CloseOutputs(c)
      BY <2>2, <1>2 DEF StopLocked, Free, CollectorStopped, Waited, CloseOutputs, CloseFile,
         Goto, service, callers, collectors, readers, files, ghosts
    <2>3. CASE WorkerUnregistered(c) \/ AddPanics(c)
      BY <2>3, <1>2 DEF WorkerUnregistered, Return, Waited, AddPanics, Goto, service, callers,
         collectors, readers, files, ghosts
    <2>4. ASSUME NEW w \in Worker, StopCollector(c, w) \/ RegisterLocked(c, w) PROVE ReaderInv'
      BY <2>4, <1>2 DEF StopCollector, CloseStopCh, RegisterLocked, Free, Goto, service, callers,
         collectors, readers, files, ghosts
    <2>5. ASSUME NEW s \in Stream, StartReader(c, s) PROVE ReaderInv'
      <3>1. cur[c] # 0 /\ rd[s] = "none"
        BY <2>5 DEF StartReader, CurInv, TodoInv
      <3> QED
        BY <2>5, <3>1 DEF StartReader
    <2> QED
      BY <1>2, <2>1, <2>2, <2>3, <2>4, <2>5 DEF Advance
  <1>3. ASSUME ~Panicked, NEW r \in Stream, Scan(r) \/ StreamEnds(r) \/ Process(r)
         PROVE  ReaderInv'
    <2>1. CASE Scan(r) \/ StreamEnds(r) \/ Quits(r)
      BY <2>1, <1>3 DEF Scan, StreamEnds, Done, Quits, Goto, service, callers, collectors,
         readers, files, ghosts
    <2>2. CASE GoesOn(r) \/ ProcessLine(r) \/ ReaderPanics(r)
      BY <2>2, <1>3 DEF GoesOn, ProcessLine, WriteToOutputs, WriteFails, WriteBuffered,
         FlushFails, Seen, ReaderPanics, Torn, Goto, service, callers, collectors, readers,
         files, ghosts
    <2> QED
      BY <1>3, <2>1, <2>2 DEF Process
  <1>4. CASE UNCHANGED vars
    BY <1>4 DEF vars, service, callers, collectors, readers, files, ghosts
  <1> QED
    BY <1>1, <1>2, <1>3, <1>4 DEF Next

\* A writer is closed only after Start has put it into the outputs.
LEMMA WriterStep ==
    ASSUME TypeOK, LockInv, WriterInv, [Next]_vars
    PROVE  WriterInv'
  <1> USE Bounds DEF WriterInv, TypeOK, TypeCallers, TypeFiles, TypeService, Writer
  <1>1. ASSUME ~Panicked, NEW c \in Caller, Call(c)
         PROVE  WriterInv'
    <2>1. CASE Start(c)
      BY <2>1, <1>1 DEF Start, Goto, service, callers, collectors, readers, files, ghosts
    <2>2. CASE Stop(c)
      BY <2>2, <1>1 DEF Stop, Goto, service, callers, collectors, readers, files, ghosts
    <2>3. ASSUME NEW enabled \in BOOLEAN, UpdateConfiguration(c, enabled) PROVE WriterInv'
      BY <2>3, <1>1 DEF UpdateConfiguration, Free, Goto, service, callers, collectors, readers,
         files, ghosts
    <2>4. CASE RegisterWorker(c)
      BY <2>4, <1>1 DEF RegisterWorker, Goto, service, callers, collectors, readers, files,
         ghosts
    <2>5. ASSUME NEW w \in Worker, UnregisterWorker(c, w) PROVE WriterInv'
      BY <2>5, <1>1 DEF UnregisterWorker, CloseStopCh, Free, Goto, service, callers, collectors,
         readers, files, ghosts
    <2>6. ASSUME NEW w \in Worker, CollectFromStream(c, w) PROVE WriterInv'
      BY <2>6, <1>1 DEF CollectFromStream, Collect, Fresh, Free, Goto, service, callers,
         collectors, readers, files, ghosts
    <2>7. ASSUME NEW w \in Worker, CollectFromProcess(c, w) PROVE WriterInv'
      BY <2>7, <1>1 DEF CollectFromProcess, Collect, Fresh, Free, Goto, service, callers,
         collectors, readers, files, ghosts
    <2> QED
      BY <1>1, <2>1, <2>2, <2>3, <2>4, <2>5, <2>6, <2>7 DEF Call
  <1>2. ASSUME ~Panicked, NEW c \in Caller, Advance(c)
         PROVE  WriterInv'
    <2>1. CASE StartPlain(c)
      BY <2>1, <1>2 DEF StartPlain, Free, Goto, service, callers, collectors, readers, files,
         ghosts
    <2>2. CASE StartLocked(c)
      <3>1. \A f \in shut \cup {outputs} : f \in Nat /\ f <= writers
        OBVIOUS
      <3> QED
        BY <2>2, <3>1 DEF StartLocked, Goto
    <2>3. CASE InitializeOutputs(c)
      BY <2>3, <1>2 DEF InitializeOutputs, Goto, service, callers, collectors, readers, files,
         ghosts
    <2>4. CASE StopLocked(c)
      BY <2>4, <1>2 DEF StopLocked, Free, Goto, service, callers, collectors, readers, files,
         ghosts
    <2>5. CASE CollectorStopped(c)
      BY <2>5, <1>2 DEF CollectorStopped, Waited, Goto, service, callers, collectors, readers,
         files, ghosts
    <2>6. CASE CloseOutputs(c)
      <3>1. \A d \in Caller : pc[d] # "outputs"
        BY <2>6 DEF CloseOutputs, LockInv
      <3>2. shut' \subseteq shut \cup {outputs}
        BY <2>6 DEF CloseOutputs, CloseFile
      <3> QED
        BY <2>6, <3>1, <3>2 DEF CloseOutputs, Goto
    <2>7. CASE WorkerUnregistered(c)
      BY <2>7, <1>2 DEF WorkerUnregistered, Return, Waited, Goto, service, callers, collectors,
         readers, files, ghosts
    <2>8. ASSUME NEW w \in Worker, StopCollector(c, w) PROVE WriterInv'
      BY <2>8, <1>2 DEF StopCollector, CloseStopCh, Goto, service, callers, collectors, readers,
         files, ghosts
    <2>9. ASSUME NEW w \in Worker, RegisterLocked(c, w) PROVE WriterInv'
      BY <2>9, <1>2 DEF RegisterLocked, Free, Goto, service, callers, collectors, readers, files,
         ghosts
    <2>10. ASSUME NEW s \in Stream, StartReader(c, s) PROVE WriterInv'
      BY <2>10, <1>2 DEF StartReader, Return, Goto, service, callers, collectors, readers, files,
         ghosts
    <2>11. CASE AddPanics(c)
      BY <2>11, <1>2 DEF AddPanics, Goto, service, callers, collectors, readers, files, ghosts
    <2> QED
      BY <1>2, <2>1, <2>2, <2>3, <2>4, <2>5, <2>6, <2>7, <2>8, <2>9, <2>10, <2>11 DEF Advance
  <1>3. ASSUME ~Panicked, NEW r \in Stream, Scan(r) \/ StreamEnds(r) \/ Process(r)
         PROVE  WriterInv'
    <2>1. CASE Scan(r)
      BY <2>1, <1>3 DEF Scan, Goto, service, callers, collectors, readers, files, ghosts
    <2>2. CASE StreamEnds(r)
      BY <2>2, <1>3 DEF StreamEnds, Done, Goto, service, callers, collectors, readers, files,
         ghosts
    <2>3. CASE Quits(r)
      BY <2>3, <1>3 DEF Quits, Done, Goto, service, callers, collectors, readers, files, ghosts
    <2>4. CASE GoesOn(r)
      BY <2>4, <1>3 DEF GoesOn, Goto, service, callers, collectors, readers, files, ghosts
    <2>5. CASE ProcessLine(r)
      BY <2>5, <1>3 DEF ProcessLine, WriteToOutputs, WriteFails, WriteBuffered, FlushFails, Seen,
         Goto, service, callers, collectors, readers, files, ghosts
    <2>6. CASE ReaderPanics(r)
      BY <2>6, <1>3 DEF ReaderPanics, Torn, Goto, service, callers, collectors, readers, files,
         ghosts
    <2> QED
      BY <1>3, <2>1, <2>2, <2>3, <2>4, <2>5, <2>6 DEF Process
  <1>4. CASE UNCHANGED vars
    BY <1>4 DEF vars, service, callers, collectors, readers, files, ghosts
  <1> QED
    BY <1>1, <1>2, <1>3, <1>4 DEF Next

(***************************************************************************)
(* The invariant.                                                          *)
(***************************************************************************)

\* The initial states.
LEMMA InvInit == Init => Inv
  <1> SUFFICES ASSUME Init PROVE Inv
    OBVIOUS
  <1>1. TypeOK
    <2>1. 0 \in 0..MaxCollector /\ 0 \in 0..MaxWriter /\ 0 \in 0..MaxLine
      BY Bounds
    <2>2. TypeService /\ TypeCallers
      BY DEF Init, TypeService, TypeCallers, CallerState
    <2>3. TypeCollectors /\ TypeReaders /\ TypeFiles
      BY <2>1 DEF Init, TypeCollectors, TypeReaders, TypeFiles
    <2> QED
      BY <2>2, <2>3 DEF TypeOK
  <1>2. LockInv /\ LeftInv /\ CurInv /\ TodoInv
    BY DEF Init, LockInv, LeftInv, CurInv, TodoInv, Waits
  <1>3. MadeInv /\ ReaderInv /\ WriterInv
    BY DEF Init, MadeInv, ReaderInv, WriterInv
  <1> QED
    BY <1>1, <1>2, <1>3 DEF Inv

\* Every step keeps the invariant.
LEMMA InvStep ==
    ASSUME Inv, [Next]_vars
    PROVE  Inv'
  BY ServiceTypeStep, CallerTypeStep, CollectorTypeStep, ReaderTypeStep, FileTypeStep, LockStep,
     LeftStep, MadeStep, CurStep, TodoStep, ReaderStep, WriterStep DEF Inv, TypeOK

\* The types, and what the places of goroutines say of locks, files and lists, hold in every state.
THEOREM InvInvariant == Spec => []Inv
  BY InvInit, InvStep, PTL DEF Spec

\* Types of the service, of its callers, collectors, readers and files.
THEOREM TypeCorrect == Spec => []TypeOK
  <1>1. Inv => TypeOK
    BY DEF Inv
  <1> QED
    BY InvInvariant, <1>1, PTL

(***************************************************************************)
(* A stopped collector is quiet.                                           *)
(***************************************************************************)

\* A wait that was woken up leaves no reader that has passed the check of the stop channel.
WokenQuiet ==
    \A c \in Caller : \A s \in Stream :
        pc[c] \in {"sweepreleased", "released"} /\ on[s] = cur[c] => rd[s] # "write"

\* The last reader that is done wakes up the wait.
LEMMA WokenStep ==
    ASSUME Inv, WokenQuiet, [Next]_vars
    PROVE  WokenQuiet'
  <1> USE DEF WokenQuiet, Inv, TypeOK, TypeCallers, TypeReaders, CurInv, Waits
  <1>1. ASSUME ~Panicked, NEW c \in Caller, Call(c)
         PROVE  WokenQuiet'
    <2>1. CASE Start(c) \/ Stop(c) \/ RegisterWorker(c)
      BY <2>1, <1>1 DEF Start, Stop, RegisterWorker, Goto, service, callers, collectors, readers,
         files, ghosts
    <2>2. ASSUME NEW enabled \in BOOLEAN, UpdateConfiguration(c, enabled) PROVE WokenQuiet'
      BY <2>2, <1>1 DEF UpdateConfiguration, Free, Goto, service, callers, collectors, readers,
         files, ghosts
    <2>3. ASSUME NEW w \in Worker, UnregisterWorker(c, w) PROVE WokenQuiet'
      BY <2>3, <1>1 DEF UnregisterWorker, CloseStopCh, Free, Goto, service, callers, collectors,
         readers, files, ghosts
    <2>4. ASSUME NEW w \in Worker, CollectFromStream(c, w) PROVE WokenQuiet'
      <3>1. PICK t \in Stream : Collect(c, w, {t})
        BY <2>4 DEF CollectFromStream
      <3> QED
        BY <3>1 DEF Collect, Goto, readers
    <2>5. ASSUME NEW w \in Worker, CollectFromProcess(c, w) PROVE WokenQuiet'
      <3>1. PICK t, u \in Stream : Collect(c, w, {t, u})
        BY <2>5 DEF CollectFromProcess
      <3> QED
        BY <3>1 DEF Collect, Goto, readers
    <2> QED
      BY <1>1, <2>1, <2>2, <2>3, <2>4, <2>5 DEF Call
  <1>2. ASSUME ~Panicked, NEW c \in Caller, Advance(c)
         PROVE  WokenQuiet'
    <2>1. CASE StartPlain(c) \/ StartLocked(c) \/ InitializeOutputs(c)
      BY <2>1, <1>2 DEF StartPlain, Free, StartLocked, InitializeOutputs, Goto, service, callers,
         collectors, readers, files, ghosts
    <2>2. CASE StopLocked(c) \/ CollectorStopped(c) \/ CloseOutputs(c)
      BY <2>2, <1>2 DEF StopLocked, Free, CollectorStopped, Waited, CloseOutputs, CloseFile,
         Goto, service, callers, collectors, readers, files, ghosts
    <2>3. CASE WorkerUnregistered(c) \/ AddPanics(c)
      BY <2>3, <1>2 DEF WorkerUnregistered, Return, Waited, AddPanics, Goto, service, callers,
         collectors, readers, files, ghosts
    <2>4. ASSUME NEW w \in Worker, StopCollector(c, w) \/ RegisterLocked(c, w) PROVE WokenQuiet'
      BY <2>4, <1>2 DEF StopCollector, CloseStopCh, RegisterLocked, Free, Goto, service, callers,
         collectors, readers, files, ghosts
    <2>5. ASSUME NEW s \in Stream, StartReader(c, s) PROVE WokenQuiet'
      BY <2>5, <1>2 DEF StartReader, Return, TodoInv, Goto, service, callers, collectors,
         readers, files, ghosts
    <2> QED
      BY <1>2, <2>1, <2>2, <2>3, <2>4, <2>5 DEF Advance
  <1>3. ASSUME ~Panicked, NEW r \in Stream, Scan(r) \/ StreamEnds(r) \/ Process(r)
         PROVE  WokenQuiet'
    <2>1. CASE Scan(r) \/ GoesOn(r) \/ ProcessLine(r)
      BY <2>1, <1>3 DEF Scan, GoesOn, ProcessLine, WriteToOutputs, WriteFails, WriteBuffered,
         FlushFails, Seen, Goto, service, callers, collectors, readers, files, ghosts
    <2>2. CASE StreamEnds(r)
      BY <2>2, <1>3 DEF StreamEnds, Done, Live, Goto, service, callers, collectors, readers,
         files, ghosts
    <2>3. CASE Quits(r)
      BY <2>3, <1>3 DEF Quits, Done, Live, Goto, service, callers, collectors, readers, files,
         ghosts
    <2>4. CASE ReaderPanics(r)
      BY <2>4, <1>3 DEF ReaderPanics, Torn, Goto, service, callers, collectors, readers, files,
         ghosts
    <2> QED
      BY <1>3, <2>1, <2>2, <2>3, <2>4 DEF Process
  <1>4. CASE UNCHANGED vars
    BY <1>4 DEF vars, service, callers, collectors, readers, files, ghosts
  <1> QED
    BY <1>1, <1>2, <1>3, <1>4 DEF Next

\* The stop of a collector returns when no reader of it can write any more.
LEMMA QuietStep ==
    ASSUME Inv, WokenQuiet, QuietAfterStop, [Next]_vars
    PROVE  QuietAfterStop'
  <1> USE DEF QuietAfterStop, Stopped, Inv, TypeOK, TypeCallers, TypeReaders, CurInv, Waits
  <1>1. ASSUME ~Panicked, NEW c \in Caller, Call(c)
         PROVE  QuietAfterStop'
    <2>1. CASE Start(c) \/ Stop(c) \/ RegisterWorker(c)
      BY <2>1, <1>1 DEF Start, Stop, RegisterWorker, Goto, service, callers, collectors, readers,
         files, ghosts
    <2>2. ASSUME NEW enabled \in BOOLEAN, UpdateConfiguration(c, enabled) PROVE QuietAfterStop'
      BY <2>2, <1>1 DEF UpdateConfiguration, Free, Goto, service, callers, collectors, readers,
         files, ghosts
    <2>3. ASSUME NEW w \in Worker, UnregisterWorker(c, w) PROVE QuietAfterStop'
      BY <2>3, <1>1 DEF UnregisterWorker, CloseStopCh, Free, Goto, service, callers, collectors,
         readers, files, ghosts
    <2>4. ASSUME NEW w \in Worker, CollectFromStream(c, w) PROVE QuietAfterStop'
      <3>1. PICK t \in Stream : Collect(c, w, {t})
        BY <2>4 DEF CollectFromStream
      <3> QED
        BY <3>1 DEF Collect, Goto, collectors, readers
    <2>5. ASSUME NEW w \in Worker, CollectFromProcess(c, w) PROVE QuietAfterStop'
      <3>1. PICK t, u \in Stream : Collect(c, w, {t, u})
        BY <2>5 DEF CollectFromProcess
      <3> QED
        BY <3>1 DEF Collect, Goto, collectors, readers
    <2> QED
      BY <1>1, <2>1, <2>2, <2>3, <2>4, <2>5 DEF Call
  <1>2. ASSUME ~Panicked, NEW c \in Caller, Advance(c)
         PROVE  QuietAfterStop'
    <2>1. CASE StartPlain(c) \/ StartLocked(c) \/ InitializeOutputs(c)
      BY <2>1, <1>2 DEF StartPlain, Free, StartLocked, InitializeOutputs, Goto, service, callers,
         collectors, readers, files, ghosts
    <2>2. CASE StopLocked(c) \/ CloseOutputs(c) \/ AddPanics(c)
      BY <2>2, <1>2 DEF StopLocked, Free, CloseOutputs, CloseFile, AddPanics, Goto, service,
         callers, collectors, readers, files, ghosts
    <2>3. CASE CollectorStopped(c)
      BY <2>3, <1>2 DEF CollectorStopped, Waited, WokenQuiet, Read, Live, Goto, service, callers,
         collectors, readers, files, ghosts
    <2>4. CASE WorkerUnregistered(c)
      BY <2>4, <1>2 DEF WorkerUnregistered, Return, Waited, WokenQuiet, Read, Live, Goto,
         service, callers, collectors, readers, files, ghosts
    <2>5. ASSUME NEW w \in Worker, StopCollector(c, w) \/ RegisterLocked(c, w) PROVE
       QuietAfterStop'
      BY <2>5, <1>2 DEF StopCollector, CloseStopCh, RegisterLocked, Free, Goto, service, callers,
         collectors, readers, files, ghosts
    <2>6. ASSUME NEW s \in Stream, StartReader(c, s) PROVE QuietAfterStop'
      BY <2>6, <1>2 DEF StartReader, Return, TodoInv, Goto, service, callers, collectors,
         readers, files, ghosts
    <2> QED
      BY <1>2, <2>1, <2>2, <2>3, <2>4, <2>5, <2>6 DEF Advance
  <1>3. ASSUME ~Panicked, NEW r \in Stream, Scan(r) \/ StreamEnds(r) \/ Process(r)
         PROVE  QuietAfterStop'
    <2>1. CASE Scan(r) \/ StreamEnds(r) \/ Quits(r)
      BY <2>1, <1>3 DEF Scan, StreamEnds, Done, Quits, Goto, service, callers, collectors,
         readers, files, ghosts
    <2>2. CASE GoesOn(r) \/ ProcessLine(r) \/ ReaderPanics(r)
      BY <2>2, <1>3 DEF GoesOn, ProcessLine, WriteToOutputs, WriteFails, WriteBuffered,
         FlushFails, Seen, ReaderPanics, Torn, Goto, service, callers, collectors, readers,
         files, ghosts
    <2> QED
      BY <1>3, <2>1, <2>2 DEF Process
  <1>4. CASE UNCHANGED vars
    BY <1>4 DEF vars, service, callers, collectors, readers, files, ghosts
  <1> QED
    BY <1>1, <1>2, <1>3, <1>4 DEF Next

\* A collector whose stop has returned hands no line to the writers.
THEOREM Quiet == Spec => []QuietAfterStop
  <1>1. Init => Inv /\ WokenQuiet /\ QuietAfterStop
    BY InvInit DEF Init, WokenQuiet, QuietAfterStop
  <1>2. Inv /\ WokenQuiet /\ QuietAfterStop /\ [Next]_vars
        => (Inv /\ WokenQuiet /\ QuietAfterStop)'
    BY InvStep, WokenStep, QuietStep
  <1> QED
    BY <1>1, <1>2, PTL DEF Spec

(***************************************************************************)
(* Panics.                                                                 *)
(***************************************************************************)

\* A registered collector whose stop channel is closed was stopped by a Stop of the service, or
\* somebody is waiting for it to stop.
SweptInv ==
    /\ \A w \in Worker :
          workers[w] \in stopCh =>
             \/ workers[w] \in swept
             \/ \E c \in Caller : pc[c] \in Waits /\ cur[c] = workers[w]
    /\ \A c \in Caller : pc[c] = "closepanic" => cur[c] \in swept

\* Stop leaves what it stopped registered, UnregisterWorker removes it.
LEMMA SweptStep ==
    ASSUME Inv, SweptInv, [Next]_vars
    PROVE  SweptInv'
  <1> USE DEF SweptInv, Inv, TypeOK, TypeCallers, TypeCollectors, Waits
  <1>1. ASSUME ~Panicked, NEW c \in Caller, Call(c)
         PROVE  SweptInv'
    <2>1. CASE Start(c) \/ Stop(c) \/ RegisterWorker(c)
      BY <2>1, <1>1 DEF Start, Stop, RegisterWorker, Goto, Panicked, service, callers,
         collectors, readers, files, ghosts
    <2>2. ASSUME NEW enabled \in BOOLEAN, UpdateConfiguration(c, enabled) PROVE SweptInv'
      BY <2>2, <1>1 DEF UpdateConfiguration, Free, Goto, Panicked, service, callers, collectors,
         readers, files, ghosts
    <2>3. ASSUME NEW w \in Worker, UnregisterWorker(c, w) PROVE SweptInv'
      <3>1. \A d \in Caller : pc[d] \notin Waits
        BY <2>3, Bounds DEF UnregisterWorker, Free, LockInv
      <3> QED
        BY <2>3, <3>1 DEF UnregisterWorker, CloseStopCh, Goto, ghosts
    <2>4. ASSUME NEW w \in Worker, CollectFromStream(c, w) PROVE SweptInv'
      <3>1. PICK t \in Stream : Collect(c, w, {t})
        BY <2>4 DEF CollectFromStream
      <3> QED
        BY <3>1 DEF Collect, Goto, service, collectors, ghosts
    <2>5. ASSUME NEW w \in Worker, CollectFromProcess(c, w) PROVE SweptInv'
      <3>1. PICK t, u \in Stream : Collect(c, w, {t, u})
        BY <2>5 DEF CollectFromProcess
      <3> QED
        BY <3>1 DEF Collect, Goto, service, collectors, ghosts
    <2> QED
      BY <1>1, <2>1, <2>2, <2>3, <2>4, <2>5 DEF Call
  <1>2. ASSUME ~Panicked, NEW c \in Caller, Advance(c)
         PROVE  SweptInv'
    <2>1. CASE StartPlain(c) \/ StartLocked(c) \/ InitializeOutputs(c)
      BY <2>1, <1>2 DEF StartPlain, Free, StartLocked, InitializeOutputs, Goto, Panicked,
         service, callers, collectors, readers, files, ghosts
    <2>2. CASE StopLocked(c) \/ CollectorStopped(c) \/ CloseOutputs(c)
      BY <2>2, <1>2 DEF StopLocked, Free, CollectorStopped, Waited, CloseOutputs, CloseFile,
         Goto, Panicked, service, callers, collectors, readers, files, ghosts
    <2>3. CASE WorkerUnregistered(c)
      <3>1. \A v \in Worker : workers'[v] \in stopCh => workers'[v] = workers[v] /\ workers[v] # cur[c]
        BY <2>3 DEF WorkerUnregistered, TypeService, Collector
      <3> QED
        BY <2>3, <3>1 DEF WorkerUnregistered, Return, Goto, ghosts
    <2>4. ASSUME NEW w \in Worker, StopCollector(c, w) PROVE SweptInv'
      <3>1. workers[w] \in stopCh => workers[w] \in swept
        BY <2>4, Bounds DEF StopCollector, LockInv
      <3>2. \A d \in Caller : d # c => pc[d] \notin Waits
        BY <2>4 DEF StopCollector, LockInv
      <3> QED
        BY <2>4, <3>1, <3>2 DEF StopCollector, CloseStopCh, Goto, ghosts
    <2>5. ASSUME NEW w \in Worker, RegisterLocked(c, w) PROVE SweptInv'
      <3>1. made + 1 \notin stopCh
        BY Bounds DEF MadeInv, Collector
      <3>2. \A v \in Worker : workers'[v] \in stopCh => workers'[v] = workers[v]
        BY <2>5, <3>1 DEF RegisterLocked, TypeService
      <3>3. UNCHANGED <<stopCh, cur, swept>>
        BY <2>5 DEF RegisterLocked, collectors
      <3> QED
        BY <2>5, <3>2, <3>3 DEF RegisterLocked, Goto
    <2>6. ASSUME NEW s \in Stream, StartReader(c, s) PROVE SweptInv'
      BY <2>6, <1>2 DEF StartReader, Return, Goto, Panicked, service, callers, collectors,
         readers, files, ghosts
    <2>7. CASE AddPanics(c)
      BY <2>7, <1>2 DEF AddPanics, Goto, Panicked, service, callers, collectors, readers, files,
         ghosts
    <2> QED
      BY <1>2, <2>1, <2>2, <2>3, <2>4, <2>5, <2>6, <2>7 DEF Advance
  <1>3. ASSUME ~Panicked, NEW r \in Stream, Scan(r) \/ StreamEnds(r) \/ Process(r)
         PROVE  SweptInv'
    <2>1. CASE Scan(r) \/ StreamEnds(r) \/ Quits(r)
      BY <2>1, <1>3 DEF Scan, StreamEnds, Done, Quits, Goto, Panicked, service, callers,
         collectors, readers, files, ghosts
    <2>2. CASE GoesOn(r) \/ ProcessLine(r) \/ ReaderPanics(r)
      BY <2>2, <1>3 DEF GoesOn, ProcessLine, WriteToOutputs, WriteFails, WriteBuffered,
         FlushFails, Seen, ReaderPanics, Torn, Goto, Panicked, service, callers, collectors,
         readers, files, ghosts
    <2> QED
      BY <1>3, <2>1, <2>2 DEF Process
  <1>4. CASE UNCHANGED vars
    BY <1>4 DEF Panicked, vars, service, callers, collectors, readers, files, ghosts
  <1> QED
    BY <1>1, <1>2, <1>3, <1>4 DEF Next

(***************************************************************************)
(* Orderly calls.                                                          *)
(***************************************************************************)

\* A collector that has not been stopped is registered.
RegisteredInv ==
    ~Panicked => \A k \in 1..made : Stopped(k) \/ \E w \in Worker : workers[w] = k

AllStopped == \A k \in 1..made : Stopped(k)

Busy == {"start", "outputs", "stop"} \cup Sweeps

OneBusy == \A c, d \in Caller : pc[c] \in Busy /\ pc[d] \in Busy => c = d

FlagInv == (Starting => running) /\ (Stopping => ~running)

\* A service that is down, or coming up, has stopped every collector.
DownInv == Starting \/ (~running /\ ~Stopping) => AllStopped

\* A Stop has stopped every collector but the one it waits for and those it has left.
SweepInv ==
    \A c \in Caller : pc[c] \in Sweeps =>
        \A k \in 1..made : \/ Stopped(k)
                           \/ pc[c] # "sweep" /\ cur[c] = k
                           \/ \E w \in left : workers[w] = k

\* The outputs are closed only while the service is down.
OpenInv == outputs \in shut => Starting \/ (~running /\ ~Stopping)

OrderParts == OneBusy /\ FlagInv /\ DownInv /\ SweepInv /\ OpenInv

OrderInv == orderly /\ ~Panicked => OrderParts

\* A collector is no longer stopped only if it is made anew.
LEMMA StoppedStep ==
    ASSUME Inv, [Next]_vars, ~Panicked', NEW k \in 1..made, Stopped(k)
    PROVE  Stopped(k)'
  <1> USE DEF Stopped, Inv, TypeOK, TypeCallers, TypeCollectors

  <1>1. ASSUME ~Panicked, NEW c \in Caller, Call(c)
         PROVE  Stopped(k)'
    <2>1. CASE Start(c) \/ Stop(c) \/ RegisterWorker(c)
      BY <2>1, <1>1 DEF Start, Stop, RegisterWorker, Goto, service, callers, collectors, readers,
         files, ghosts
    <2>2. ASSUME NEW enabled \in BOOLEAN, UpdateConfiguration(c, enabled) PROVE Stopped(k)'
      BY <2>2, <1>1 DEF UpdateConfiguration, Free, Goto, service, callers, collectors, readers,
         files, ghosts
    <2>3. ASSUME NEW w \in Worker, UnregisterWorker(c, w) PROVE Stopped(k)'
      BY <2>3, <1>1 DEF UnregisterWorker, CloseStopCh, Free, Panicked, Goto, service, callers,
         collectors, readers, files, ghosts
    <2>4. ASSUME NEW w \in Worker, CollectFromStream(c, w) PROVE Stopped(k)'
      <3>1. PICK t \in Stream : Collect(c, w, {t})
        BY <2>4 DEF CollectFromStream
      <3> QED
        BY <3>1 DEF Collect, Goto, collectors, ghosts
    <2>5. ASSUME NEW w \in Worker, CollectFromProcess(c, w) PROVE Stopped(k)'
      <3>1. PICK t, u \in Stream : Collect(c, w, {t, u})
        BY <2>5 DEF CollectFromProcess
      <3> QED
        BY <3>1 DEF Collect, Goto, collectors, ghosts
    <2> QED
      BY <1>1, <2>1, <2>2, <2>3, <2>4, <2>5 DEF Call
  <1>2. ASSUME ~Panicked, NEW c \in Caller, Advance(c)
         PROVE  Stopped(k)'
    <2>1. CASE StartPlain(c) \/ StartLocked(c) \/ InitializeOutputs(c)
      BY <2>1, <1>2 DEF StartPlain, Free, StartLocked, InitializeOutputs, Goto, service, callers,
         collectors, readers, files, ghosts
    <2>2. CASE StopLocked(c) \/ CollectorStopped(c) \/ CloseOutputs(c)
      BY <2>2, <1>2 DEF StopLocked, Free, CollectorStopped, Waited, CloseOutputs, CloseFile,
         Goto, service, callers, collectors, readers, files, ghosts
    <2>3. CASE WorkerUnregistered(c) \/ AddPanics(c)
      BY <2>3, <1>2 DEF WorkerUnregistered, Return, Waited, AddPanics, Goto, service, callers,
         collectors, readers, files, ghosts
    <2>4. ASSUME NEW w \in Worker, StopCollector(c, w) PROVE Stopped(k)'
      BY <2>4, <1>2 DEF StopCollector, CloseStopCh, Panicked, Goto, service, callers, collectors,
         readers, files, ghosts
    <2>5. ASSUME NEW w \in Worker, RegisterLocked(c, w) PROVE Stopped(k)'
      BY <2>5, <1>2 DEF RegisterLocked, Free, Goto, service, callers, collectors, readers, files,
         ghosts
    <2>6. ASSUME NEW s \in Stream, StartReader(c, s) PROVE Stopped(k)'
      BY <2>6, <1>2 DEF StartReader, Return, Goto, service, callers, collectors, readers, files,
         ghosts
    <2> QED
      BY <1>2, <2>1, <2>2, <2>3, <2>4, <2>5, <2>6 DEF Advance
  <1>3. ASSUME ~Panicked, NEW r \in Stream, Scan(r) \/ StreamEnds(r) \/ Process(r)
         PROVE  Stopped(k)'
    <2>1. CASE Scan(r) \/ StreamEnds(r) \/ Quits(r)
      BY <2>1, <1>3 DEF Scan, StreamEnds, Done, Quits, Goto, service, callers, collectors,
         readers, files, ghosts
    <2>2. CASE GoesOn(r) \/ ProcessLine(r) \/ ReaderPanics(r)
      BY <2>2, <1>3 DEF GoesOn, ProcessLine, WriteToOutputs, WriteFails, WriteBuffered,
         FlushFails, Seen, ReaderPanics, Torn, Goto, service, callers, collectors, readers,
         files, ghosts
    <2> QED
      BY <1>3, <2>1, <2>2 DEF Process
  <1>4. CASE UNCHANGED vars
    BY <1>4 DEF vars, service, callers, collectors, readers, files, ghosts
  <1> QED
    BY <1>1, <1>2, <1>3, <1>4 DEF Next

\* The registered workers change in two actions only.
LEMMA WorkersFrame ==
    ASSUME [Next]_vars
    PROVE  \/ UNCHANGED <<workers, made>>
           \/ \E c \in Caller, w \in Worker : RegisterLocked(c, w)
           \/ \E c \in Caller : WorkerUnregistered(c)
  <1> DEFINE Frame == \/ UNCHANGED <<workers, made>>
                      \/ \E c \in Caller, w \in Worker : RegisterLocked(c, w)
                      \/ \E c \in Caller : WorkerUnregistered(c)

  <1>1. ASSUME ~Panicked, NEW c \in Caller, Call(c)
         PROVE  Frame
    <2>1. CASE Start(c) \/ Stop(c) \/ RegisterWorker(c)
      BY <2>1, <1>1 DEF Start, Stop, RegisterWorker, Goto, service, callers, collectors, readers,
         files, ghosts
    <2>2. ASSUME NEW enabled \in BOOLEAN, UpdateConfiguration(c, enabled) PROVE Frame
      BY <2>2, <1>1 DEF UpdateConfiguration, Free, Goto, service, callers, collectors, readers,
         files, ghosts
    <2>3. ASSUME NEW w \in Worker, UnregisterWorker(c, w) \/ CollectFromStream(c, w) \/
       CollectFromProcess(c, w) PROVE Frame
      BY <2>3, <1>1 DEF UnregisterWorker, CloseStopCh, Free, CollectFromStream, Collect, Fresh,
         CollectFromProcess, Goto, service, callers, collectors, readers, files, ghosts
    <2> QED
      BY <1>1, <2>1, <2>2, <2>3 DEF Call
  <1>2. ASSUME ~Panicked, NEW c \in Caller, Advance(c)
         PROVE  Frame
    <2>1. CASE StartPlain(c) \/ StartLocked(c) \/ InitializeOutputs(c)
      BY <2>1, <1>2 DEF StartPlain, Free, StartLocked, InitializeOutputs, Goto, service, callers,
         collectors, readers, files, ghosts
    <2>2. CASE StopLocked(c) \/ CollectorStopped(c) \/ CloseOutputs(c)
      BY <2>2, <1>2 DEF StopLocked, Free, CollectorStopped, Waited, CloseOutputs, CloseFile,
         Goto, service, callers, collectors, readers, files, ghosts
    <2>3. CASE WorkerUnregistered(c)
      BY <2>3
    <2>4. ASSUME NEW w \in Worker, StopCollector(c, w) PROVE Frame
      BY <2>4, <1>2 DEF StopCollector, CloseStopCh, Goto, service, callers, collectors, readers,
         files, ghosts
    <2>5. ASSUME NEW w \in Worker, RegisterLocked(c, w) PROVE Frame
      BY <2>5
    <2>6. ASSUME NEW s \in Stream, StartReader(c, s) PROVE Frame
      BY <2>6, <1>2 DEF StartReader, Return, Goto, service, callers, collectors, readers, files,
         ghosts
    <2>7. CASE AddPanics(c)
      BY <2>7, <1>2 DEF AddPanics, Goto, service, callers, collectors, readers, files, ghosts
    <2> QED
      BY <1>2, <2>1, <2>2, <2>3, <2>4, <2>5, <2>6, <2>7 DEF Advance
  <1>3. ASSUME ~Panicked, NEW r \in Stream, Scan(r) \/ StreamEnds(r) \/ Process(r)
         PROVE  Frame
    <2>1. CASE Scan(r) \/ StreamEnds(r) \/ Quits(r)
      BY <2>1, <1>3 DEF Scan, StreamEnds, Done, Quits, Goto, service, callers, collectors,
         readers, files, ghosts
    <2>2. CASE GoesOn(r) \/ ProcessLine(r) \/ ReaderPanics(r)
      BY <2>2, <1>3 DEF GoesOn, ProcessLine, WriteToOutputs, WriteFails, WriteBuffered,
         FlushFails, Seen, ReaderPanics, Torn, Goto, service, callers, collectors, readers,
         files, ghosts
    <2> QED
      BY <1>3, <2>1, <2>2 DEF Process
  <1>4. CASE UNCHANGED vars
    BY <1>4 DEF vars, service, callers, collectors, readers, files, ghosts
  <1> QED
    BY <1>1, <1>2, <1>3, <1>4 DEF Next

\* A collector stays registered until its stop has returned.
LEMMA RegisteredStep ==
    ASSUME Inv, RegisteredInv, [Next]_vars
    PROVE  RegisteredInv'
  <1> SUFFICES ASSUME ~Panicked', NEW k \in 1..made'
               PROVE  Stopped(k)' \/ \E w \in Worker : workers'[w] = k
    BY DEF RegisteredInv
  <1>0. ~Panicked
    BY DEF Next, vars, callers, readers, Panicked
  <1>1. k \in 1..made => Stopped(k) \/ \E w \in Worker : workers[w] = k
    BY <1>0 DEF RegisteredInv
  <1>2. k \in 1..made /\ Stopped(k) => Stopped(k)'
    BY StoppedStep
  <1>3. CASE UNCHANGED <<workers, made>>
    BY <1>1, <1>2, <1>3
  <1>4. ASSUME NEW c \in Caller, NEW v \in Worker, RegisterLocked(c, v)
        PROVE  Stopped(k)' \/ \E w \in Worker : workers'[w] = k
    <2>1. CASE workers[v] # 0
      BY <1>1, <1>2, <1>4, <2>1 DEF RegisterLocked, collectors
    <2>2. CASE workers[v] = 0
      <3>1. made' = made + 1 /\ workers' = [workers EXCEPT ![v] = made + 1] /\ made \in Nat
        BY <1>4, <2>2 DEF RegisterLocked, Inv, TypeOK, TypeCollectors
      <3>2. workers'[v] = made + 1 /\ \A w \in Worker : w # v => workers'[w] = workers[w]
        BY <3>1 DEF Inv, TypeOK, TypeService
      <3>3. CASE k = made + 1
        BY <3>2, <3>3
      <3>4. CASE k # made + 1
        <4>1. k \in 1..made /\ k # 0
          BY <3>1, <3>4
        <4> QED
          BY <1>1, <1>2, <2>2, <3>2, <4>1
      <3> QED
        BY <3>3, <3>4
    <2> QED
      BY <2>1, <2>2
  <1>5. ASSUME NEW c \in Caller, WorkerUnregistered(c)
        PROVE  Stopped(k)' \/ \E w \in Worker : workers'[w] = k
    <2>1. made' = made /\ \A w \in Worker : workers[w] # cur[c] => workers'[w] = workers[w]
      BY <1>5 DEF WorkerUnregistered, Inv, TypeOK, TypeService
    <2>2. CASE k = cur[c]
      <3>1. k \in stopCh' /\ pc'[c] = "idle" /\ \A d \in Caller : d # c => pc'[d] = pc[d]
        BY <1>5, <2>2 DEF WorkerUnregistered, Waited, Inv, CurInv, Waits, Return, Goto, TypeOK,
           TypeCallers
      <3>2. \A d \in Caller : d # c => pc[d] \notin Waits
        BY <1>5 DEF WorkerUnregistered, Waited, Inv, LockInv, Waits
      <3> QED
        BY <3>1, <3>2 DEF Stopped, Waits
    <2>3. CASE k # cur[c]
      BY <1>1, <1>2, <2>1, <2>3
    <2> QED
      BY <2>2, <2>3
  <1> QED
    BY <1>3, <1>4, <1>5, WorkersFrame

\* When every collector is stopped, they stay stopped until one is made.
LEMMA AllStoppedStep ==
    ASSUME Inv, [Next]_vars, ~Panicked', AllStopped, made' = made
    PROVE  AllStopped'
  BY StoppedStep DEF AllStopped

\* An orderly Start or Stop finds no other under way.
LEMMA OneBusyStep ==
    ASSUME Inv, RegisteredInv, OrderParts, ~Panicked, ~Panicked', orderly, orderly', [Next]_vars
    PROVE  OneBusy'
  <1> USE DEF OneBusy, OrderParts, Inv, TypeOK, TypeCallers, Busy, Sweeps
  <1>1. ASSUME ~Panicked, NEW c \in Caller, Call(c)
         PROVE  OneBusy'
    <2>1. CASE Start(c)
      BY <2>1, <1>1 DEF Start, Starting, Stopping, Goto, service, callers, collectors, readers,
         files, ghosts
    <2>2. CASE Stop(c)
      BY <2>2, <1>1 DEF Stop, Starting, Stopping, Goto, service, callers, collectors, readers,
         files, ghosts
    <2>3. ASSUME NEW enabled \in BOOLEAN, UpdateConfiguration(c, enabled) PROVE OneBusy'
      BY <2>3, <1>1 DEF UpdateConfiguration, Free, Goto, service, callers, collectors, readers,
         files, ghosts
    <2>4. CASE RegisterWorker(c)
      BY <2>4, <1>1 DEF RegisterWorker, Goto, service, callers, collectors, readers, files,
         ghosts
    <2>5. ASSUME NEW w \in Worker, UnregisterWorker(c, w) PROVE OneBusy'
      BY <2>5, <1>1 DEF UnregisterWorker, CloseStopCh, Free, Goto, service, callers, collectors,
         readers, files, ghosts
    <2>6. ASSUME NEW w \in Worker, CollectFromStream(c, w) PROVE OneBusy'
      <3>1. PICK t \in Stream : Collect(c, w, {t})
        BY <2>6 DEF CollectFromStream
      <3> QED
        BY <3>1 DEF Collect, Goto
    <2>7. ASSUME NEW w \in Worker, CollectFromProcess(c, w) PROVE OneBusy'
      <3>1. PICK t, u \in Stream : Collect(c, w, {t, u})
        BY <2>7 DEF CollectFromProcess
      <3> QED
        BY <3>1 DEF Collect, Goto
    <2> QED
      BY <1>1, <2>1, <2>2, <2>3, <2>4, <2>5, <2>6, <2>7 DEF Call
  <1>2. ASSUME ~Panicked, NEW c \in Caller, Advance(c)
         PROVE  OneBusy'
    <2>1. CASE StartPlain(c) \/ StartLocked(c) \/ InitializeOutputs(c)
      BY <2>1, <1>2 DEF StartPlain, Free, StartLocked, InitializeOutputs, Goto, service, callers,
         collectors, readers, files, ghosts
    <2>2. CASE StopLocked(c) \/ CollectorStopped(c) \/ CloseOutputs(c)
      BY <2>2, <1>2 DEF StopLocked, Free, CollectorStopped, Waited, CloseOutputs, CloseFile,
         Goto, service, callers, collectors, readers, files, ghosts
    <2>3. CASE WorkerUnregistered(c) \/ AddPanics(c)
      BY <2>3, <1>2 DEF WorkerUnregistered, Return, Waited, AddPanics, Goto, service, callers,
         collectors, readers, files, ghosts
    <2>4. ASSUME NEW w \in Worker, StopCollector(c, w) \/ RegisterLocked(c, w) PROVE OneBusy'
      BY <2>4, <1>2 DEF StopCollector, CloseStopCh, RegisterLocked, Free, Goto, service, callers,
         collectors, readers, files, ghosts
    <2>5. ASSUME NEW s \in Stream, StartReader(c, s) PROVE OneBusy'
      BY <2>5, <1>2 DEF StartReader, Return, Goto, service, callers, collectors, readers, files,
         ghosts
    <2> QED
      BY <1>2, <2>1, <2>2, <2>3, <2>4, <2>5 DEF Advance
  <1>3. ASSUME ~Panicked, NEW r \in Stream, Scan(r) \/ StreamEnds(r) \/ Process(r)
         PROVE  OneBusy'
    <2>1. CASE Scan(r) \/ StreamEnds(r) \/ Quits(r)
      BY <2>1, <1>3 DEF Scan, StreamEnds, Done, Quits, Goto, service, callers, collectors,
         readers, files, ghosts
    <2>2. CASE GoesOn(r) \/ ProcessLine(r) \/ ReaderPanics(r)
      BY <2>2, <1>3 DEF GoesOn, ProcessLine, WriteToOutputs, WriteFails, WriteBuffered,
         FlushFails, Seen, ReaderPanics, Torn, Goto, service, callers, collectors, readers,
         files, ghosts
    <2> QED
      BY <1>3, <2>1, <2>2 DEF Process
  <1>4. CASE UNCHANGED vars
    BY <1>4 DEF vars, service, callers, collectors, readers, files, ghosts
  <1> QED
    BY <1>1, <1>2, <1>3, <1>4 DEF Next

\* The flag says whether the service was last started or stopped.
LEMMA FlagStep ==
    ASSUME Inv, RegisteredInv, OrderParts, ~Panicked, ~Panicked', orderly, orderly', [Next]_vars
    PROVE  FlagInv'
  <1> USE DEF FlagInv, OrderParts, Inv, TypeOK, TypeCallers, Starting, Stopping
  <1>1. ASSUME ~Panicked, NEW c \in Caller, Call(c)
         PROVE  FlagInv'
    <2>1. CASE Start(c)
      BY <2>1, <1>1 DEF Start, Goto, service, callers, collectors, readers, files, ghosts
    <2>2. CASE Stop(c)
      BY <2>2, <1>1 DEF Stop, Goto, service, callers, collectors, readers, files, ghosts
    <2>3. ASSUME NEW enabled \in BOOLEAN, UpdateConfiguration(c, enabled) PROVE FlagInv'
      BY <2>3, <1>1 DEF UpdateConfiguration, Free, Goto, service, callers, collectors, readers,
         files, ghosts
    <2>4. CASE RegisterWorker(c)
      BY <2>4, <1>1 DEF RegisterWorker, Goto, service, callers, collectors, readers, files,
         ghosts
    <2>5. ASSUME NEW w \in Worker, UnregisterWorker(c, w) PROVE FlagInv'
      BY <2>5, <1>1 DEF UnregisterWorker, CloseStopCh, Free, Goto, service, callers, collectors,
         readers, files, ghosts
    <2>6. ASSUME NEW w \in Worker, CollectFromStream(c, w) PROVE FlagInv'
      <3>1. PICK t \in Stream : Collect(c, w, {t})
        BY <2>6 DEF CollectFromStream
      <3> QED
        BY <3>1 DEF Collect, Goto, service
    <2>7. ASSUME NEW w \in Worker, CollectFromProcess(c, w) PROVE FlagInv'
      <3>1. PICK t, u \in Stream : Collect(c, w, {t, u})
        BY <2>7 DEF CollectFromProcess
      <3> QED
        BY <3>1 DEF Collect, Goto, service
    <2> QED
      BY <1>1, <2>1, <2>2, <2>3, <2>4, <2>5, <2>6, <2>7 DEF Call
  <1>2. ASSUME ~Panicked, NEW c \in Caller, Advance(c)
         PROVE  FlagInv'
    <2>1. CASE StartPlain(c)
      BY <2>1, <1>2 DEF StartPlain, Free, OneBusy, Busy, Sweeps, Goto, service, callers,
         collectors, readers, files, ghosts
    <2>2. CASE StartLocked(c)
      BY <2>2, <1>2 DEF StartLocked, Free, Goto, service, callers, collectors, readers, files,
         ghosts
    <2>3. CASE InitializeOutputs(c)
      BY <2>3, <1>2 DEF InitializeOutputs, OneBusy, Busy, Sweeps, Goto, service, callers,
         collectors, readers, files, ghosts
    <2>4. CASE StopLocked(c)
      BY <2>4, <1>2 DEF StopLocked, Free, Goto, service, callers, collectors, readers, files,
         ghosts
    <2>5. CASE CollectorStopped(c)
      BY <2>5, <1>2 DEF CollectorStopped, Waited, Goto, service, callers, collectors, readers,
         files, ghosts
    <2>6. CASE CloseOutputs(c)
      BY <2>6, <1>2 DEF CloseOutputs, CloseFile, OneBusy, Busy, Sweeps, Goto, service, callers,
         collectors, readers, files, ghosts
    <2>7. CASE WorkerUnregistered(c)
      BY <2>7, <1>2 DEF WorkerUnregistered, Return, Waited, Goto, service, callers, collectors,
         readers, files, ghosts
    <2>8. ASSUME NEW w \in Worker, StopCollector(c, w) PROVE FlagInv'
      BY <2>8, <1>2 DEF StopCollector, CloseStopCh, Goto, service, callers, collectors, readers,
         files, ghosts
    <2>9. ASSUME NEW w \in Worker, RegisterLocked(c, w) PROVE FlagInv'
      BY <2>9, <1>2 DEF RegisterLocked, Free, Goto, service, callers, collectors, readers, files,
         ghosts
    <2>10. ASSUME NEW s \in Stream, StartReader(c, s) PROVE FlagInv'
      BY <2>10, <1>2 DEF StartReader, Return, Goto, service, callers, collectors, readers, files,
         ghosts
    <2>11. CASE AddPanics(c)
      BY <2>11, <1>2 DEF AddPanics, Goto, service, callers, collectors, readers, files, ghosts
    <2> QED
      BY <1>2, <2>1, <2>2, <2>3, <2>4, <2>5, <2>6, <2>7, <2>8, <2>9, <2>10, <2>11 DEF Advance
  <1>3. ASSUME ~Panicked, NEW r \in Stream, Scan(r) \/ StreamEnds(r) \/ Process(r)
         PROVE  FlagInv'
    <2>1. CASE Scan(r)
      BY <2>1, <1>3 DEF Scan, Goto, service, callers, collectors, readers, files, ghosts
    <2>2. CASE StreamEnds(r)
      BY <2>2, <1>3 DEF StreamEnds, Done, Goto, service, callers, collectors, readers, files,
         ghosts
    <2>3. CASE Quits(r)
      BY <2>3, <1>3 DEF Quits, Done, Goto, service, callers, collectors, readers, files, ghosts
    <2>4. CASE GoesOn(r)
      BY <2>4, <1>3 DEF GoesOn, Goto, service, callers, collectors, readers, files, ghosts
    <2>5. CASE ProcessLine(r)
      BY <2>5, <1>3 DEF ProcessLine, WriteToOutputs, WriteFails, WriteBuffered, FlushFails, Seen,
         Goto, service, callers, collectors, readers, files, ghosts
    <2>6. CASE ReaderPanics(r)
      BY <2>6, <1>3 DEF ReaderPanics, Torn, Goto, service, callers, collectors, readers, files,
         ghosts
    <2> QED
      BY <1>3, <2>1, <2>2, <2>3, <2>4, <2>5, <2>6 DEF Process
  <1>4. CASE UNCHANGED vars
    BY <1>4 DEF vars, service, callers, collectors, readers, files, ghosts
  <1> QED
    BY <1>1, <1>2, <1>3, <1>4 DEF Next

\* A Stop closes the outputs when it is done with the collectors, a Start makes new ones.
LEMMA OpenStep ==
    ASSUME Inv, RegisteredInv, OrderParts, ~Panicked, ~Panicked', orderly, orderly', [Next]_vars
    PROVE  OpenInv'
  <1> USE DEF OpenInv, OrderParts, Inv, TypeOK, TypeCallers, Starting, Stopping
  <1>1. ASSUME ~Panicked, NEW c \in Caller, Call(c)
         PROVE  OpenInv'
    <2>1. CASE Start(c)
      BY <2>1, <1>1 DEF Start, Goto, service, callers, collectors, readers, files, ghosts
    <2>2. CASE Stop(c)
      BY <2>2, <1>1 DEF Stop, Goto, service, callers, collectors, readers, files, ghosts
    <2>3. ASSUME NEW enabled \in BOOLEAN, UpdateConfiguration(c, enabled) PROVE OpenInv'
      BY <2>3, <1>1 DEF UpdateConfiguration, Free, Goto, service, callers, collectors, readers,
         files, ghosts
    <2>4. CASE RegisterWorker(c)
      BY <2>4, <1>1 DEF RegisterWorker, Goto, service, callers, collectors, readers, files,
         ghosts
    <2>5. ASSUME NEW w \in Worker, UnregisterWorker(c, w) PROVE OpenInv'
      BY <2>5, <1>1 DEF UnregisterWorker, CloseStopCh, Free, Goto, service, callers, collectors,
         readers, files, ghosts
    <2>6. ASSUME NEW w \in Worker, CollectFromStream(c, w) PROVE OpenInv'
      <3>1. PICK t \in Stream : Collect(c, w, {t})
        BY <2>6 DEF CollectFromStream
      <3> QED
        BY <3>1 DEF Collect, Goto, service, files
    <2>7. ASSUME NEW w \in Worker, CollectFromProcess(c, w) PROVE OpenInv'
      <3>1. PICK t, u \in Stream : Collect(c, w, {t, u})
        BY <2>7 DEF CollectFromProcess
      <3> QED
        BY <3>1 DEF Collect, Goto, service, files
    <2> QED
      BY <1>1, <2>1, <2>2, <2>3, <2>4, <2>5, <2>6, <2>7 DEF Call
  <1>2. ASSUME ~Panicked, NEW c \in Caller, Advance(c)
         PROVE  OpenInv'
    <2>1. CASE StartPlain(c)
      <3>1. outputs = 0
        BY <2>1 DEF StartPlain
      <3>2. 0 \notin shut
        BY DEF TypeFiles, Writer
      <3> QED
        BY <2>1, <3>1, <3>2 DEF StartPlain, service, files
    <2>2. CASE StartLocked(c)
      BY <2>2, <1>2 DEF StartLocked, Free, Goto, service, callers, collectors, readers, files,
         ghosts
    <2>3. CASE InitializeOutputs(c)
      <3>1. writers \notin shut
        BY <2>3 DEF InitializeOutputs, WriterInv
      <3> QED
        BY <2>3, <3>1 DEF InitializeOutputs, files
    <2>4. CASE StopLocked(c)
      BY <2>4, <1>2 DEF StopLocked, Free, Goto, service, callers, collectors, readers, files,
         ghosts
    <2>5. CASE CollectorStopped(c)
      BY <2>5, <1>2 DEF CollectorStopped, Waited, Goto, service, callers, collectors, readers,
         files, ghosts
    <2>6. CASE CloseOutputs(c)
      <3>1. ~running /\ \A d \in Caller : d # c => pc[d] \notin Busy
        BY <2>6 DEF CloseOutputs, FlagInv, OneBusy, Busy, Sweeps, Stopping
      <3> QED
        BY <2>6, <3>1 DEF CloseOutputs, Goto, Busy, Sweeps
    <2>7. CASE WorkerUnregistered(c)
      BY <2>7, <1>2 DEF WorkerUnregistered, Return, Waited, Goto, service, callers, collectors,
         readers, files, ghosts
    <2>8. ASSUME NEW w \in Worker, StopCollector(c, w) PROVE OpenInv'
      BY <2>8, <1>2 DEF StopCollector, CloseStopCh, Goto, service, callers, collectors, readers,
         files, ghosts
    <2>9. ASSUME NEW w \in Worker, RegisterLocked(c, w) PROVE OpenInv'
      BY <2>9, <1>2 DEF RegisterLocked, Free, Goto, service, callers, collectors, readers, files,
         ghosts
    <2>10. ASSUME NEW s \in Stream, StartReader(c, s) PROVE OpenInv'
      BY <2>10, <1>2 DEF StartReader, Return, Goto, service, callers, collectors, readers, files,
         ghosts
    <2>11. CASE AddPanics(c)
      BY <2>11, <1>2 DEF AddPanics, Goto, service, callers, collectors, readers, files, ghosts
    <2> QED
      BY <1>2, <2>1, <2>2, <2>3, <2>4, <2>5, <2>6, <2>7, <2>8, <2>9, <2>10, <2>11 DEF Advance
  <1>3. ASSUME ~Panicked, NEW r \in Stream, Scan(r) \/ StreamEnds(r) \/ Process(r)
         PROVE  OpenInv'
    <2>1. CASE Scan(r)
      BY <2>1, <1>3 DEF Scan, Goto, service, callers, collectors, readers, files, ghosts
    <2>2. CASE StreamEnds(r)
      BY <2>2, <1>3 DEF StreamEnds, Done, Goto, service, callers, collectors, readers, files,
         ghosts
    <2>3. CASE Quits(r)
      BY <2>3, <1>3 DEF Quits, Done, Goto, service, callers, collectors, readers, files, ghosts
    <2>4. CASE GoesOn(r)
      BY <2>4, <1>3 DEF GoesOn, Goto, service, callers, collectors, readers, files, ghosts
    <2>5. CASE ProcessLine(r)
      BY <2>5, <1>3 DEF ProcessLine, WriteToOutputs, WriteFails, WriteBuffered, FlushFails, Seen,
         Goto, service, callers, collectors, readers, files, ghosts
    <2>6. CASE ReaderPanics(r)
      BY <2>6, <1>3 DEF ReaderPanics, Torn, Goto, service, callers, collectors, readers, files,
         ghosts
    <2> QED
      BY <1>3, <2>1, <2>2, <2>3, <2>4, <2>5, <2>6 DEF Process
  <1>4. CASE UNCHANGED vars
    BY <1>4 DEF vars, service, callers, collectors, readers, files, ghosts
  <1> QED
    BY <1>1, <1>2, <1>3, <1>4 DEF Next

\* The service comes down when a Stop closes the outputs, and makes no collector then.
LEMMA DownFrame ==
    ASSUME Inv, RegisteredInv, OrderParts, ~Panicked, ~Panicked', orderly, orderly', [Next]_vars
    PROVE  \/ ~(Starting \/ (~running /\ ~Stopping))'
           \/ (Starting \/ (~running /\ ~Stopping)) /\ made' = made
           \/ \E c \in Caller : CloseOutputs(c)
  <1> DEFINE Down == Starting \/ (~running /\ ~Stopping)
             Frame == ~Down' \/ (Down /\ made' = made) \/ \E c \in Caller : CloseOutputs(c)
  <1> USE DEF OrderParts, FlagInv, Inv, TypeOK, TypeCallers, Starting, Stopping
  <1>1. ASSUME ~Panicked, NEW c \in Caller, Call(c)
         PROVE  Frame
    <2>1. CASE Start(c) \/ Stop(c) \/ RegisterWorker(c)
      BY <2>1, <1>1 DEF Start, Stop, RegisterWorker, Goto, service, callers, collectors, readers,
         files, ghosts
    <2>2. ASSUME NEW enabled \in BOOLEAN, UpdateConfiguration(c, enabled) PROVE Frame
      BY <2>2, <1>1 DEF UpdateConfiguration, Free, Goto, service, callers, collectors, readers,
         files, ghosts
    <2>3. ASSUME NEW w \in Worker, UnregisterWorker(c, w) PROVE Frame
      BY <2>3, <1>1 DEF UnregisterWorker, CloseStopCh, Free, Goto, service, callers, collectors,
         readers, files, ghosts
    <2>4. ASSUME NEW w \in Worker, CollectFromStream(c, w) PROVE Frame
      <3>1. PICK t \in Stream : Collect(c, w, {t})
        BY <2>4 DEF CollectFromStream
      <3> QED
        BY <3>1 DEF Collect, Goto, service, collectors
    <2>5. ASSUME NEW w \in Worker, CollectFromProcess(c, w) PROVE Frame
      <3>1. PICK t, u \in Stream : Collect(c, w, {t, u})
        BY <2>5 DEF CollectFromProcess
      <3> QED
        BY <3>1 DEF Collect, Goto, service, collectors
    <2> QED
      BY <1>1, <2>1, <2>2, <2>3, <2>4, <2>5 DEF Call
  <1>2. ASSUME ~Panicked, NEW c \in Caller, Advance(c)
         PROVE  Frame
    <2>1. CASE StartPlain(c) \/ StartLocked(c) \/ InitializeOutputs(c)
      BY <2>1, <1>2 DEF StartPlain, Free, StartLocked, InitializeOutputs, Goto, service, callers,
         collectors, readers, files, ghosts
    <2>2. CASE StopLocked(c) \/ CollectorStopped(c) \/ WorkerUnregistered(c)
      BY <2>2, <1>2 DEF StopLocked, Free, CollectorStopped, Waited, WorkerUnregistered, Return,
         Goto, service, callers, collectors, readers, files, ghosts
    <2>3. CASE CloseOutputs(c)
      BY <2>3
    <2>4. ASSUME NEW w \in Worker, StopCollector(c, w) PROVE Frame
      BY <2>4, <1>2 DEF StopCollector, CloseStopCh, Panicked, Goto, service, callers, collectors,
         readers, files, ghosts
    <2>5. ASSUME NEW w \in Worker, RegisterLocked(c, w) PROVE Frame
      BY <2>5, <1>2 DEF RegisterLocked, Free, Goto, service, callers, collectors, readers, files,
         ghosts
    <2>6. ASSUME NEW s \in Stream, StartReader(c, s) PROVE Frame
      BY <2>6, <1>2 DEF StartReader, Return, Goto, service, callers, collectors, readers, files,
         ghosts
    <2>7. CASE AddPanics(c)
      BY <2>7, <1>2 DEF AddPanics, Goto, service, callers, collectors, readers, files, ghosts
    <2> QED
      BY <1>2, <2>1, <2>2, <2>3, <2>4, <2>5, <2>6, <2>7 DEF Advance
  <1>3. ASSUME ~Panicked, NEW r \in Stream, Scan(r) \/ StreamEnds(r) \/ Process(r)
         PROVE  Frame
    <2>1. CASE Scan(r) \/ StreamEnds(r) \/ Quits(r)
      BY <2>1, <1>3 DEF Scan, StreamEnds, Done, Quits, Goto, service, callers, collectors,
         readers, files, ghosts
    <2>2. CASE GoesOn(r) \/ ProcessLine(r) \/ ReaderPanics(r)
      BY <2>2, <1>3 DEF GoesOn, ProcessLine, WriteToOutputs, WriteFails, WriteBuffered,
         FlushFails, Seen, ReaderPanics, Torn, Goto, service, callers, collectors, readers,
         files, ghosts
    <2> QED
      BY <1>3, <2>1, <2>2 DEF Process
  <1>4. CASE UNCHANGED vars
    BY <1>4 DEF vars, service, callers, collectors, readers, files, ghosts
  <1> QED
    BY <1>1, <1>2, <1>3, <1>4 DEF Next

\* A collector is made only while the service is up, and stopped before it is down.
LEMMA DownStep ==
    ASSUME Inv, RegisteredInv, OrderParts, ~Panicked, ~Panicked', orderly, orderly', [Next]_vars
    PROVE  DownInv'
  <1>1. CASE (Starting \/ (~running /\ ~Stopping)) /\ made' = made
    BY <1>1, AllStoppedStep DEF OrderParts, DownInv
  <1>2. ASSUME NEW c \in Caller, CloseOutputs(c) PROVE DownInv'
    <2>1. AllStopped /\ made' = made
      BY <1>2 DEF CloseOutputs, OrderParts, SweepInv, Sweeps, AllStopped, collectors
    <2> QED
      BY <2>1, AllStoppedStep DEF DownInv
  <1> QED
    BY <1>1, <1>2, DownFrame DEF DownInv

\* What a Stop still has to do changes in three of its own steps.
LEMMA SweepFrame ==
    ASSUME NEW d \in Caller, pc'[d] \in Sweeps, Inv, RegisteredInv, OrderParts, ~Panicked, ~Panicked', orderly, orderly', [Next]_vars
    PROVE  \/ /\ UNCHANGED <<made, left, workers>>
              /\ pc[d] \in Sweeps /\ cur'[d] = cur[d]
              /\ pc'[d] = "sweep" <=> pc[d] = "sweep"
           \/ StopLocked(d) \/ CollectorStopped(d)
           \/ \E w \in Worker : StopCollector(d, w)
  <1> DEFINE Frame == \/ /\ UNCHANGED <<made, left, workers>>
                         /\ pc[d] \in Sweeps /\ cur'[d] = cur[d]
                         /\ pc'[d] = "sweep" <=> pc[d] = "sweep"
                      \/ StopLocked(d) \/ CollectorStopped(d)
                      \/ \E w \in Worker : StopCollector(d, w)
  <1> USE DEF Sweeps, Inv, TypeOK, TypeCallers
  <1>1. ASSUME ~Panicked, NEW c \in Caller, Call(c)
         PROVE  Frame
    <2>1. CASE Start(c) \/ Stop(c) \/ RegisterWorker(c)
      BY <2>1, <1>1 DEF Start, Stop, RegisterWorker, Goto, service, callers, collectors, readers,
         files, ghosts
    <2>2. ASSUME NEW enabled \in BOOLEAN, UpdateConfiguration(c, enabled) PROVE Frame
      BY <2>2, <1>1 DEF UpdateConfiguration, Free, Goto, service, callers, collectors, readers,
         files, ghosts
    <2>3. ASSUME NEW w \in Worker, UnregisterWorker(c, w) PROVE Frame
      BY <2>3, <1>1 DEF UnregisterWorker, CloseStopCh, Free, Goto, service, callers, collectors,
         readers, files, ghosts
    <2>4. ASSUME NEW w \in Worker, CollectFromStream(c, w) PROVE Frame
      <3>1. PICK t \in Stream : Collect(c, w, {t})
        BY <2>4 DEF CollectFromStream
      <3> QED
        BY <3>1 DEF Collect, Goto, service, collectors
    <2>5. ASSUME NEW w \in Worker, CollectFromProcess(c, w) PROVE Frame
      <3>1. PICK t, u \in Stream : Collect(c, w, {t, u})
        BY <2>5 DEF CollectFromProcess
      <3> QED
        BY <3>1 DEF Collect, Goto, service, collectors
    <2> QED
      BY <1>1, <2>1, <2>2, <2>3, <2>4, <2>5 DEF Call
  <1>2. ASSUME ~Panicked, NEW c \in Caller, Advance(c)
         PROVE  Frame
    <2>1. CASE StartPlain(c) \/ StartLocked(c) \/ InitializeOutputs(c)
      BY <2>1, <1>2 DEF StartPlain, Free, StartLocked, InitializeOutputs, Goto, service, callers,
         collectors, readers, files, ghosts
    <2>2. CASE StopLocked(c)
      <3>1. CASE d # c
        BY <2>2, <3>1, Bounds DEF StopLocked, Free, Goto, LockInv, Waits
      <3>2. CASE d = c
        BY <2>2, <3>2
      <3> QED
        BY <3>1, <3>2
    <2>3. CASE CollectorStopped(c)
      <3>1. CASE d # c
        BY <2>3, <3>1 DEF CollectorStopped, Waited, Goto, LockInv, Waits
      <3>2. CASE d = c
        BY <2>3, <3>2
      <3> QED
        BY <3>1, <3>2
    <2>4. CASE CloseOutputs(c) \/ AddPanics(c)
      BY <2>4, <1>2 DEF CloseOutputs, CloseFile, AddPanics, Goto, service, callers, collectors,
         readers, files, ghosts
    <2>5. CASE WorkerUnregistered(c)
      <3>1. holder = c
        BY <2>5 DEF WorkerUnregistered, Waited, LockInv, Waits
      <3>2. \A e \in Caller : e # c => pc[e] \notin Sweeps
        BY <3>1 DEF LockInv, Waits
      <3> QED
        BY <2>5, <3>2 DEF WorkerUnregistered, Waited, Return, Goto
    <2>6. ASSUME NEW w \in Worker, StopCollector(c, w) PROVE Frame
      <3>1. CASE d # c
        BY <2>6, <3>1 DEF StopCollector, CloseStopCh, Goto, LockInv, Waits
      <3>2. CASE d = c
        BY <2>6, <3>2
      <3> QED
        BY <3>1, <3>2
    <2>7. ASSUME NEW w \in Worker, RegisterLocked(c, w) PROVE Frame
      <3>1. \A e \in Caller : pc[e] \notin Sweeps
        BY <2>7, Bounds DEF RegisterLocked, Free, LockInv, Waits
      <3> QED
        BY <2>7, <3>1 DEF RegisterLocked, Goto
    <2>8. ASSUME NEW s \in Stream, StartReader(c, s) PROVE Frame
      BY <2>8, <1>2 DEF StartReader, Return, Goto, service, callers, collectors, readers, files,
         ghosts
    <2> QED
      BY <1>2, <2>1, <2>2, <2>3, <2>4, <2>5, <2>6, <2>7, <2>8 DEF Advance
  <1>3. ASSUME ~Panicked, NEW r \in Stream, Scan(r) \/ StreamEnds(r) \/ Process(r)
         PROVE  Frame
    <2>1. CASE Scan(r) \/ StreamEnds(r) \/ Quits(r)
      BY <2>1, <1>3 DEF Scan, StreamEnds, Done, Quits, Goto, service, callers, collectors,
         readers, files, ghosts
    <2>2. CASE GoesOn(r) \/ ProcessLine(r) \/ ReaderPanics(r)
      BY <2>2, <1>3 DEF GoesOn, ProcessLine, WriteToOutputs, WriteFails, WriteBuffered,
         FlushFails, Seen, ReaderPanics, Torn, Goto, service, callers, collectors, readers,
         files, ghosts
    <2> QED
      BY <1>3, <2>1, <2>2 DEF Process
  <1>4. CASE UNCHANGED vars
    BY <1>4 DEF vars, service, callers, collectors, readers, files, ghosts
  <1> QED
    BY <1>1, <1>2, <1>3, <1>4 DEF Next

\* Calls that overlapped stay so.
LEMMA OrderlyFrame ==
    ASSUME Inv, [Next]_vars
    PROVE  orderly' => orderly
  <1> USE TRUE
  <1>1. ASSUME ~Panicked, NEW c \in Caller, Call(c)
         PROVE  orderly' => orderly
    <2>1. CASE Start(c) \/ Stop(c) \/ RegisterWorker(c)
      BY <2>1, <1>1 DEF Start, Stop, RegisterWorker, Goto, service, callers, collectors, readers,
         files, ghosts
    <2>2. ASSUME NEW enabled \in BOOLEAN, UpdateConfiguration(c, enabled) PROVE orderly' =>
       orderly
      BY <2>2, <1>1 DEF UpdateConfiguration, Free, Goto, service, callers, collectors, readers,
         files, ghosts
    <2>3. ASSUME NEW w \in Worker, UnregisterWorker(c, w) \/ CollectFromStream(c, w) \/
       CollectFromProcess(c, w) PROVE orderly' => orderly
      BY <2>3, <1>1 DEF UnregisterWorker, CloseStopCh, Free, CollectFromStream, Collect, Fresh,
         CollectFromProcess, Goto, service, callers, collectors, readers, files, ghosts
    <2> QED
      BY <1>1, <2>1, <2>2, <2>3 DEF Call
  <1>2. ASSUME ~Panicked, NEW c \in Caller, Advance(c)
         PROVE  orderly' => orderly
    <2>1. CASE StartPlain(c) \/ StartLocked(c) \/ InitializeOutputs(c)
      BY <2>1, <1>2 DEF StartPlain, Free, StartLocked, InitializeOutputs, Goto, service, callers,
         collectors, readers, files, ghosts
    <2>2. CASE StopLocked(c) \/ CollectorStopped(c) \/ CloseOutputs(c)
      BY <2>2, <1>2 DEF StopLocked, Free, CollectorStopped, Waited, CloseOutputs, CloseFile,
         Goto, service, callers, collectors, readers, files, ghosts
    <2>3. CASE WorkerUnregistered(c) \/ AddPanics(c)
      BY <2>3, <1>2 DEF WorkerUnregistered, Return, Waited, AddPanics, Goto, service, callers,
         collectors, readers, files, ghosts
    <2>4. ASSUME NEW w \in Worker, StopCollector(c, w) \/ RegisterLocked(c, w) PROVE orderly' =>
       orderly
      BY <2>4, <1>2 DEF StopCollector, CloseStopCh, RegisterLocked, Free, Goto, service, callers,
         collectors, readers, files, ghosts
    <2>5. ASSUME NEW s \in Stream, StartReader(c, s) PROVE orderly' => orderly
      BY <2>5, <1>2 DEF StartReader, Return, Goto, service, callers, collectors, readers, files,
         ghosts
    <2> QED
      BY <1>2, <2>1, <2>2, <2>3, <2>4, <2>5 DEF Advance
  <1>3. ASSUME ~Panicked, NEW r \in Stream, Scan(r) \/ StreamEnds(r) \/ Process(r)
         PROVE  orderly' => orderly
    <2>1. CASE Scan(r) \/ StreamEnds(r) \/ Quits(r)
      BY <2>1, <1>3 DEF Scan, StreamEnds, Done, Quits, Goto, service, callers, collectors,
         readers, files, ghosts
    <2>2. CASE GoesOn(r) \/ ProcessLine(r) \/ ReaderPanics(r)
      BY <2>2, <1>3 DEF GoesOn, ProcessLine, WriteToOutputs, WriteFails, WriteBuffered,
         FlushFails, Seen, ReaderPanics, Torn, Goto, service, callers, collectors, readers,
         files, ghosts
    <2> QED
      BY <1>3, <2>1, <2>2 DEF Process
  <1>4. CASE UNCHANGED vars
    BY <1>4 DEF vars, service, callers, collectors, readers, files, ghosts
  <1> QED
    BY <1>1, <1>2, <1>3, <1>4 DEF Next

\* A Stop stops every collector there is.
LEMMA SweepStep ==
    ASSUME Inv, RegisteredInv, OrderParts, ~Panicked, ~Panicked', orderly, orderly', [Next]_vars
    PROVE  SweepInv'
  <1> SUFFICES ASSUME NEW d \in Caller, pc'[d] \in Sweeps, NEW k \in 1..made'
               PROVE  \/ Stopped(k)'
                      \/ pc'[d] # "sweep" /\ cur'[d] = k
                      \/ \E w \in left' : workers'[w] = k
    BY DEF SweepInv
  <1>1. CASE /\ UNCHANGED <<made, left, workers>>
             /\ pc[d] \in Sweeps /\ cur'[d] = cur[d] /\ (pc'[d] = "sweep" <=> pc[d] = "sweep")
    BY <1>1, StoppedStep DEF OrderParts, SweepInv
  <1>2. CASE StopLocked(d)
    <2>1. made' = made /\ workers' = workers /\ left' = {w \in Worker : workers[w] # 0}
      BY <1>2 DEF StopLocked, collectors
    <2>2. k # 0
      BY <2>1 DEF Inv, TypeOK, TypeCollectors
    <2> QED
      BY <2>1, <2>2, StoppedStep DEF RegisteredInv
  <1>3. CASE CollectorStopped(d)
    <2>1. /\ UNCHANGED <<made, left, workers, stopCh>> /\ pc[d] \in Waits \cap Sweeps
          /\ pc'[d] = "sweep"
          /\ \A e \in Caller : e # d => pc'[e] = pc[e] /\ cur'[e] = cur[e]
      BY <1>3 DEF CollectorStopped, Waited, service, Waits, Sweeps, Goto, Inv, TypeOK, TypeCallers
    <2>2. CASE k = cur[d]
      <3>1. k \in stopCh'
        BY <2>1, <2>2 DEF Inv, CurInv
      <3>2. \A e \in Caller : e # d => pc[e] \notin Waits
        BY <2>1 DEF Inv, LockInv
      <3> QED
        BY <2>1, <3>1, <3>2 DEF Stopped, Waits
    <2>3. CASE k # cur[d]
      BY <2>1, <2>3, StoppedStep DEF OrderParts, SweepInv
    <2> QED
      BY <2>2, <2>3
  <1>4. ASSUME NEW v \in Worker, StopCollector(d, v)
        PROVE  \/ Stopped(k)'
               \/ pc'[d] # "sweep" /\ cur'[d] = k
               \/ \E w \in left' : workers'[w] = k
    <2>1. /\ UNCHANGED <<made, workers>> /\ left' = left \ {v} /\ cur'[d] = workers[v]
          /\ pc[d] = "sweep" /\ pc'[d] # "sweep"
      BY <1>4 DEF StopCollector, CloseStopCh, Goto, Inv, TypeOK, TypeCallers
    <2> QED
      BY <2>1, StoppedStep DEF OrderParts, SweepInv, Sweeps
  <1> QED
    BY <1>1, <1>2, <1>3, <1>4, SweepFrame

\* The order of a shutdown is kept by every step.
LEMMA OrderStep ==
    ASSUME Inv, RegisteredInv, OrderInv, [Next]_vars
    PROVE  OrderInv'
  <1> SUFFICES ASSUME orderly', ~Panicked' PROVE OrderParts'
    BY DEF OrderInv
  <1>1. CASE UNCHANGED vars
    BY <1>1 DEF vars, service, callers, collectors, readers, files, ghosts, OrderInv, OrderParts,
       OneBusy, FlagInv, DownInv, SweepInv, OpenInv, AllStopped, Stopped, Starting, Stopping,
       Panicked
  <1>2. CASE Next
    <2>1. orderly /\ ~Panicked
      BY <1>2, OrderlyFrame DEF Next
    <2> QED
      BY <2>1, OneBusyStep, FlagStep, DownStep, SweepStep, OpenStep DEF OrderInv, OrderParts
  <1> QED
    BY <1>1, <1>2

(***************************************************************************)
(* Lines.                                                                  *)
(***************************************************************************)

\* The files change in three actions.
LEMMA FilesFrame ==
    ASSUME [Next]_vars
    PROVE  \/ UNCHANGED <<shut, buffer, broken, disk, reported, given>>
           \/ \E c \in Caller : CloseOutputs(c)
           \/ \E r \in Stream : ProcessLine(r)
  <1> DEFINE Frame == \/ UNCHANGED <<shut, buffer, broken, disk, reported, given>>
                      \/ \E c \in Caller : CloseOutputs(c)
                      \/ \E r \in Stream : ProcessLine(r)
  <1>1. ASSUME ~Panicked, NEW c \in Caller, Call(c)
         PROVE  Frame
    <2>1. CASE Start(c) \/ Stop(c) \/ RegisterWorker(c)
      BY <2>1, <1>1 DEF Start, Stop, RegisterWorker, Goto, service, callers, collectors, readers,
         files, ghosts
    <2>2. ASSUME NEW enabled \in BOOLEAN, UpdateConfiguration(c, enabled) PROVE Frame
      BY <2>2, <1>1 DEF UpdateConfiguration, Free, Goto, service, callers, collectors, readers,
         files, ghosts
    <2>3. ASSUME NEW w \in Worker, UnregisterWorker(c, w) \/ CollectFromStream(c, w) \/
       CollectFromProcess(c, w) PROVE Frame
      BY <2>3, <1>1 DEF UnregisterWorker, CloseStopCh, Free, CollectFromStream, Collect, Fresh,
         CollectFromProcess, Goto, service, callers, collectors, readers, files, ghosts
    <2> QED
      BY <1>1, <2>1, <2>2, <2>3 DEF Call
  <1>2. ASSUME ~Panicked, NEW c \in Caller, Advance(c)
         PROVE  Frame
    <2>1. CASE StartPlain(c) \/ StartLocked(c) \/ InitializeOutputs(c)
      BY <2>1, <1>2 DEF StartPlain, Free, StartLocked, InitializeOutputs, Goto, service, callers,
         collectors, readers, files, ghosts
    <2>2. CASE StopLocked(c) \/ CollectorStopped(c) \/ WorkerUnregistered(c)
      BY <2>2, <1>2 DEF StopLocked, Free, CollectorStopped, Waited, WorkerUnregistered, Return,
         Goto, service, callers, collectors, readers, files, ghosts
    <2>3. CASE CloseOutputs(c)
      BY <2>3
    <2>4. ASSUME NEW w \in Worker, StopCollector(c, w) \/ RegisterLocked(c, w) PROVE Frame
      BY <2>4, <1>2 DEF StopCollector, CloseStopCh, RegisterLocked, Free, Goto, service, callers,
         collectors, readers, files, ghosts
    <2>5. ASSUME NEW s \in Stream, StartReader(c, s) PROVE Frame
      BY <2>5, <1>2 DEF StartReader, Return, Goto, service, callers, collectors, readers, files,
         ghosts
    <2>6. CASE AddPanics(c)
      BY <2>6, <1>2 DEF AddPanics, Goto, service, callers, collectors, readers, files, ghosts
    <2> QED
      BY <1>2, <2>1, <2>2, <2>3, <2>4, <2>5, <2>6 DEF Advance
  <1>3. ASSUME ~Panicked, NEW r \in Stream, Scan(r) \/ StreamEnds(r) \/ Process(r)
         PROVE  Frame
    <2>1. CASE Scan(r) \/ StreamEnds(r) \/ Quits(r)
      BY <2>1, <1>3 DEF Scan, StreamEnds, Done, Quits, Goto, service, callers, collectors,
         readers, files, ghosts
    <2>2. CASE GoesOn(r) \/ ReaderPanics(r)
      BY <2>2, <1>3 DEF GoesOn, ReaderPanics, Torn, Goto, service, callers, collectors, readers,
         files, ghosts
    <2>3. CASE ProcessLine(r)
      BY <2>3
    <2> QED
      BY <1>3, <2>1, <2>2, <2>3 DEF Process
  <1>4. CASE UNCHANGED vars
    BY <1>4 DEF vars, service, callers, collectors, readers, files, ghosts
  <1> QED
    BY <1>1, <1>2, <1>3, <1>4 DEF Next

\* A line that is not lost.
Safe(l) ==
    \/ l \in disk \cup reported
    \/ \E f \in Writer : l \in buffer[f] /\ (f \in broken \/ f \notin shut)

\* A reader that writes does so to outputs that are open, and that nobody replaces.
LEMMA WritesOpen ==
    ASSUME Inv, OrderInv, QuietAfterStop, orderly, ~Panicked, NEW s \in Stream, rd[s] = "write"
    PROVE  ~Starting /\ outputs \notin shut
  <1>1. on[s] \in 1..made
    BY DEF Inv, ReaderInv, MadeInv, TypeOK, TypeReaders, TypeCollectors, Collector
  <1>2. ~Stopped(on[s])
    BY DEF QuietAfterStop
  <1> QED
    BY <1>1, <1>2 DEF OrderInv, OrderParts, DownInv, OpenInv, AllStopped

\* Closing the outputs keeps what they have buffered, or marks the writer broken.
LEMMA CloseKeeps ==
    ASSUME Inv, NEW c \in Caller, CloseOutputs(c), NEW l, Safe(l)
    PROVE  Safe(l)'
  <1>1. reported' = reported
    BY DEF CloseOutputs
  <1>2. CASE outputs = 0
    BY <1>2 DEF CloseOutputs, Safe
  <1>3. ASSUME outputs # 0, NEW flushed \in BOOLEAN, CloseFile(outputs, flushed)
        PROVE  Safe(l)'
    <2>1. outputs \in Writer /\ buffer \in [Writer -> SUBSET Line]
      BY <1>3 DEF Inv, TypeOK, TypeService, TypeFiles
    <2>2. CASE flushed
      BY <1>1, <1>3, <2>1, <2>2 DEF CloseFile, Safe
    <2>3. CASE ~flushed
      BY <1>1, <1>3, <2>1, <2>3 DEF CloseFile, Safe
    <2> QED
      BY <2>2, <2>3
  <1> QED
    BY <1>2, <1>3 DEF CloseOutputs

\* A write keeps what the writers have buffered, and the line, if the writer is not closed.
LEMMA WriteKeeps ==
    ASSUME Inv, NEW f \in Writer, NEW x, WriteToOutputs(f, {x}), UNCHANGED shut
    PROVE  /\ \A l : Safe(l) => Safe(l)'
           /\ f \notin shut => Safe(x)'
  <1>1. f # 0 /\ buffer \in [Writer -> SUBSET Line]
    BY DEF Writer, Inv, TypeOK, TypeFiles
  <1>2. CASE WriteFails(f, {x})
    BY <1>1, <1>2 DEF WriteFails, Safe
  <1>3. CASE WriteBuffered(f, {x})
    <2>1. CASE buffer' = [buffer EXCEPT ![f] = @ \cup {x}] /\ UNCHANGED disk
      BY <1>1, <1>3, <2>1 DEF WriteBuffered, Safe
    <2>2. CASE buffer' = [buffer EXCEPT ![f] = {x}] /\ disk' = disk \cup buffer[f]
      BY <1>1, <1>3, <2>2 DEF WriteBuffered, Safe
    <2> QED
      BY <1>3, <2>1, <2>2 DEF WriteBuffered
  <1>4. CASE FlushFails(f, {x})
    BY <1>1, <1>4 DEF FlushFails, Safe
  <1> QED
    BY <1>1, <1>2, <1>3, <1>4 DEF WriteToOutputs

\* No line is lost without a trace.
LEMMA LossStep ==
    ASSUME Inv, OrderInv, QuietAfterStop, NoSilentLoss, [Next]_vars
    PROVE  NoSilentLoss'
  <1> SUFFICES ASSUME orderly', NEW l \in given' PROVE Safe(l)'
    BY DEF NoSilentLoss, Safe
  <1>1. orderly
    BY OrderlyFrame
  <1>2. l \in given => Safe(l)
    BY <1>1 DEF NoSilentLoss, Safe
  <1>3. CASE UNCHANGED <<shut, buffer, broken, disk, reported, given>>
    BY <1>2, <1>3 DEF Safe
  <1>4. ASSUME NEW c \in Caller, CloseOutputs(c) PROVE Safe(l)'
    BY <1>2, <1>4, CloseKeeps DEF CloseOutputs
  <1>5. ASSUME NEW r \in Stream, ProcessLine(r), ~Panicked PROVE Safe(l)'
    <2>1. ~Starting /\ outputs \notin shut /\ shut' = shut
      BY <1>1, <1>5, WritesOpen DEF ProcessLine
    <2>2. Seen = {outputs}
      BY <2>1 DEF Seen, Starting
    <2>3. /\ WriteToOutputs(outputs, {<<r, n[r]>>})
          /\ given' = IF outputs = 0 /\ ~Starting THEN given ELSE given \cup {<<r, n[r]>>}
      BY <1>5, <2>2 DEF ProcessLine
    <2>4. CASE outputs = 0
      BY <1>2, <2>1, <2>3, <2>4 DEF WriteToOutputs, Safe
    <2>5. CASE outputs # 0
      <3>1. outputs \in Writer
        BY <2>5 DEF Inv, TypeOK, TypeService
      <3> QED
        BY <1>2, <2>1, <2>3, <2>5, <3>1, WriteKeeps
    <2> QED
      BY <2>4, <2>5
  <1>6. CASE UNCHANGED vars
    BY <1>2, <1>6 DEF vars, files, Safe
  <1>7. CASE Next
    <2>1. ~Panicked
      BY <1>7 DEF Next
    <2> QED
      BY <1>3, <1>4, <1>5, <2>1, FilesFrame
  <1> QED
    BY <1>6, <1>7

(***************************************************************************)
(* The theorems about orderly calls.                                       *)
(***************************************************************************)

\* No reader meets outputs that are being replaced.
TornInv == orderly => \A s \in Stream : rd[s] # "panicked"

\* A reader panics only while a Start that others overlap replaces the outputs.
LEMMA TornStep ==
    ASSUME Inv, OrderInv, QuietAfterStop, TornInv, [Next]_vars
    PROVE  TornInv'
  <1> USE DEF TornInv, Inv, TypeOK, TypeReaders
  <1>1. ASSUME ~Panicked, NEW c \in Caller, Call(c)
         PROVE  TornInv'
    <2>1. CASE Start(c) \/ Stop(c) \/ RegisterWorker(c)
      BY <2>1, <1>1 DEF Start, Stop, RegisterWorker, Goto, service, callers, collectors, readers,
         files, ghosts
    <2>2. ASSUME NEW enabled \in BOOLEAN, UpdateConfiguration(c, enabled) PROVE TornInv'
      BY <2>2, <1>1 DEF UpdateConfiguration, Free, Goto, service, callers, collectors, readers,
         files, ghosts
    <2>3. ASSUME NEW w \in Worker, UnregisterWorker(c, w) PROVE TornInv'
      BY <2>3, <1>1 DEF UnregisterWorker, CloseStopCh, Free, Goto, service, callers, collectors,
         readers, files, ghosts
    <2>4. ASSUME NEW w \in Worker, CollectFromStream(c, w) PROVE TornInv'
      <3>1. PICK t \in Stream : Collect(c, w, {t})
        BY <2>4 DEF CollectFromStream
      <3> QED
        BY <3>1 DEF Collect, Goto, readers, ghosts
    <2>5. ASSUME NEW w \in Worker, CollectFromProcess(c, w) PROVE TornInv'
      <3>1. PICK t, u \in Stream : Collect(c, w, {t, u})
        BY <2>5 DEF CollectFromProcess
      <3> QED
        BY <3>1 DEF Collect, Goto, readers, ghosts
    <2> QED
      BY <1>1, <2>1, <2>2, <2>3, <2>4, <2>5 DEF Call
  <1>2. ASSUME ~Panicked, NEW c \in Caller, Advance(c)
         PROVE  TornInv'
    <2>1. CASE StartPlain(c) \/ StartLocked(c) \/ InitializeOutputs(c)
      BY <2>1, <1>2 DEF StartPlain, Free, StartLocked, InitializeOutputs, Goto, service, callers,
         collectors, readers, files, ghosts
    <2>2. CASE StopLocked(c) \/ CollectorStopped(c) \/ CloseOutputs(c)
      BY <2>2, <1>2 DEF StopLocked, Free, CollectorStopped, Waited, CloseOutputs, CloseFile,
         Goto, service, callers, collectors, readers, files, ghosts
    <2>3. CASE WorkerUnregistered(c) \/ AddPanics(c)
      BY <2>3, <1>2 DEF WorkerUnregistered, Return, Waited, AddPanics, Goto, service, callers,
         collectors, readers, files, ghosts
    <2>4. ASSUME NEW w \in Worker, StopCollector(c, w) \/ RegisterLocked(c, w) PROVE TornInv'
      BY <2>4, <1>2 DEF StopCollector, CloseStopCh, RegisterLocked, Free, Goto, service, callers,
         collectors, readers, files, ghosts
    <2>5. ASSUME NEW s \in Stream, StartReader(c, s) PROVE TornInv'
      BY <2>5, <1>2 DEF StartReader, Return, Goto, service, callers, collectors, readers, files,
         ghosts
    <2> QED
      BY <1>2, <2>1, <2>2, <2>3, <2>4, <2>5 DEF Advance
  <1>3. ASSUME ~Panicked, NEW r \in Stream, Scan(r) \/ StreamEnds(r) \/ Process(r)
         PROVE  TornInv'
    <2>1. CASE Scan(r) \/ StreamEnds(r) \/ Quits(r)
      BY <2>1, <1>3 DEF Scan, StreamEnds, Done, Quits, Goto, service, callers, collectors,
         readers, files, ghosts
    <2>2. CASE GoesOn(r) \/ ProcessLine(r)
      BY <2>2, <1>3 DEF GoesOn, ProcessLine, WriteToOutputs, WriteFails, WriteBuffered,
         FlushFails, Seen, Goto, service, callers, collectors, readers, files, ghosts
    <2>3. CASE ReaderPanics(r)
      <3>1. ~orderly
        BY <2>3, <1>3, WritesOpen DEF ReaderPanics, Torn, Starting
      <3> QED
        BY <2>3, <3>1 DEF ReaderPanics, ghosts
    <2> QED
      BY <1>3, <2>1, <2>2, <2>3 DEF Process
  <1>4. CASE UNCHANGED vars
    BY <1>4 DEF vars, service, callers, collectors, readers, files, ghosts
  <1> QED
    BY <1>1, <1>2, <1>3, <1>4 DEF Next

\* A worker with one stream becomes active with its reader, and inactive when the stream ends.
LEMMA ActiveStep ==
    ASSUME Inv, ActiveTellsTruth, [Next]_vars
    PROVE  ActiveTellsTruth'
  <1> USE DEF ActiveTellsTruth, Read, Live, Inv, TypeOK, TypeReaders, TypeCollectors, Collector
  <1>1. ASSUME ~Panicked, NEW c \in Caller, Call(c)
         PROVE  ActiveTellsTruth'
    <2>1. CASE Start(c) \/ Stop(c) \/ RegisterWorker(c)
      BY <2>1, <1>1 DEF Start, Stop, RegisterWorker, Goto, service, callers, collectors, readers,
         files, ghosts
    <2>2. ASSUME NEW enabled \in BOOLEAN, UpdateConfiguration(c, enabled) PROVE ActiveTellsTruth'
      BY <2>2, <1>1 DEF UpdateConfiguration, Free, Goto, service, callers, collectors, readers,
         files, ghosts
    <2>3. ASSUME NEW w \in Worker, UnregisterWorker(c, w) PROVE ActiveTellsTruth'
      BY <2>3, <1>1 DEF UnregisterWorker, CloseStopCh, Free, Goto, service, callers, collectors,
         readers, files, ghosts
    <2>4. ASSUME NEW w \in Worker, CollectFromStream(c, w) PROVE ActiveTellsTruth'
      <3>1. PICK t \in Stream : Collect(c, w, {t})
        BY <2>4 DEF CollectFromStream
      <3> QED
        BY <3>1 DEF Collect, collectors, readers
    <2>5. ASSUME NEW w \in Worker, CollectFromProcess(c, w) PROVE ActiveTellsTruth'
      <3>1. PICK t, u \in Stream : Collect(c, w, {t, u})
        BY <2>5 DEF CollectFromProcess
      <3> QED
        BY <3>1 DEF Collect, collectors, readers
    <2> QED
      BY <1>1, <2>1, <2>2, <2>3, <2>4, <2>5 DEF Call
  <1>2. ASSUME ~Panicked, NEW c \in Caller, Advance(c)
         PROVE  ActiveTellsTruth'
    <2>1. CASE StartPlain(c) \/ StartLocked(c) \/ InitializeOutputs(c)
      BY <2>1, <1>2 DEF StartPlain, Free, StartLocked, InitializeOutputs, Goto, service, callers,
         collectors, readers, files, ghosts
    <2>2. CASE StopLocked(c) \/ CloseOutputs(c) \/ AddPanics(c)
      BY <2>2, <1>2 DEF StopLocked, Free, CloseOutputs, CloseFile, AddPanics, Goto, service,
         callers, collectors, readers, files, ghosts
    <2>3. CASE CollectorStopped(c)
      BY <2>3, <1>2 DEF CollectorStopped, Waited, CurInv, Waits, Goto, service, callers,
         collectors, readers, files, ghosts
    <2>4. CASE WorkerUnregistered(c)
      BY <2>4, <1>2 DEF WorkerUnregistered, Return, Waited, CurInv, Waits, Goto, service,
         callers, collectors, readers, files, ghosts
    <2>5. ASSUME NEW w \in Worker, StopCollector(c, w) \/ RegisterLocked(c, w) PROVE
       ActiveTellsTruth'
      BY <2>5, <1>2 DEF StopCollector, CloseStopCh, RegisterLocked, Free, Goto, service, callers,
         collectors, readers, files, ghosts
    <2>6. ASSUME NEW s \in Stream, StartReader(c, s) PROVE ActiveTellsTruth'
      <3>1. rd[s] = "none" /\ on[s] = 0 /\ cur[c] # 0
        BY <2>6 DEF StartReader, TodoInv, ReaderInv, CurInv
      <3>2. on' = [on EXCEPT ![s] = cur[c]] /\ rd' = [rd EXCEPT ![s] = "scan"] /\ active' = active \cup {cur[c]} /\ stopCh' = stopCh
        BY <2>6 DEF StartReader
      <3>3. SUFFICES ASSUME NEW k \in Collector \ stopCh,
                          \A t, u \in Stream : on'[t] = k /\ on'[u] = k => t = u
                      PROVE  k \in active' <=> \E t \in Stream : Live(t)' /\ on'[t] = k
        BY <3>2
      <3>4. CASE k = cur[c]
        BY <3>1, <3>2, <3>4
      <3>5. CASE k # cur[c]
        <4>1. \A t \in Stream : (on'[t] = k <=> on[t] = k) /\ (on[t] = k => rd'[t] = rd[t])
          BY <3>1, <3>2, <3>5
        <4> QED
          BY <3>2, <3>3, <3>5, <4>1
      <3> QED
        BY <3>4, <3>5
    <2> QED
      BY <1>2, <2>1, <2>2, <2>3, <2>4, <2>5, <2>6 DEF Advance
  <1>3. ASSUME ~Panicked, NEW r \in Stream, Scan(r) \/ StreamEnds(r) \/ Process(r)
         PROVE  ActiveTellsTruth'
    <2>1. CASE Scan(r) \/ StreamEnds(r) \/ Quits(r)
      BY <2>1, <1>3 DEF Scan, StreamEnds, Done, Quits, Goto, service, callers, collectors,
         readers, files, ghosts
    <2>2. CASE GoesOn(r) \/ ProcessLine(r) \/ ReaderPanics(r)
      BY <2>2, <1>3 DEF GoesOn, ProcessLine, WriteToOutputs, WriteFails, WriteBuffered,
         FlushFails, Seen, ReaderPanics, Torn, Goto, service, callers, collectors, readers,
         files, ghosts
    <2> QED
      BY <1>3, <2>1, <2>2 DEF Process
  <1>4. CASE UNCHANGED vars
    BY <1>4 DEF vars, service, callers, collectors, readers, files, ghosts
  <1> QED
    BY <1>1, <1>2, <1>3, <1>4 DEF Next

\* A worker is active only while one of its streams is read.
THEOREM ActiveInvariant == Spec => []ActiveTellsTruth
  <1>1. Init => ActiveTellsTruth
    BY DEF Init, ActiveTellsTruth, Read, Live, Collector
  <1> QED
    BY InvInvariant, <1>1, ActiveStep, PTL DEF Spec

\* All that is inductive about the service.
AllInv ==
    Inv /\ WokenQuiet /\ QuietAfterStop /\ SweptInv /\ RegisteredInv /\ OrderInv /\ NoSilentLoss
    /\ TornInv

\* All of it holds in every state.
THEOREM AllInvariant == Spec => []AllInv
  <1>1. Init => AllInv
    <2> SUFFICES ASSUME Init PROVE AllInv
      OBVIOUS
    <2>1. Inv /\ WokenQuiet /\ QuietAfterStop
      BY InvInit DEF Init, WokenQuiet, QuietAfterStop
    <2>2. SweptInv /\ TornInv /\ NoSilentLoss
      BY DEF Init, SweptInv, TornInv, NoSilentLoss
    <2>3. 1..made = {}
      BY DEF Init
    <2>4. RegisteredInv /\ OneBusy /\ FlagInv /\ DownInv /\ SweepInv /\ OpenInv
      BY <2>3 DEF Init, RegisteredInv, OneBusy, FlagInv, DownInv, SweepInv, OpenInv, AllStopped,
         Busy, Sweeps, Starting, Stopping
    <2> QED
      BY <2>1, <2>2, <2>4 DEF AllInv, OrderInv, OrderParts
  <1>2. AllInv /\ [Next]_vars => AllInv'
    BY InvStep, WokenStep, QuietStep, SweptStep, RegisteredStep, OrderStep, LossStep, TornStep
       DEF AllInv
  <1> QED
    BY <1>1, <1>2, PTL DEF Spec

\* In orderly use no line that a reader handed over is lost without a trace.
THEOREM Lossless == Spec => []NoSilentLoss
  <1>1. AllInv => NoSilentLoss
    BY DEF AllInv
  <1> QED
    BY AllInvariant, <1>1, PTL

\* A stop channel is closed twice only after a Stop of the service; in orderly use no reader
\* meets outputs that are being replaced.
THEOREM Panics == Spec => []PanicsExplained
  <1>1. AllInv => PanicsExplained
    BY DEF AllInv, SweptInv, TornInv, PanicsExplained
  <1> QED
    BY AllInvariant, <1>1, PTL

=============================================================================
