------------------------ MODULE CollectorRegistryProofs ------------------------
(***************************************************************************)
(* LogCollection implements CollectorRegistry, for every set of callers,   *)
(* workers and streams and every bound.  Most steps change nothing that    *)
(* the registry knows of; each of the others is one of its actions.  Inv   *)
(* of LogCollectionProofs says that the lock makes a stop the only one     *)
(* that waits, and QuietAfterStop that nothing is handed over after it.    *)
(***************************************************************************)
EXTENDS LogCollectionProofs

StoppedSet == {k \in Collector : Stopped(k)}

\* What the registry sees of the service.
View == <<workers, 1..made, stopCh, StoppedSet, on, {s \in Stream : rd[s] = "write"}>>

\* Who waits for a stop, and for which one, decides what is stopped.
LEMMA StoppedFrame ==
    ASSUME stopCh' = stopCh,
           \A c \in Caller : /\ pc'[c] \in Waits <=> pc[c] \in Waits
                             /\ pc[c] \in Waits => cur'[c] = cur[c]
    PROVE  StoppedSet' = StoppedSet
  BY DEF StoppedSet, Stopped, Waits

\* The steps the registry does not see.
LEMMA UnseenCall ==
    ASSUME Inv, NEW c \in Caller, Call(c)
    PROVE  \/ View' = View
           \/ \E w \in Worker : UnregisterWorker(c, w)
  <1> USE DEF Inv, TypeOK, TypeCallers, Waits
  <1>1. CASE Start(c) \/ Stop(c) \/ RegisterWorker(c)
    BY <1>1, StoppedFrame DEF Start, Stop, RegisterWorker, Goto, View, service, callers,
       collectors, readers
  <1>2. ASSUME NEW enabled \in BOOLEAN, UpdateConfiguration(c, enabled) PROVE View' = View
    BY <1>2, StoppedFrame DEF UpdateConfiguration, View, callers, collectors, readers
  <1>3. ASSUME NEW w \in Worker, CollectFromStream(c, w) PROVE View' = View
    <2>1. PICK t \in Stream : Collect(c, w, {t})
      BY <1>3 DEF CollectFromStream
    <2> QED
      BY <2>1, StoppedFrame DEF Collect, Goto, View, service, collectors, readers
  <1>4. ASSUME NEW w \in Worker, CollectFromProcess(c, w) PROVE View' = View
    <2>1. PICK t, u \in Stream : Collect(c, w, {t, u})
      BY <1>4 DEF CollectFromProcess
    <2> QED
      BY <2>1, StoppedFrame DEF Collect, Goto, View, service, collectors, readers
  <1> QED
    BY <1>1, <1>2, <1>3, <1>4 DEF Call

LEMMA UnseenAdvance ==
    ASSUME Inv, NEW c \in Caller, Advance(c)
    PROVE  \/ View' = View
           \/ CollectorStopped(c) \/ WorkerUnregistered(c)
           \/ \E w \in Worker : StopCollector(c, w) \/ RegisterLocked(c, w)
           \/ \E s \in Stream : StartReader(c, s)
  <1> USE DEF Inv, TypeOK, TypeCallers, Waits
  <1>1. CASE StartPlain(c) \/ StartLocked(c) \/ InitializeOutputs(c)
    BY <1>1, StoppedFrame DEF StartPlain, StartLocked, InitializeOutputs, Goto, View, service,
       collectors, readers
  <1>2. CASE StopLocked(c) \/ CloseOutputs(c) \/ AddPanics(c)
    BY <1>2, StoppedFrame DEF StopLocked, CloseOutputs, AddPanics, Goto, View, service,
       collectors, readers
  <1> QED
    BY <1>1, <1>2 DEF Advance

LEMMA UnseenRead ==
    ASSUME Inv, NEW s \in Stream, Scan(s) \/ StreamEnds(s) \/ Process(s)
    PROVE  View' = View \/ GoesOn(s) \/ ProcessLine(s) \/ ReaderPanics(s)
  <1> USE DEF Inv, TypeOK, TypeCallers, TypeReaders, Waits
  <1>1. CASE Scan(s)
    BY <1>1, StoppedFrame DEF Scan, View, service, callers, collectors
  <1>2. CASE StreamEnds(s) \/ Quits(s)
    <2>1. UNCHANGED <<service, cur, stopCh, made, on>> /\ Done(s) /\ rd[s] # "write"
      BY <1>2 DEF StreamEnds, Quits, collectors
    <2>2. \A c \in Caller : pc'[c] \in Waits <=> pc[c] \in Waits
      BY <2>1 DEF Done, Goto
    <2>3. rd' = [rd EXCEPT ![s] = "done"]
      BY <2>1 DEF Done
    <2> QED
      BY <2>1, <2>2, <2>3, StoppedFrame DEF View, service
  <1> QED
    BY <1>1, <1>2 DEF Process

(***************************************************************************)
(* The steps it sees.                                                      *)
(***************************************************************************)
\* A collector is made for a worker that has none.
LEMMA SeesRegister ==
    ASSUME Inv, NEW c \in Caller, NEW w \in Worker, RegisterLocked(c, w), View' # View
    PROVE  \E k \in Collector : Registry!Register(w, k)
  <1> USE DEF Inv, TypeOK, TypeCallers, TypeCollectors, TypeService, Waits
  <1>1. stopCh' = stopCh /\ UNCHANGED <<cur, readers>> /\ Goto(c, "idle") /\ pc[c] = "register"
    BY DEF RegisterLocked, collectors
  <1>2. StoppedSet' = StoppedSet
    BY <1>1, StoppedFrame DEF Goto
  <1>3. workers[w] = 0
    BY <1>1, <1>2 DEF RegisterLocked, View, collectors, readers
  <1>4. made' = made + 1 /\ made < MaxCollector /\ workers' = [workers EXCEPT ![w] = made + 1]
    BY <1>3 DEF RegisterLocked
  <1>5. made + 1 \in Collector /\ made + 1 \notin 1..made /\ 1..made' = (1..made) \cup {made + 1}
    BY <1>4, Bounds DEF Collector
  <1> QED
    BY <1>1, <1>2, <1>3, <1>4, <1>5 DEF StoppedSet, Registry!Register, readers

\* A stop channel is closed for the first time, or the program panics.
LEMMA SeesClose ==
    ASSUME Inv, NEW c \in Caller, NEW w \in Worker, NEW place \in {"sweepwait", "unregisterwait"},
           pc[c] \notin Waits, CloseStopCh(c, workers[w], place), workers[w] # 0,
           UNCHANGED <<workers, made, readers>>
    PROVE  View' = View \/ Registry!Close(w)
  <1> USE DEF Inv, TypeOK, TypeCallers, TypeCollectors, TypeService
  <1>1. workers[w] \in 1..made
    BY DEF MadeInv, Collector
  <1>2. CASE workers[w] \in stopCh
    <2>1. stopCh' = stopCh /\ Goto(c, "closepanic")
      BY <1>2 DEF CloseStopCh
    <2>2. StoppedSet' = StoppedSet
      BY <2>1, StoppedFrame DEF Goto, CloseStopCh, Waits
    <2> QED
      BY <2>1, <2>2 DEF View, readers
  <1>3. CASE workers[w] \notin stopCh
    <2>1. stopCh' = stopCh \cup {workers[w]} /\ Goto(c, place) /\ cur'[c] = workers[w]
      BY <1>3 DEF CloseStopCh
    <2>2. pc'[c] = place /\ \A d \in Caller : d # c => pc'[d] = pc[d] /\ cur'[d] = cur[d]
      BY <2>1 DEF Goto, CloseStopCh
    <2>3. \A k \in Collector : Stopped(k)' <=> Stopped(k)
      <3> SUFFICES ASSUME NEW k \in Collector PROVE Stopped(k)' <=> Stopped(k)
        OBVIOUS
      <3>1. CASE k = workers[w]
        BY <1>3, <2>1, <2>2, <3>1 DEF Stopped
      <3>2. CASE k # workers[w]
        BY <2>1, <2>2, <3>2 DEF Stopped, Waits
      <3> QED
        BY <3>1, <3>2
    <2> QED
      BY <1>1, <1>3, <2>1, <2>3 DEF Registry!Close, StoppedSet, readers
  <1> QED
    BY <1>2, <1>3

\* The only stop that waits returns, and nobody hands over a line of its collector.
LEMMA SeesReturn ==
    ASSUME Inv, QuietAfterStop', NEW c \in Caller, NEW place \in {"sweep", "idle"},
           pc[c] \in Waits, Goto(c, place), cur' = [cur EXCEPT ![c] = 0],
           workers' \in {workers, Registry!Forget(cur[c])}, UNCHANGED <<made, stopCh, readers>>
    PROVE  Registry!StopReturns(cur[c])
  <1> USE DEF Inv, TypeOK, TypeCallers, TypeReaders, TypeCollectors
  <1>1. cur[c] \in stopCh /\ cur[c] \in Collector
    BY DEF CurInv
  <1>2. \A d \in Caller : pc[d] \in Waits => d = c
    BY DEF LockInv
  <1>3. pc'[c] = place /\ \A d \in Caller : d # c => pc'[d] = pc[d]
    BY DEF Goto
  <1>4. \A k \in Collector : Stopped(k)' <=> Stopped(k) \/ k = cur[c]
    BY <1>1, <1>2, <1>3 DEF Stopped, Waits
  <1>5. StoppedSet' = StoppedSet \cup {cur[c]} /\ cur[c] \notin StoppedSet
    BY <1>1, <1>4 DEF StoppedSet, Stopped, Waits
  <1>6. \A s \in Stream : on[s] = cur[c] => rd[s] # "write"
    BY <1>1, <1>4 DEF QuietAfterStop, readers
  <1> QED
    BY <1>1, <1>5, <1>6 DEF StoppedSet, Registry!StopReturns, Registry!Quiet, readers

\* A stream gets its reader.
LEMMA SeesAttach ==
    ASSUME Inv, NEW c \in Caller, NEW s \in Stream, StartReader(c, s)
    PROVE  \E k \in Collector : Registry!Attach(s, k)
  <1> USE DEF Inv, TypeOK, TypeCallers, TypeReaders, TypeCollectors
  <1>1. rd[s] = "none" /\ on[s] = 0 /\ cur[c] \in 1..made
    BY DEF StartReader, TodoInv, ReaderInv, CurInv, MadeInv, Collector
  <1>2. /\ pc[c] = "collect" /\ \A d \in Caller : d # c => pc'[d] = pc[d] /\ cur'[d] = cur[d]
        /\ pc'[c] \in {"collect", "idle"}
        /\ rd' = [rd EXCEPT ![s] = "scan"] /\ on' = [on EXCEPT ![s] = cur[c]]
        /\ UNCHANGED <<workers, made, stopCh>>
    BY DEF StartReader, Return, Goto, service
  <1>3. StoppedSet' = StoppedSet
    BY <1>2, StoppedFrame DEF Waits
  <1>4. cur[c] \in Collector
    BY <1>1 DEF Collector
  <1> QED
    BY <1>1, <1>2, <1>3, <1>4 DEF StoppedSet, Registry!Attach

\* A reader takes up a line and hands it over, unless it panics.
LEMMA SeesRead ==
    ASSUME Inv, NEW s \in Stream, GoesOn(s) \/ ProcessLine(s) \/ ReaderPanics(s)
    PROVE  Registry!TakeUp(s) \/ Registry!HandedOver(s)
  <1> USE DEF Inv, TypeOK, TypeReaders, TypeCollectors
  <1>1. UNCHANGED <<workers, made, stopCh, on, pc, cur>>
    BY DEF GoesOn, ProcessLine, ReaderPanics, service, callers, collectors
  <1>2. StoppedSet' = StoppedSet
    BY <1>1, StoppedFrame
  <1>3. CASE GoesOn(s)
    <2>1. on[s] \in 1..made
      BY <1>3 DEF GoesOn, ReaderInv, MadeInv, Collector
    <2> QED
      BY <1>1, <1>2, <1>3, <2>1 DEF GoesOn, StoppedSet, Registry!TakeUp
  <1>4. CASE ProcessLine(s) \/ ReaderPanics(s)
    BY <1>1, <1>2, <1>4 DEF ProcessLine, ReaderPanics, StoppedSet, Registry!HandedOver
  <1> QED
    BY <1>3, <1>4

\* A step is one the registry allows, or one it does not see.
LEMMA RegistryStep ==
    ASSUME Inv, QuietAfterStop', [Next]_vars
    PROVE  Registry!Next \/ UNCHANGED Registry!vars
  <1>1. View' = View => UNCHANGED Registry!vars
    BY DEF View, StoppedSet, Registry!vars
  <1>2. ASSUME NEW c \in Caller, NEW w \in Worker, UnregisterWorker(c, w)
        PROVE  View' = View \/ Registry!Close(w)
    BY <1>2, SeesClose DEF UnregisterWorker, Waits
  <1>3. ASSUME NEW c \in Caller, NEW w \in Worker, StopCollector(c, w)
        PROVE  View' = View \/ Registry!Close(w)
    BY <1>3, SeesClose DEF StopCollector, Waits, Inv, LeftInv
  <1>4. ASSUME NEW c \in Caller, CollectorStopped(c)
        PROVE  Registry!StopReturns(cur[c])
    BY <1>4, SeesReturn DEF CollectorStopped, Waited, Waits, service
  <1>5. ASSUME NEW c \in Caller, WorkerUnregistered(c)
        PROVE  Registry!StopReturns(cur[c])
    BY <1>5, SeesReturn DEF WorkerUnregistered, Waited, Waits, Return, Registry!Forget
  <1>6. ASSUME NEW c \in Caller, Call(c)
        PROVE  View' = View \/ Registry!Next
    BY <1>2, <1>6, UnseenCall DEF Registry!Next
  <1>7. ASSUME NEW c \in Caller, Advance(c)
        PROVE  View' = View \/ Registry!Next
    <2>1. ASSUME NEW w \in Worker, RegisterLocked(c, w)
          PROVE  View' = View \/ Registry!Next
      BY <2>1, SeesRegister DEF Registry!Next
    <2>2. ASSUME NEW s \in Stream, StartReader(c, s)
          PROVE  Registry!Next
      BY <2>2, SeesAttach DEF Registry!Next
    <2>3. CASE CollectorStopped(c) \/ WorkerUnregistered(c)
      <3>1. cur[c] \in Collector
        BY <2>3 DEF CollectorStopped, WorkerUnregistered, Waited, Waits, Inv, CurInv, TypeOK,
           TypeCollectors
      <3> QED
        BY <1>4, <1>5, <2>3, <3>1 DEF Registry!Next
    <2> QED
      BY <1>3, <1>7, <2>1, <2>2, <2>3, UnseenAdvance DEF Registry!Next
  <1>8. ASSUME NEW s \in Stream, Scan(s) \/ StreamEnds(s) \/ Process(s)
        PROVE  View' = View \/ Registry!Next
    BY <1>8, UnseenRead, SeesRead DEF Registry!Next
  <1>9. UNCHANGED vars => View' = View
    BY StoppedFrame DEF vars, View, service, callers, collectors, readers
  <1> QED
    BY <1>1, <1>6, <1>7, <1>8, <1>9 DEF Next

\* The service is a registry of collectors: it implements CollectorRegistry.
THEOREM RegistryImplemented == Spec => ImplementsRegistry
  <1>1. Init => Registry!Init
    <2> SUFFICES ASSUME Init PROVE Registry!Init
      OBVIOUS
    <2>1. 1..made = {} /\ \A k \in Collector : ~Stopped(k)
      BY DEF Init, Stopped
    <2> QED
      BY <2>1 DEF Init, Registry!Init
  <1>2. AllInv /\ AllInv' /\ [Next]_vars => [Registry!Next]_(Registry!vars)
    BY RegistryStep DEF AllInv
  <1> QED
    BY <1>1, <1>2, AllInvariant, PTL DEF Spec, ImplementsRegistry, Registry!Spec
=============================================================================
