--------------------------- MODULE BusScan_proofs ---------------------------
(***************************************************************************)
(* Theorems about BusScan, for any ports, clients, scan types and bounds.  *)
(***************************************************************************)
EXTENDS BusScan, TLAPS, FiniteSetTheorems, SequenceTheorems

-----------------------------------------------------------------------------
(* The state manager keeps its type whatever it is told.                   *)

\* Replacing the last object by another set of items leaves a list of objects.
LEMMA LastObjectReplaced ==
    ASSUME NEW objects \in Objects, NEW new \in SUBSET Items
    PROVE  /\ Len(objects) \in Nat \ {0}
           /\ objects[Len(objects)] \in SUBSET Items
           /\ [objects EXCEPT ![Len(objects)] = new] \in Objects
  BY DEF Objects

\* Whatever was made or not, what stands behind a reference is a set of items.
LEMMA DerefType ==
    ASSUME NEW objects \in Objects, NEW ref
    PROVE  Deref(objects, ref) \in SUBSET Items
  BY DEF Objects, Deref

LEMMA PutType ==
    ASSUME NEW m \in Managers, NEW event \in Events
    PROVE  Put(m, event) \in Managers
<1>1. Append(m.queue, event) \in Seq(Events)
  BY DEF Managers
<1>. QED
  BY <1>1 DEF Put, Managers

\* The percentage of a count of items is a natural number.
LEMMA PercentType ==
    ASSUME NEW done \in Nat, NEW total \in Nat \ {0}
    PROVE  Percent(done, total) \in Nat
  BY DEF Percent

LEMMA AddScanningPortType ==
    ASSUME NEW m \in Managers, NEW item \in Items, NEW ext \in BOOLEAN
    PROVE  AddScanningPort(m, item, ext) \in Managers
<1> DEFINE ref == Len(m.ports_now_scanning)
           now == [m.ports_now_scanning EXCEPT ![ref] = @ \cup {item}]
           event == [scanning_ports |-> ref, is_ext_scan |-> ext]
<1>1. m.ports_now_scanning \in Objects
  BY DEF Managers
<1>2. ref \in Nat /\ now \in Objects
  BY <1>1, LastObjectReplaced
<1>3. [m EXCEPT !.ports_now_scanning = now] \in Managers
  BY <1>2 DEF Managers
<1>4. event \in Events
  BY <1>2 DEF Events
<1>5. AddScanningPort(m, item, ext) = Put([m EXCEPT !.ports_now_scanning = now], event)
  BY DEF AddScanningPort, Managers
<1>. QED
  BY <1>3, <1>4, <1>5, PutType

LEMMA ProgressType ==
    ASSUME NEW m \in Managers
    PROVE  NextItem(m) \in Nat /\ Progress(m) \in Nat
<1>1. m.current_item \in Nat /\ m.total_items \in Nat
  BY DEF Managers
<1>2. NextItem(m) \in Nat
  BY <1>1 DEF NextItem
<1>3. m.total_items # 0 => Percent(NextItem(m), m.total_items) \in Nat
  BY <1>1, <1>2, PercentType
<1>. QED
  BY <1>1, <1>2, <1>3 DEF Progress

LEMMA RemoveScanningPortType ==
    ASSUME NEW m \in Managers, NEW item \in Items
    PROVE  RemoveScanningPort(m, item) \in Managers
<1> DEFINE ref == Len(m.ports_now_scanning)
           now == [m.ports_now_scanning EXCEPT ![ref] = @ \ {item}]
           event == [scanning_ports |-> ref, progress |-> Progress(m)]
           n == [m EXCEPT !.ports_now_scanning = now, !.current_item = NextItem(m)]
<1>1. m.ports_now_scanning \in Objects
  BY DEF Managers
<1>2. ref \in Nat /\ now \in Objects
  BY <1>1, LastObjectReplaced
<1>3. NextItem(m) \in Nat /\ Progress(m) \in Nat
  BY ProgressType
<1>4. n \in Managers
  BY <1>2, <1>3 DEF Managers
<1>5. event \in Events
  BY <1>2, <1>3 DEF Events
<1>6. RemoveScanningPort(m, item) = Put(n, event)
  BY DEF RemoveScanningPort, Managers
<1>. QED
  BY <1>4, <1>5, <1>6, PutType

LEMMA AddErrorPortType ==
    ASSUME NEW m \in Managers, NEW item \in Items
    PROVE  AddErrorPort(m, item) \in Managers
<1> DEFINE ref == Len(m.ports_errored)
           now == [m.ports_errored EXCEPT ![ref] = @ \cup {item}]
           event == [error |-> FailedScanError(ref)]
<1>1. m.ports_errored \in Objects
  BY DEF Managers
<1>2. ref \in Nat /\ now \in Objects
  BY <1>1, LastObjectReplaced
<1>3. [m EXCEPT !.ports_errored = now] \in Managers
  BY <1>2 DEF Managers
<1>4. event \in Events
  BY <1>2 DEF Events, FailedScanError, Errors, ErrorIds
<1>5. AddErrorPort(m, item) = Put([m EXCEPT !.ports_errored = now], event)
  BY DEF AddErrorPort, Managers
<1>. QED
  BY <1>3, <1>4, <1>5, PutType

LEMMA FoundDeviceType ==
    ASSUME NEW m \in Managers, NEW sn \in Sns
    PROVE  FoundDevice(m, sn) \in Managers
<1>1. Append(m.found_devices, sn) \in Seq(Sns)
  BY DEF Managers
<1>2. [m EXCEPT !.found_devices = Append(m.found_devices, sn)] \in Managers
  BY <1>1 DEF Managers
<1>3. [device |-> sn] \in Events
  BY DEF Events
<1>. QED
  BY <1>2, <1>3, PutType DEF FoundDevice

LEMMA FoundDevicesType ==
    ASSUME NEW m \in Managers, NEW devs \in Seq(Serials)
    PROVE  FoundDevices(m, devs) \in Managers
<1> DEFINE events == [i \in 1 .. Len(devs) |-> [device |-> devs[i]]]
<1>1. devs \in Seq(Sns) /\ m.found_devices \in Seq(Sns) /\ m.queue \in Seq(Events)
  BY DEF Managers, Sns
<1>2. m.found_devices \o devs \in Seq(Sns)
  BY <1>1
<1>3. \A i \in 1 .. Len(devs) : [device |-> devs[i]] \in Events
  BY <1>1 DEF Events
<1>4. events \in Seq(Events)
  BY <1>1, <1>3
<1>5. m.queue \o events \in Seq(Events)
  BY <1>1, <1>4
<1>6. FoundDevices(m, devs) = [m EXCEPT !.found_devices = m.found_devices \o devs,
                                        !.queue = m.queue \o events]
  BY DEF FoundDevices
<1>. QED
  BY <1>2, <1>5, <1>6 DEF Managers

LEMMA ScanFinishedType ==
    ASSUME NEW m \in Managers, NEW error \in Errors
    PROVE  ScanFinished(m, error) \in Managers
<1>1. FinishedEvent(error) \in Events
  BY DEF Events, FinishedEvent
<1>. QED
  BY <1>1, PutType DEF ScanFinished

LEMMA ScanCompleteType ==
    ASSUME NEW m \in Managers
    PROVE  ScanComplete(m) \in Managers
<1>1. CompleteEvent \in Events
  BY DEF Events, CompleteEvent
<1>2. IdleEvent \in Events
  BY DEF Events, IdleEvent
<1>. QED
  BY <1>1, <1>2, PutType DEF ScanComplete

LEMMA ErrorsType ==
    NoError \in Errors /\ GenericError \in Errors /\ RpcTimeoutError \in Errors
  BY DEF NoError, GenericError, RpcTimeoutError, Errors, ErrorIds

LEMMA ResetType ==
    ASSUME NEW m \in Managers, NEW preserve \in BOOLEAN
    PROVE  Reset(m, preserve) \in Managers
<1>1. StartEvent(preserve) \in Events
  BY ErrorsType DEF Events, StartEvent
<1>2. Put(m, StartEvent(preserve)) \in Managers
  BY <1>1, PutType
<1>3. \A objects \in Objects : Append(objects, {}) \in Objects
  BY DEF Objects
<1>4. \A n \in Managers :
        [n EXCEPT !.found_devices = IF preserve THEN @ ELSE <<>>,
                  !.ports_now_scanning = Append(@, {}),
                  !.ports_errored = Append(@, {})] \in Managers
  <2>. TAKE n \in Managers
  <2>1. Append(n.ports_now_scanning, {}) \in Objects /\ Append(n.ports_errored, {}) \in Objects
    BY <1>3 DEF Managers
  <2>2. (IF preserve THEN n.found_devices ELSE <<>>) \in Seq(Sns)
    BY DEF Managers
  <2>. QED
    BY <2>1, <2>2 DEF Managers
<1>. QED
  BY <1>2, <1>4 DEF Reset

LEMMA SetScanItemsCountType ==
    ASSUME NEW m \in Managers, NEW count \in Nat
    PROVE  SetScanItemsCount(m, count) \in Managers
  BY DEF SetScanItemsCount, Managers
-----------------------------------------------------------------------------
(* The step of a port task leaves a manager and a task in its work.        *)

GoodTask(t, p) == t \in Tasks /\ TaskInRange(t, p)
GoodStep(step, p) == step.mgr \in Managers /\ GoodTask(step.task, p)

LEMMA NewTaskGood ==
    ASSUME NEW kind \in Kinds, NEW ooo \in OooCounts \cup {0}, NEW p \in Ports
    PROVE  GoodTask(NewTask(kind, ooo), p)
  BY DEF NewTask, GoodTask, Tasks, TaskInRange, Stages

LEMMA DoneTaskGood ==
    ASSUME NEW p \in Ports
    PROVE  GoodTask(DoneTask, p) /\ DoneTask.pc = "done"
<1>1. "fast" \in Kinds
  BY DEF Kinds
<1>2. GoodTask(NewTask("fast", 0), p)
  BY <1>1, NewTaskGood
<1>. QED
  BY <1>2 DEF DoneTask, GoodTask, Tasks, TaskInRange

\* The bounds of a unit, and the item it is shown as
LEMMA UnitFacts ==
    ASSUME NEW t \in Tasks, NEW p \in Ports, t.unit \in 1 .. Units(t, p)
    PROVE  /\ Item(t, p) \in Items
           /\ FirstTurn(t, p) \in Nat
           /\ FirstTurn(t, p) \in 1 .. LastTurn(t, p)
           /\ LastTurn(t, p) \in 1 .. NumIds
<1>1. /\ t.unit \in Nat \ {0}
      /\ t.kind \in Kinds
      /\ t.ooo \in Nat /\ t.ooo < NumIds
  <2>1. t.unit \in Nat /\ t.kind \in Kinds /\ t.ooo \in OooCounts \cup {0}
    BY DEF Tasks
  <2>2. \A n \in OooCounts \cup {0} : n \in Nat /\ n < NumIds
    BY StateConstants, TaskConstants
  <2>3. Units(t, p) \in Nat
    BY StateConstants, TaskConstants DEF Units
  <2>. QED
    BY <2>1, <2>2, <2>3
<1>2. UartConfigs \in Nat \ {0} /\ NumIds \in Nat \ {0} /\ FastConfigs \in 1 .. UartConfigs
  BY StateConstants, TaskConstants
<1>3. p \notin TcpPorts => t.unit <= 2 * UartConfigs
  BY <1>1, <1>2 DEF Units
<1>4. (IF p \in TcpPorts THEN 0 ELSE IF t.unit > UartConfigs THEN t.unit - UartConfigs
       ELSE t.unit) \in 0 .. UartConfigs
  BY <1>1, <1>2, <1>3
<1>5. Item(t, p) \in Items
  BY <1>4 DEF Item, Items
<1>6. LastTurn(t, p) \in 1 .. NumIds
  BY <1>1, <1>2 DEF LastTurn, TwoPasses
<1>7. FirstTurn(t, p) \in Nat /\ FirstTurn(t, p) \in 1 .. LastTurn(t, p)
  BY <1>1, <1>2 DEF FirstTurn, LastTurn, TwoPasses
<1>. QED
  BY <1>5, <1>6, <1>7

LEMMA AsksGood ==
    ASSUME NEW t \in Tasks, NEW p \in Ports, t.unit \in 1 .. Units(t, p),
           NEW turn \in Nat, t.kind = "fast" \/ turn \in 1 .. LastTurn(t, p),
           NEW stage \in Stages
    PROVE  GoodTask(Asks(t, turn, stage), p)
<1> DEFINE u == Asks(t, turn, stage)
<1>1. u \in Tasks
  BY DEF Asks, Tasks
<1>2. u.unit = t.unit /\ u.turn = turn /\ u.kind = t.kind /\ u.ooo = t.ooo
  BY DEF Asks, Tasks
<1>3. Units(u, p) = Units(t, p) /\ LastTurn(u, p) = LastTurn(t, p)
  BY <1>2 DEF Units, LastTurn, TwoPasses
<1>. QED
  BY <1>1, <1>2, <1>3 DEF GoodTask, TaskInRange

LEMMA FirstStageType ==
    ASSUME NEW kind \in Kinds
    PROVE  FirstStage(kind) \in Stages
  BY DEF FirstStage, Kinds, Stages

LEMMA BeginUnitGood ==
    ASSUME NEW m \in Managers, NEW t \in Tasks, NEW p \in Ports,
           NEW unit \in 1 .. Units(t, p)
    PROVE  GoodStep(BeginUnit(m, t, p, unit), p)
<1> DEFINE u == [t EXCEPT !.unit = unit]
<1>0. Units(t, p) \in Nat
  BY StateConstants, TaskConstants DEF Units
<1>1. u \in Tasks /\ u.unit = unit /\ u.kind = t.kind /\ u.ooo = t.ooo
  BY <1>0 DEF Tasks
<1>2. Units(u, p) = Units(t, p)
  BY <1>1 DEF Units
<1>3. u.unit \in 1 .. Units(u, p)
  BY <1>1, <1>2
<1>4. /\ Item(u, p) \in Items
      /\ FirstTurn(u, p) \in Nat
      /\ FirstTurn(u, p) \in 1 .. LastTurn(u, p)
  BY <1>1, <1>3, UnitFacts
<1>5. FirstStage(t.kind) \in Stages
  BY FirstStageType DEF Tasks
<1>6. GoodTask(Asks(u, FirstTurn(u, p), FirstStage(t.kind)), p)
  BY <1>1, <1>3, <1>4, <1>5, AsksGood
<1>7. AddScanningPort(m, Item(u, p), t.kind = "fast") \in Managers
  BY <1>4, AddScanningPortType
<1>. QED
  BY <1>6, <1>7 DEF BeginUnit, GoodStep

LEMMA EndUnitGood ==
    ASSUME NEW m \in Managers, NEW t \in Tasks, NEW p \in Ports, t.unit \in 1 .. Units(t, p)
    PROVE  GoodStep(EndUnit(m, t, p), p)
<1> DEFINE left == RemoveScanningPort(m, Item(t, p))
<1>1. left \in Managers
  BY UnitFacts, RemoveScanningPortType
<1>2. Units(t, p) \in Nat
  BY StateConstants, TaskConstants DEF Units
<1>3. CASE t.unit < Units(t, p)
  <2>1. t.unit + 1 \in 1 .. Units(t, p)
    BY <1>2, <1>3
  <2>2. GoodStep(BeginUnit(left, t, p, t.unit + 1), p)
    BY <1>1, <2>1, BeginUnitGood
  <2>. QED
    BY <1>3, <2>2 DEF EndUnit
<1>4. CASE ~(t.unit < Units(t, p))
  BY <1>1, <1>4, DoneTaskGood DEF EndUnit, GoodStep
<1>. QED
  BY <1>3, <1>4

LEMMA NextTurnGood ==
    ASSUME NEW m \in Managers, NEW t \in Tasks, NEW p \in Ports, t.unit \in 1 .. Units(t, p)
    PROVE  GoodStep(NextTurn(m, t, p), p)
<1>1. LastTurn(t, p) \in 1 .. NumIds /\ t.turn \in Nat /\ NumIds \in Nat
  BY UnitFacts, StateConstants DEF Tasks
<1>2. CASE t.turn < LastTurn(t, p)
  <2>1. t.turn + 1 \in Nat /\ t.turn + 1 \in 1 .. LastTurn(t, p)
    BY <1>1, <1>2
  <2>2. FirstStage(t.kind) \in Stages
    BY FirstStageType DEF Tasks
  <2>3. GoodTask(Asks(t, t.turn + 1, FirstStage(t.kind)), p)
    BY <2>1, <2>2, AsksGood
  <2>. QED
    BY <1>2, <2>3 DEF NextTurn, GoodStep
<1>3. CASE ~(t.turn < LastTurn(t, p))
  BY <1>3, EndUnitGood DEF NextTurn
<1>. QED
  BY <1>2, <1>3

\* Whatever a port task does, it is such a step, and the task was not done.
LEMMA PortStepGood ==
    ASSUME StateTypeOK, TaskTypeOK, TasksInRange, NEW p \in Ports, PortStep(p)
    PROVE  Alive(p) /\ \E step : Moves(p, step) /\ GoodStep(step, p)
<1> DEFINE t == tasks[p]
           item == Item(t, p)
<1>1. mgr \in Managers /\ t \in Tasks /\ TaskInRange(t, p)
  BY DEF StateTypeOK, TaskTypeOK, TasksInRange
<1>2. GoodStep([mgr |-> mgr, task |-> DoneTask], p)
  BY <1>1, DoneTaskGood DEF GoodStep
<1>3. ASSUME t.pc = "rpc"
      PROVE  /\ t.unit \in 1 .. Units(t, p)
             /\ item \in Items
             /\ t.kind # "fast" => t.turn \in 1 .. NumIds
             /\ t.kind # "fast" => t.turn \in 1 .. LastTurn(t, p)
  <2>1. t.unit \in 1 .. Units(t, p) /\ (t.kind # "fast" => t.turn \in 1 .. LastTurn(t, p))
    BY <1>1, <1>3 DEF TaskInRange
  <2>2. item \in Items /\ LastTurn(t, p) \in 1 .. NumIds
    BY <1>1, <2>1, UnitFacts
  <2>. QED
    BY <2>1, <2>2, StateConstants
<1>4. ASSUME t.pc = "rpc", NEW m \in Managers
      PROVE  GoodStep(NextTurn(m, t, p), p) /\ GoodStep(EndUnit(m, t, p), p)
  BY <1>1, <1>3, <1>4, NextTurnGood, EndUnitGood
<1>5. ASSUME FirstStep(p)
      PROVE  Alive(p) /\ \E step : Moves(p, step) /\ GoodStep(step, p)
  <2>1. t.pc = "new"
    BY <1>5 DEF FirstStep
  <2>2. 1 \in 1 .. Units(t, p)
    BY StateConstants, TaskConstants DEF Units
  <2>3. GoodStep(BeginUnit(mgr, t, p, 1), p)
    BY <1>1, <2>2, BeginUnitGood
  <2>. QED
    BY <1>2, <1>5, <2>1, <2>3 DEF FirstStep, Alive
<1>6. ASSUME FastStep(p)
      PROVE  Alive(p) /\ \E step : Moves(p, step) /\ GoodStep(step, p)
  <2>1. t.pc = "rpc" /\ t.kind = "fast"
    BY <1>6 DEF FastStep, FastFindsNothing, FastFinds, FastFindsAndFails, FastFails,
                FastCancelled, Waits
  <2>2. \A m \in Managers : GoodStep(FailedUnit(m, t, p), p)
    BY <1>3, <1>4, <2>1, AddErrorPortType DEF FailedUnit
  <2>3. \A devs \in FastReplies : FoundDevices(mgr, devs) \in Managers
    BY <1>1, FoundDevicesType, FastConstants
  <2>4. GoodTask(Asks(t, t.turn + 1, "scan"), p)
    <3>1. t.turn + 1 \in Nat /\ "scan" \in Stages
      BY <1>1 DEF Tasks, Stages
    <3>. QED
      BY <1>1, <1>3, <2>1, <3>1, AsksGood
  <2>5. CASE FastFindsNothing(p)
    BY <1>1, <1>4, <2>1, <2>5 DEF FastFindsNothing, Alive
  <2>6. CASE FastFinds(p)
    <3>1. PICK devs \in FastReplies \ {<<>>} :
              Moves(p, [mgr |-> FoundDevices(mgr, devs), task |-> Asks(t, t.turn + 1, "scan")])
      BY <2>6 DEF FastFinds
    <3>2. GoodStep([mgr |-> FoundDevices(mgr, devs), task |-> Asks(t, t.turn + 1, "scan")], p)
      BY <2>3, <2>4 DEF GoodStep
    <3>. QED
      BY <2>1, <3>1, <3>2 DEF Alive
  <2>7. CASE FastFindsAndFails(p)
    BY <2>1, <2>2, <2>3, <2>7 DEF FastFindsAndFails, Alive
  <2>8. CASE FastFails(p)
    BY <1>1, <2>1, <2>2, <2>8 DEF FastFails, Alive
  <2>9. CASE FastCancelled(p)
    BY <1>2, <2>1, <2>9 DEF FastCancelled, Alive
  <2>. QED
    BY <1>6, <2>5, <2>6, <2>7, <2>8, <2>9 DEF FastStep
<1>7. ASSUME SlowStep(p)
      PROVE  Alive(p) /\ \E step : Moves(p, step) /\ GoodStep(step, p)
  <2>1. t.pc = "rpc" /\ t.kind = "slow"
    BY <1>7 DEF SlowStep, SlowFinds, SlowFindsNothing, SlowFails, SlowCancelled, Waits
  <2>2. CASE SlowFinds(p)
    <3>1. PICK sn \in Serials :
              Moves(p, NextTurn(IF IsDeviceFound(mgr, sn) THEN mgr ELSE FoundDevice(mgr, sn),
                                t, p))
      BY <2>2 DEF SlowFinds
    <3>2. FoundDevice(mgr, sn) \in Managers
      BY <1>1, FoundDeviceType DEF Sns
    <3>. QED
      BY <1>1, <1>4, <2>1, <3>1, <3>2 DEF Alive
  <2>3. CASE SlowFindsNothing(p)
    BY <1>1, <1>4, <2>1, <2>3 DEF SlowFindsNothing, Alive
  <2>4. CASE SlowFails(p)
    <3>1. RemoveScanningPort(AddErrorPort(mgr, item), item) \in Managers
      BY <1>1, <1>3, <2>1, AddErrorPortType, RemoveScanningPortType
    <3>. QED
      BY <2>1, <2>4, <3>1, DoneTaskGood DEF SlowFails, GoodStep, Alive
  <2>5. CASE SlowCancelled(p)
    <3>1. RemoveScanningPort(mgr, item) \in Managers
      BY <1>1, <1>3, <2>1, RemoveScanningPortType
    <3>. QED
      BY <2>1, <2>5, <3>1, DoneTaskGood DEF SlowCancelled, GoodStep, Alive
  <2>. QED
    BY <1>7, <2>2, <2>3, <2>4, <2>5 DEF SlowStep
<1>8. ASSUME BootStep(p)
      PROVE  Alive(p) /\ \E step : Moves(p, step) /\ GoodStep(step, p)
  <2>1. t.pc = "rpc" /\ t.kind = "boot"
    BY <1>8 DEF BootStep, BootReadsFull, BootReadsNoFull, BootReadsShort, BootIsSilent,
                BootReadsSignature, BootFails, BootCancelled, BootWaits, Waits
  <2>2. BootSkips(p) => \E step : Moves(p, step) /\ GoodStep(step, p)
    BY <1>1, <1>4, <2>1 DEF BootSkips
  <2>3. BootFinds(p) => \E step : Moves(p, step) /\ GoodStep(step, p)
    <3>1. BootSn(t, p) \in Sns
      BY <1>3, <2>1 DEF BootSn, Sns
    <3>. QED
      BY <1>1, <1>4, <2>1, <3>1, FoundDeviceType DEF BootFinds
  <2>4. \A stage \in Stages :
            BootAsks(p, stage) => \E step : Moves(p, step) /\ GoodStep(step, p)
    <3>. TAKE stage \in Stages
    <3>1. GoodTask(Asks(t, t.turn, stage), p)
      <4>1. t.turn \in Nat
        BY <1>1 DEF Tasks
      <4>. QED
        BY <1>1, <1>3, <2>1, <4>1, AsksGood
    <3>. QED
      BY <1>1, <3>1 DEF BootAsks, GoodStep
  <2>5. BootFails(p) => \E step : Moves(p, step) /\ GoodStep(step, p)
    BY <1>1, <1>3, <1>4, <2>1, AddErrorPortType DEF BootFails
  <2>6. BootCancelled(p) => \E step : Moves(p, step) /\ GoodStep(step, p)
    BY <1>2 DEF BootCancelled
  <2>7. "read_short" \in Stages /\ "read_signature" \in Stages
    BY DEF Stages
  <2>. QED
    BY <1>8, <2>1, <2>2, <2>3, <2>4, <2>5, <2>6, <2>7
       DEF BootStep, BootReadsFull, BootReadsNoFull, BootReadsShort, BootIsSilent,
           BootReadsSignature, Alive
<1>. QED
  BY <1>5, <1>6, <1>7, <1>8 DEF PortStep
-----------------------------------------------------------------------------
(* The step of the scan task: its type, and what it tells at its end.      *)

\* The last events of a manager end a scan, and clear the ports.
EndShape(m) ==
    /\ m.queue # <<>>
    /\ \/ \E error \in {NoError, GenericError, RpcTimeoutError} :
              m.queue[Len(m.queue)] = FinishedEvent(error)
       \/ /\ m.queue[Len(m.queue)] = IdleEvent
          /\ Len(m.queue) > 1
          /\ m.queue[Len(m.queue) - 1] = CompleteEvent

GoodScanStep(step) ==
    /\ step.mgr \in Managers
    /\ step.tasks \in [Ports -> Tasks]
    /\ \A p \in Ports : TaskInRange(step.tasks[p], p)
    /\ step.scan \in ScanRecords
    /\ step.scan.pc # "none"
    /\ step.result \in Results
    /\ step.scan.pc = "done" <=> step.result # "running"
    /\ step.scan.pc # "gather" => \A p \in Ports : step.tasks[p].pc = "done"
    /\ step.scan.pc = "gather" => ~step.scan.cancel
    /\ step.scan.pc = "done" /\ step.result \in ToldEnds => EndShape(step.mgr)

LEMMA ScanFinishedShape ==
    ASSUME NEW m \in Managers, NEW error \in {NoError, GenericError, RpcTimeoutError}
    PROVE  EndShape(ScanFinished(m, error))
<1>1. m.queue \in Seq(Events)
  BY DEF Managers
<1>2. ScanFinished(m, error).queue = Append(m.queue, FinishedEvent(error))
  BY DEF ScanFinished, Put, Managers
<1>. QED
  BY <1>1, <1>2 DEF EndShape

LEMMA ScanCompleteShape ==
    ASSUME NEW m \in Managers
    PROVE  EndShape(ScanComplete(m))
<1>1. m.queue \in Seq(Events)
  BY DEF Managers
<1>2. ScanComplete(m).queue = Append(Append(m.queue, CompleteEvent), IdleEvent)
  BY DEF ScanComplete, Put, Managers
<1>. QED
  BY <1>1, <1>2 DEF EndShape

LEMMA ItemsCountType ==
    ASSUME scan \in ScanRecords, NEW ports \in SUBSET Ports
    PROVE  ItemsCount(ports) \in Nat
<1> DEFINE serial == Cardinality(ports \cap SerialPorts)
           tcp == Cardinality(ports \cap TcpPorts)
<1>1. serial \in Nat /\ tcp \in Nat
  <2>1. IsFiniteSet(ports \cap SerialPorts) /\ IsFiniteSet(ports \cap TcpPorts)
    BY ScanConstants, FS_Subset
  <2>. QED
    BY <2>1, FS_CardinalityType
<1>2. \A a, b \in Nat : a * b \in Nat
  OBVIOUS
<1>3. UartConfigs \in Nat /\ FastConfigs \in Nat /\ 2 * UartConfigs \in Nat
  BY StateConstants, TaskConstants
<1>4. serial * UartConfigs \in Nat /\ serial * FastConfigs \in Nat
      /\ serial * (2 * UartConfigs) \in Nat
  BY <1>1, <1>2, <1>3
<1>5. scan.type \in {"extended", "standard", "bootloader", "default"}
  BY DEF ScanRecords
<1>. QED
  BY <1>1, <1>4, <1>5 DEF ItemsCount, FastItems, SlowItems, BootItems

LEMMA FinishesGood ==
    ASSUME TypeOK, AllDone, TasksInRange, NEW m \in Managers,
           NEW result \in Results \ {"running"}, result \in ToldEnds => EndShape(m)
    PROVE  GoodScanStep(Finishes(m, result))
<1>1. Finishes(m, result).scan \in ScanRecords /\ Finishes(m, result).scan.pc = "done"
  BY DEF Finishes, TypeOK, ScanRecords
<1>2. /\ Finishes(m, result).mgr = m
      /\ Finishes(m, result).tasks = tasks
      /\ Finishes(m, result).result = result
  BY DEF Finishes
<1>. QED
  BY <1>1, <1>2 DEF GoodScanStep, TypeOK, TaskTypeOK, TasksInRange, AllDone, Alive

LEMMA GathersGood ==
    ASSUME TypeOK, NEW m \in Managers, NEW kind \in Kinds, NEW ports \in SUBSET Ports
    PROVE  GoodScanStep(Gathers(m, kind, ports))
<1> DEFINE step == Gathers(m, kind, ports)
<1>1. step.scan \in ScanRecords /\ step.scan.pc = "gather" /\ ~step.scan.cancel
  BY DEF Gathers, TypeOK, ScanRecords
<1>2. scan.ooo \in OooCounts \cup {0}
  BY DEF TypeOK, ScanRecords
<1>3. \A p \in Ports : GoodTask(step.tasks[p], p)
  BY <1>2, NewTaskGood, DoneTaskGood DEF Gathers
<1>4. step.tasks \in [Ports -> Tasks]
  BY <1>3 DEF Gathers, GoodTask
<1>5. step.mgr = m /\ step.result = "running"
  BY DEF Gathers
<1>6. step.result \in Results
  BY <1>5 DEF Results
<1>. QED
  BY <1>1, <1>3, <1>4, <1>5, <1>6 DEF GoodScanStep, GoodTask

LEMMA ScansGood ==
    ASSUME TypeOK, AllDone, TasksInRange, NEW m \in Managers, NEW ports \in SUBSET Ports
    PROVE  GoodScanStep(Scans(m, ports))
<1>1. scan \in ScanRecords
  BY DEF TypeOK
<1>2. CASE ItemsCount(ports) > 0
  <2>1. SetScanItemsCount(m, ItemsCount(ports)) \in Managers
    BY <1>1, ItemsCountType, SetScanItemsCountType
  <2>2. FirstKind \in Kinds
    BY <1>1 DEF FirstKind, Kinds, ScanRecords
  <2>3. GoodScanStep(Gathers(SetScanItemsCount(m, ItemsCount(ports)), FirstKind, ports))
    BY <2>1, <2>2, GathersGood
  <2>. QED
    BY <1>2, <2>3 DEF Scans
<1>3. GoodScanStep(Finishes(ScanFinished(m, GenericError), "failed"))
  <2>1. ScanFinished(m, GenericError) \in Managers
    BY ErrorsType, ScanFinishedType
  <2>. QED
    BY <2>1, ScanFinishedShape, FinishesGood DEF Results
<1>4. GoodScanStep(Finishes(ScanComplete(m), "complete"))
  BY ScanCompleteType, ScanCompleteShape, FinishesGood DEF Results
<1>. QED
  BY <1>2, <1>3, <1>4 DEF Scans

LEMMA ScanStepGood ==
    ASSUME TypeOK, TasksInRange, NoOrphanTasks, ScanStep
    PROVE  ScanAlive /\ \E step : ScanMoves(step) /\ GoodScanStep(step)
<1>1. mgr \in Managers /\ scan \in ScanRecords
  BY DEF TypeOK, StateTypeOK
<1>2. Reset(mgr, scan.preserve) \in Managers
  BY <1>1, ResetType DEF ScanRecords
<1>3. AllDone
  BY DEF NoOrphanTasks, ScanStep, ScanBegins, ScanAsksForPorts, ScanNeverRuns, PortsLoaded,
         PortsTimeOut, PortsFail, PortsCancelled, HasPorts, GatherReturns, GatherCancelled
<1>4. ScanAlive
  BY DEF ScanStep, ScanBegins, ScanAsksForPorts, ScanNeverRuns, PortsLoaded, PortsTimeOut,
         PortsFail, PortsCancelled, HasPorts, GatherReturns, GatherCancelled, ScanAlive
<1>5. \A result \in Results \ (ToldEnds \cup {"running"}) : GoodScanStep(Finishes(mgr, result))
  BY <1>1, <1>3, FinishesGood
<1>6. CASE ScanBegins
  <2>1. scan.ports \in SUBSET Ports
    BY <1>1 DEF ScanRecords
  <2>. QED
    BY <1>2, <1>3, <1>4, <1>6, <2>1, ScansGood DEF ScanBegins
<1>7. CASE ScanAsksForPorts
  <2> DEFINE step == [mgr |-> Reset(mgr, scan.preserve), tasks |-> tasks,
                      result |-> "running", scan |-> [scan EXCEPT !.pc = "ports"]]
  <2>1. step.scan \in ScanRecords /\ step.scan.pc = "ports"
    BY <1>1 DEF ScanRecords
  <2>2. step.tasks \in [Ports -> Tasks] /\ \A p \in Ports : TaskInRange(step.tasks[p], p)
    BY DEF TypeOK, TaskTypeOK, TasksInRange
  <2>3. \A p \in Ports : step.tasks[p].pc = "done"
    BY <1>3 DEF AllDone, Alive
  <2>4. step.result \in Results
    BY DEF Results
  <2>5. GoodScanStep(step)
    BY <1>2, <2>1, <2>2, <2>3, <2>4 DEF GoodScanStep
  <2>. QED
    BY <1>4, <1>7, <2>5 DEF ScanAsksForPorts
<1>8. CASE ScanNeverRuns
  BY <1>4, <1>5, <1>8 DEF ScanNeverRuns, Results, ToldEnds
<1>9. CASE PortsLoaded
  <2>1. PICK ports \in PortLists : ScanMoves(Scans(mgr, ports))
    BY <1>9 DEF PortsLoaded
  <2>2. ports \in SUBSET Ports
    BY ScanConstants
  <2>. QED
    BY <1>1, <1>3, <1>4, <2>1, <2>2, ScansGood
<1>10. CASE PortsTimeOut
  <2>1. ScanFinished(mgr, RpcTimeoutError) \in Managers
    BY <1>1, ErrorsType, ScanFinishedType
  <2>2. GoodScanStep(Finishes(ScanFinished(mgr, RpcTimeoutError), "ports_timeout"))
    BY <1>1, <1>3, <2>1, ScanFinishedShape, FinishesGood DEF Results
  <2>. QED
    BY <1>4, <1>10, <2>2 DEF PortsTimeOut
<1>11. CASE PortsFail
  BY <1>4, <1>5, <1>11 DEF PortsFail, Results, ToldEnds
<1>12. CASE PortsCancelled
  BY <1>4, <1>5, <1>12 DEF PortsCancelled, Results, ToldEnds
<1>13. CASE GatherReturns
  <2>1. GoodScanStep(Gathers(mgr, "slow", scan.ports))
    BY <1>1, GathersGood DEF ScanRecords, Kinds
  <2>2. GoodScanStep(Finishes(ScanComplete(mgr), "complete"))
    BY <1>1, <1>3, ScanCompleteType, ScanCompleteShape, FinishesGood DEF Results
  <2>. QED
    BY <1>4, <1>13, <2>1, <2>2 DEF GatherReturns
<1>14. CASE GatherCancelled
  <2>1. ScanFinished(mgr, NoError) \in Managers
    BY <1>1, ErrorsType, ScanFinishedType
  <2>2. GoodScanStep(Finishes(ScanFinished(mgr, NoError), "stopped"))
    BY <1>1, <1>3, <2>1, ScanFinishedShape, FinishesGood DEF Results
  <2>. QED
    BY <1>4, <1>14, <2>2 DEF GatherCancelled
<1>. QED
  BY <1>6, <1>7, <1>8, <1>9, <1>10, <1>11, <1>12, <1>13, <1>14 DEF ScanStep
-----------------------------------------------------------------------------
(* The consumer                                                            *)

LEMMA AppliedType ==
    ASSUME NEW s \in States, NEW event \in Events
    PROVE  Applied(s, event) \in States
<1>1. "progress" \in DOMAIN event => event.progress \in Nat
  BY DEF Events
<1>2. "scanning" \in DOMAIN event => event.scanning \in BOOLEAN
  BY DEF Events
<1>3. "scanning_ports" \in DOMAIN event => event.scanning_ports \in Nat
  BY DEF Events
<1>4. "is_ext_scan" \in DOMAIN event => event.is_ext_scan \in BOOLEAN
  BY DEF Events
<1>5. "error" \in DOMAIN event => event.error \in Errors
  BY DEF Events
<1>6. "device" \in DOMAIN event => event.device \in Sns
  BY DEF Events
<1>7. "devices" \in DOMAIN event => event.devices \in Seq(Sns)
  <2>1. "devices" \in DOMAIN event => event.devices = <<>>
    BY DEF Events
  <2>2. <<>> \in Seq(Sns)
    BY EmptySeq
  <2>. QED
    BY <2>1, <2>2
<1>8. (IF "device" \in DOMAIN event THEN Append(s.devices, event.device)
       ELSE IF "devices" \in DOMAIN event THEN event.devices ELSE s.devices) \in Seq(Sns)
  BY <1>6, <1>7 DEF States
<1>. QED
  BY <1>1, <1>2, <1>3, <1>4, <1>5, <1>8 DEF Applied, NewProgress, States

LEMMA StateJsonType ==
    ASSUME NEW s \in States, NEW m \in Managers
    PROVE  StateJson(s, m) \in Published
<1>1. /\ Deref(m.ports_now_scanning, s.scanning_ports) \in SUBSET Items
      /\ Deref(m.ports_errored, s.error.failed_ports) \in SUBSET Items
  BY DerefType DEF Managers
<1>2. s.error.id \in ErrorIds
  BY DEF States, Errors
<1>. QED
  BY <1>1, <1>2 DEF StateJson, Published, States

\* What is left of a queue without its head
LEMMA TailFacts ==
    ASSUME NEW q \in Seq(Events), q # <<>>
    PROVE  /\ Tail(q) \in Seq(Events)
           /\ Len(q) \in Nat \ {0}
           /\ Len(Tail(q)) = Len(q) - 1
           /\ Len(Tail(q)) > 0 => Tail(q)[Len(Tail(q))] = q[Len(q)]
           /\ Len(Tail(q)) > 1 => Tail(q)[Len(Tail(q)) - 1] = q[Len(q) - 1]
           /\ Tail(q) = <<>> <=> Len(Tail(q)) = 0
<1>1. Len(q) \in Nat \ {0}
  BY EmptySeq
<1>2. /\ Tail(q) \in Seq(Events) /\ Len(Tail(q)) = Len(q) - 1
      /\ \A i \in 1 .. Len(Tail(q)) : Tail(q)[i] = q[i + 1]
  BY HeadTailProperties
<1>3. Tail(q) = <<>> <=> Len(Tail(q)) = 0
  BY <1>2, EmptySeq
<1>4. Len(Tail(q)) > 0 => Tail(q)[Len(Tail(q))] = q[Len(q)]
  BY <1>1, <1>2
<1>5. Len(Tail(q)) > 1 => Tail(q)[Len(Tail(q)) - 1] = q[Len(q) - 1]
  BY <1>1, <1>2
<1>. QED
  BY <1>1, <1>2, <1>3, <1>4, <1>5

\* The head of the queue is applied: the queue that is left ends as before, and
\* if nothing is left then an event that ends a scan has just been published.
LEMMA ConsumeGood ==
    ASSUME StateTypeOK, Consume
    PROVE  /\ StateTypeOK'
           /\ EndInQueue => EndInQueue'
<1> DEFINE event == Head(mgr.queue)
           s == Applied(state, event)
<1>1. mgr.queue \in Seq(Events) /\ mgr.queue # <<>> /\ state \in States /\ mgr \in Managers
  BY DEF StateTypeOK, Consume, Managers
<1>2. event \in Events /\ Tail(mgr.queue) \in Seq(Events)
  BY <1>1
<1>3. s \in States
  BY <1>1, <1>2, AppliedType
<1>4. /\ state' = s
      /\ published' = StateJson(s, mgr)
      /\ mgr' = [mgr EXCEPT !.queue = Tail(mgr.queue)]
      /\ consumer' \in {"draining", "waiting"}
  BY DEF Consume
<1>5. mgr' \in Managers /\ mgr'.queue = Tail(mgr.queue)
  BY <1>1, <1>2, <1>4 DEF Managers
<1>6. StateTypeOK'
  BY <1>1, <1>3, <1>4, <1>5, StateJsonType DEF StateTypeOK
<1>7. ASSUME EndInQueue
      PROVE  EndInQueue'
  <2> DEFINE q == mgr.queue
             r == mgr'.queue
  <2>1. /\ r \in Seq(Events) /\ Len(q) \in Nat \ {0} /\ Len(r) = Len(q) - 1
        /\ Len(r) > 0 => r[Len(r)] = q[Len(q)]
        /\ Len(r) > 1 => r[Len(r) - 1] = q[Len(q) - 1]
        /\ r = <<>> <=> Len(r) = 0
    BY <1>1, <1>5, TailFacts
  <2>2. /\ event = q[1]
        /\ published' = StateJson(s, mgr) /\ state' = s
    BY <1>1, <1>4
  <2>3. \A objects \in Objects : Deref(objects, 0) = {}
    BY DEF Deref, Objects
  <2>4. mgr.ports_now_scanning \in Objects
    BY <1>1 DEF Managers
  <2>5. CASE \E error \in {NoError, GenericError, RpcTimeoutError} :
                 q[Len(q)] = FinishedEvent(error)
    <3>1. CASE r # <<>>
      BY <2>1, <2>5, <3>1, <1>7 DEF EndInQueue
    <3>2. CASE r = <<>>
      <4>1. PICK error : event = FinishedEvent(error)
        BY <2>1, <2>2, <2>5, <3>2
      <4>2. s.scanning = FALSE /\ s.progress = 0 /\ s.scanning_ports = 0
        BY <4>1 DEF Applied, NewProgress, FinishedEvent
      <4>. QED
        BY <2>2, <2>3, <2>4, <3>2, <4>2 DEF EndInQueue, StateJson
    <3>. QED
      BY <3>1, <3>2
  <2>6. CASE /\ q[Len(q)] = IdleEvent
             /\ IF Len(q) = 1 THEN state.scanning_ports = 0
                              ELSE q[Len(q) - 1] = CompleteEvent
    <3>1. CASE Len(q) = 1
      <4>1. s.scanning = FALSE /\ s.progress = 0 /\ s.scanning_ports = 0
        BY <2>2, <2>6, <3>1 DEF Applied, NewProgress, IdleEvent
      <4>2. r = <<>>
        BY <2>1, <3>1
      <4>. QED
        BY <2>2, <2>3, <2>4, <4>1, <4>2 DEF EndInQueue, StateJson
    <3>2. CASE Len(q) = 2
      <4>1. event = CompleteEvent
        BY <2>2, <2>6, <3>2
      <4>2. s.scanning_ports = 0
        BY <4>1 DEF Applied, CompleteEvent
      <4>3. Len(r) = 1 /\ r # <<>> /\ r[Len(r)] = IdleEvent
        BY <2>1, <2>6, <3>2
      <4>. QED
        BY <2>2, <4>2, <4>3 DEF EndInQueue
    <3>3. CASE Len(q) > 2
      <4>1. /\ r # <<>> /\ Len(r) # 1 /\ r[Len(r)] = IdleEvent
            /\ r[Len(r) - 1] = CompleteEvent
        BY <2>1, <2>6, <3>3
      <4>. QED
        BY <4>1 DEF EndInQueue
    <3>4. Len(q) = 1 \/ Len(q) = 2 \/ Len(q) > 2
      <4>1. \A n \in Nat \ {0} : n = 1 \/ n = 2 \/ n > 2
        OBVIOUS
      <4>. QED
        BY <2>1, <4>1
    <3>. QED
      BY <3>1, <3>2, <3>3, <3>4
  <2>7. \/ \E error \in {NoError, GenericError, RpcTimeoutError} :
               q[Len(q)] = FinishedEvent(error)
        \/ /\ q[Len(q)] = IdleEvent
           /\ IF Len(q) = 1 THEN state.scanning_ports = 0
                            ELSE q[Len(q) - 1] = CompleteEvent
    BY <1>1, <1>7 DEF EndInQueue
  <2>. QED
    BY <2>5, <2>6, <2>7
<1>. QED
  BY <1>6, <1>7
-----------------------------------------------------------------------------
(* The inductive invariant                                                 *)

LEMMA InitIInv == Init => IInv
<1>. SUFFICES ASSUME Init PROVE IInv
  OBVIOUS
<1>. USE DEF Init
<1>1. mgr \in Managers
  <2>1. <<{}>> \in Objects
    BY DEF Objects
  <2>. QED
    BY <2>1 DEF StateInit, Managers
<1>2. state \in States
  <2>1. <<>> \in Seq(Sns)
    OBVIOUS
  <2>. QED
    BY <2>1, ErrorsType DEF StateInit, States
<1>3. published \in Published
  BY <1>1, <1>2, StateJsonType DEF StateInit
<1>4. StateTypeOK
  BY <1>1, <1>2, <1>3 DEF StateTypeOK, StateInit
<1>5. \A p \in Ports : GoodTask(tasks[p], p) /\ tasks[p].pc = "done"
  BY DoneTaskGood DEF TaskInit
<1>6. TaskTypeOK /\ TasksInRange /\ AllDone
  BY <1>5 DEF TaskInit, TaskTypeOK, TasksInRange, GoodTask, AllDone, Alive
<1>7. scan \in ScanRecords /\ scan.pc = "none"
  BY DEF NoScan, ScanRecords, Kinds
<1>8. ends \in Seq(Results)
  OBVIOUS
<1>9. awaits \in [Clients -> Nat] /\ reply \in [Clients -> {"none", "ok", "busy", "error"}]
  OBVIOUS
<1>10. TypeOK
  BY <1>4, <1>6, <1>7, <1>8, <1>9 DEF TypeOK
<1>. QED
  BY <1>6, <1>7, <1>10 DEF IInv, NoOrphanTasks, ScanAlive, Ended, StopsInOrder, CancelReaches

LEMMA ConsumerIInv ==
    ASSUME IInv, (ConsumerStarts \/ Consume) /\ UNCHANGED <<tasks, scanVars>>
    PROVE  IInv'
<1>1. UNCHANGED <<tasks, scan, ends, awaits, reply>>
  BY DEF scanVars
<1>2. StateTypeOK' /\ consumer' # "new"
  <2>1. CASE ConsumerStarts
    BY <2>1, StateJsonType DEF ConsumerStarts, IInv, TypeOK, StateTypeOK
  <2>2. CASE Consume
    BY <2>2, ConsumeGood DEF IInv, TypeOK, Consume
  <2>. QED
    BY <2>1, <2>2
<1>3. TypeOK' /\ TasksInRange' /\ NoOrphanTasks'
  BY <1>1, <1>2 DEF IInv, TypeOK, TaskTypeOK, TasksInRange, NoOrphanTasks, AllDone, Alive
<1>4. (Ended(ToldEnds) => EndInQueue)' /\ StopsInOrder'
  <2>1. CASE ConsumerStarts
    BY <1>1, <2>1 DEF ConsumerStarts, IInv, Ended, StopsInOrder
  <2>2. CASE Consume
    <3>1. EndInQueue => EndInQueue'
      BY <2>2, ConsumeGood DEF IInv, TypeOK
    <3>. QED
      BY <1>1, <3>1 DEF IInv, Ended, LastEnd, StopsInOrder, Over
  <2>. QED
    BY <2>1, <2>2
<1>. QED
  BY <1>1, <1>2, <1>3, <1>4 DEF IInv, ScanAlive, LastEnd, CancelReaches, Alive

\* A task that was cancelled and drops the answer it may have does nothing more.
LEMMA CancelledTaskEnds ==
    ASSUME ~KeepsAnswer, TaskTypeOK, NEW p \in Ports, PortStep(p), tasks[p].cancel
    PROVE  tasks' = [tasks EXCEPT ![p] = DoneTask]
<1>1. ~HasAnswer(p) /\ ~TimesOut(p)
  BY DEF HasAnswer, TimesOut
<1>2. CASE FirstStep(p)
  BY <1>2 DEF FirstStep, Moves
<1>3. CASE FastStep(p)
  BY <1>1, <1>3 DEF FastStep, FastFindsNothing, FastFinds, FastFindsAndFails, FastFails,
                    FastCancelled, Moves
<1>4. CASE SlowStep(p)
  BY <1>1, <1>4 DEF SlowStep, SlowFinds, SlowFindsNothing, SlowFails, SlowCancelled, Moves
<1>5. CASE BootStep(p)
  BY <1>1, <1>5 DEF BootStep, BootReadsFull, BootReadsNoFull, BootReadsShort, BootIsSilent,
                    BootReadsSignature, BootFails, BootCancelled, Moves
<1>. QED
  BY <1>2, <1>3, <1>4, <1>5 DEF PortStep

\* While a task of a port is alive no Stop waits for a scan that is over.
LEMMA PortIInv ==
    ASSUME IInv, NEW p \in Ports, (Answer(p) \/ PortStep(p)) /\ UNCHANGED scanVars
    PROVE  IInv'
<1>1. UNCHANGED <<scan, ends, awaits, reply>>
  BY DEF scanVars
<1>2. tasks \in [Ports -> Tasks] /\ \A q \in Ports : TaskInRange(tasks[q], q)
  BY DEF IInv, TypeOK, TaskTypeOK, TasksInRange
<1>3. /\ Alive(p)
      /\ StateTypeOK' /\ consumer' = consumer
      /\ \E task : tasks' = [tasks EXCEPT ![p] = task] /\ GoodTask(task, p)
  <2>1. CASE Answer(p)
    <3>1. tasks' = [tasks EXCEPT ![p] = [tasks[p] EXCEPT !.answered = TRUE]]
      BY <2>1 DEF Answer
    <3>2. Alive(p) /\ UNCHANGED <<mgr, state, consumer, published>>
      BY <2>1 DEF Answer, Alive, stateVars
    <3>3. GoodTask([tasks[p] EXCEPT !.answered = TRUE], p)
      BY <1>2 DEF Tasks, GoodTask, TaskInRange, Units, LastTurn, TwoPasses
    <3>. QED
      BY <3>1, <3>2, <3>3 DEF IInv, TypeOK, StateTypeOK
  <2>2. CASE PortStep(p)
    <3>1. Alive(p) /\ \E step : Moves(p, step) /\ GoodStep(step, p)
      BY <2>2, PortStepGood DEF IInv, TypeOK
    <3>. QED
      BY <3>1 DEF Moves, GoodStep, IInv, TypeOK, StateTypeOK
  <2>. QED
    BY <2>1, <2>2
<1>4. scan.pc = "gather"
  BY <1>3 DEF IInv, NoOrphanTasks, AllDone
<1>5. TypeOK' /\ TasksInRange'
  BY <1>1, <1>2, <1>3 DEF GoodTask, IInv, TypeOK, TaskTypeOK, TasksInRange
<1>6. StopsInOrder'
  BY <1>1, <1>4 DEF IInv, StopsInOrder, Over
<1>7. ASSUME ~KeepsAnswer, CancelReaches
      PROVE  CancelReaches'
  <2>. SUFFICES ASSUME scan'.cancel, NEW q \in Ports, tasks'[q].pc # "done"
                PROVE  tasks'[q].cancel
    BY DEF CancelReaches, Alive
  <2>1. \A r \in Ports : Alive(r) => tasks[r].cancel
    BY <1>1, <1>4, <1>7 DEF CancelReaches
  <2>2. CASE Answer(p)
    BY <1>2, <2>1, <2>2 DEF Answer, Alive, Tasks
  <2>3. CASE PortStep(p)
    <3>1. tasks' = [tasks EXCEPT ![p] = DoneTask]
      BY <1>3, <1>7, <2>1, <2>3, CancelledTaskEnds DEF IInv, TypeOK
    <3>. QED
      BY <1>2, <2>1, <3>1, DoneTaskGood DEF Alive
  <2>. QED
    BY <2>2, <2>3
<1>. QED
  BY <1>1, <1>3, <1>4, <1>5, <1>6, <1>7 DEF IInv, NoOrphanTasks, ScanAlive, Ended, LastEnd

LEMMA ScanIInv ==
    ASSUME IInv, ScanStep
    PROVE  IInv'
<1>1. ScanAlive /\ \E step : ScanMoves(step) /\ GoodScanStep(step)
  BY ScanStepGood DEF IInv
<1>2. PICK step : ScanMoves(step) /\ GoodScanStep(step)
  BY <1>1
<1>3. /\ mgr' = step.mgr /\ tasks' = step.tasks /\ scan' = step.scan
      /\ ends' = [ends EXCEPT ![Len(ends)] = step.result]
      /\ UNCHANGED <<state, consumer, published, awaits, reply>>
  BY <1>2 DEF ScanMoves
<1>4. ends \in Seq(Results) /\ ends # <<>> /\ step.result \in Results
  BY <1>1, <1>2 DEF IInv, TypeOK, GoodScanStep, ScanAlive
<1>5. /\ ends' \in Seq(Results) /\ ends' # <<>>
      /\ Len(ends') = Len(ends) /\ ends'[Len(ends')] = step.result
      /\ \A n \in 1 .. Len(ends) : n # Len(ends) => ends'[n] = ends[n]
  BY <1>3, <1>4
<1>6. StateTypeOK'
  BY <1>2, <1>3 DEF IInv, TypeOK, StateTypeOK, GoodScanStep
<1>7. TypeOK'
  BY <1>2, <1>3, <1>5, <1>6 DEF IInv, TypeOK, TaskTypeOK, GoodScanStep
<1>8. TasksInRange' /\ NoOrphanTasks'
  BY <1>2, <1>3 DEF GoodScanStep, TasksInRange, NoOrphanTasks, AllDone, Alive
<1>9. consumer' # "new"
  BY <1>1, <1>3 DEF IInv, ScanAlive
<1>10. scan'.pc = "done" /\ step.result \in ToldEnds => EndInQueue'
  <2>1. scan'.pc = "done" /\ step.result \in ToldEnds => EndShape(mgr')
    BY <1>2, <1>3 DEF GoodScanStep
  <2>. QED
    BY <2>1 DEF EndShape, EndInQueue
<1>11. \A c \in Clients : awaits[c] # 0 => ~Over(awaits[c])
  <2>. SUFFICES ASSUME NEW c \in Clients, awaits[c] # 0, Over(awaits[c]) PROVE FALSE
    OBVIOUS
  <2>1. scan.pc \in {"new", "load", "done"}
    BY DEF IInv, StopsInOrder
  <2>2. scan.pc \in {"new", "load"}
    BY <1>1, <2>1 DEF ScanAlive
  <2>3. ScanReady
    BY <2>2 DEF ScanStep, ScanBegins, ScanAsksForPorts, ScanNeverRuns, PortsLoaded,
                PortsTimeOut, PortsFail, PortsCancelled, HasPorts, GatherReturns,
                GatherCancelled
  <2>. QED
    BY <2>3 DEF ScanReady
<1>12. StopsInOrder'
  <2>. SUFFICES ASSUME NEW c \in Clients, awaits'[c] # 0
                PROVE  /\ awaits'[c] \in 1 .. Len(ends')
                       /\ Over(awaits[c])' => /\ scan'.pc \in {"new", "load", "done"}
                                              /\ ends'[awaits'[c]] \in ToldEnds => EndInQueue'
    BY DEF StopsInOrder
  <2>1. awaits'[c] = awaits[c] /\ awaits[c] \in 1 .. Len(ends) /\ ends[awaits[c]] = "running"
    BY <1>3, <1>11 DEF IInv, StopsInOrder, Over
  <2>2. CASE awaits[c] # Len(ends)
    BY <1>5, <2>1, <2>2 DEF Over
  <2>3. CASE awaits[c] = Len(ends)
    <3>1. Over(awaits[c])' => step.result # "running"
      BY <1>5, <2>1, <2>3 DEF Over
    <3>2. Over(awaits[c])' => scan'.pc = "done"
      BY <1>2, <1>3, <3>1 DEF GoodScanStep
    <3>. QED
      BY <1>5, <1>10, <2>1, <2>3, <3>2
  <2>. QED
    BY <2>2, <2>3
<1>13. (ScanAlive => LastEnd = "running")' /\ (Ended(ToldEnds) => EndInQueue)'
  BY <1>2, <1>3, <1>5, <1>10 DEF GoodScanStep, ScanAlive, LastEnd, Ended
<1>14. CancelReaches'
  BY <1>2, <1>3 DEF GoodScanStep, CancelReaches
<1>. QED
  BY <1>5, <1>7, <1>8, <1>9, <1>12, <1>13, <1>14 DEF IInv

LEMMA RequestIInv ==
    ASSUME IInv, PortsAnswered \/ \E c \in Clients : Request(c) \/ StopReturns(c)
    PROVE  IInv'
<1>1. UNCHANGED <<mgr, state, consumer, published>>
  BY DEF PortsAnswered, Request, Start, StartRefused, Stop, StopRefused, StopReturns, stateVars
<1>2. StateTypeOK' /\ (EndInQueue => EndInQueue')
  BY <1>1 DEF IInv, TypeOK, StateTypeOK, EndInQueue
<1>3. consumer' # "new"
  BY <1>1 DEF PortsAnswered, Request, Start, StartRefused, Stop, StopRefused, StopReturns,
              Requesting, LoopFree
<1>4. CASE PortsAnswered
  <2>1. scan' = [scan EXCEPT !.answered = TRUE] /\ UNCHANGED <<tasks, ends, awaits, reply>>
    BY <1>4 DEF PortsAnswered
  <2>2. scan' \in ScanRecords /\ scan'.pc = scan.pc /\ scan.pc = "ports"
    BY <1>4, <2>1 DEF IInv, TypeOK, ScanRecords, PortsAnswered
  <2>3. StopsInOrder'
    BY <1>2, <2>1, <2>2 DEF IInv, StopsInOrder, Over
  <2>. QED
    BY <1>2, <1>3, <2>1, <2>2, <2>3
       DEF IInv, TypeOK, TaskTypeOK, TasksInRange, NoOrphanTasks, AllDone, Alive,
           ScanAlive, Ended, LastEnd, CancelReaches
<1>5. ASSUME NEW c \in Clients, Start(c)
      PROVE  IInv'
  <2>1. PICK type \in ScanTypes, port \in Requests, preserve \in Preserve, ooo \in OooCounts :
            scan' = [NoScan EXCEPT !.pc = IF port = NoPort THEN "load" ELSE "new",
                                   !.type = type, !.preserve = preserve, !.ooo = ooo,
                                   !.ports = IF port = NoPort THEN {} ELSE port]
    BY <1>5 DEF Start
  <2>2. (IF port = NoPort THEN {} ELSE port) \in SUBSET Ports
    BY ScanConstants
  <2>3. scan' \in ScanRecords /\ scan'.pc \in {"new", "load"}
    BY <2>1, <2>2, ScanConstants DEF NoScan, ScanRecords, Kinds
  <2>4. /\ ends \in Seq(Results) /\ ends' = Append(ends, "running")
        /\ ends' \in Seq(Results) /\ ends' # <<>> /\ ends'[Len(ends')] = "running"
        /\ \A n \in 1 .. Len(ends) : n \in 1 .. Len(ends') /\ ends'[n] = ends[n]
    BY <1>5 DEF Start, IInv, TypeOK, Results
  <2>5. reply' \in [Clients -> {"none", "ok", "busy", "error"}]
    BY <1>5 DEF Start, IInv, TypeOK
  <2>6. UNCHANGED <<tasks, awaits>> /\ AllDone
    BY <1>5 DEF Start, IInv, NoOrphanTasks, ScanAlive
  <2>7. StopsInOrder'
    BY <1>2, <2>3, <2>4, <2>6 DEF IInv, StopsInOrder, Over
  <2>. QED
    BY <1>2, <1>3, <2>3, <2>4, <2>5, <2>6, <2>7
       DEF IInv, TypeOK, TaskTypeOK, TasksInRange, NoOrphanTasks, AllDone, Alive,
           ScanAlive, Ended, LastEnd, CancelReaches
<1>6. ASSUME NEW c \in Clients, Stop(c)
      PROVE  IInv'
  <2>1. /\ scan' = [scan EXCEPT !.cancel = TRUE] /\ ScanAlive
        /\ tasks' = Cancelled(tasks)
        /\ awaits' = [awaits EXCEPT ![c] = Len(ends)]
        /\ UNCHANGED <<ends, reply>>
    BY <1>6 DEF Stop
  <2>2. scan' \in ScanRecords /\ scan'.pc = scan.pc
    BY <2>1 DEF IInv, TypeOK, ScanRecords
  <2>3. ends \in Seq(Results) /\ ends # <<>> /\ LastEnd = "running"
    BY <2>1 DEF IInv, TypeOK, ScanAlive
  <2>4. Len(ends) \in Nat \ {0} /\ awaits' \in [Clients -> Nat]
    BY <2>1, <2>3 DEF IInv, TypeOK
  <2>5. \A p \in Ports : GoodTask(tasks'[p], p) /\ tasks'[p].pc = tasks[p].pc
    <3>. TAKE p \in Ports
    <3>1. tasks[p] \in Tasks /\ TaskInRange(tasks[p], p)
      BY DEF IInv, TypeOK, TaskTypeOK, TasksInRange
    <3>2. \/ tasks'[p] = tasks[p]
          \/ tasks'[p] = [tasks[p] EXCEPT !.cancel = TRUE]
      BY <2>1 DEF Cancelled
    <3>. QED
      BY <3>1, <3>2 DEF Tasks, GoodTask, TaskInRange, Units, LastTurn, TwoPasses
  <2>6. tasks' \in [Ports -> Tasks]
    BY <2>1, <2>5 DEF Cancelled, GoodTask
  <2>7. StopsInOrder'
    <3>. SUFFICES ASSUME NEW d \in Clients, awaits'[d] # 0
                  PROVE  /\ awaits'[d] \in 1 .. Len(ends')
                         /\ Over(awaits[d])' =>
                               /\ scan'.pc \in {"new", "load", "done"}
                               /\ ends'[awaits'[d]] \in ToldEnds => EndInQueue'
      BY DEF StopsInOrder
    <3>1. CASE d = c
      BY <2>1, <2>3, <2>4, <3>1 DEF IInv, TypeOK, Over, LastEnd
    <3>2. CASE d # c
      <4>1. awaits'[d] = awaits[d]
        BY <2>1, <3>2 DEF IInv, TypeOK
      <4>. QED
        BY <1>2, <2>1, <2>2, <4>1 DEF IInv, StopsInOrder, Over
    <3>. QED
      BY <3>1, <3>2
  <2>8. CancelReaches'
    <3>1. \A p \in Ports : tasks[p].pc # "done" => tasks'[p].cancel
      BY <2>1 DEF Cancelled, IInv, TypeOK, TaskTypeOK, Tasks
    <3>. QED
      BY <2>5, <3>1 DEF CancelReaches, Alive
  <2>. QED
    BY <1>2, <1>3, <2>1, <2>2, <2>4, <2>5, <2>6, <2>7, <2>8
       DEF GoodTask, IInv, TypeOK, TaskTypeOK, TasksInRange, NoOrphanTasks, AllDone, Alive,
           ScanAlive, Ended, LastEnd
<1>7. ASSUME NEW c \in Clients, StartRefused(c) \/ StopRefused(c) \/ StopReturns(c)
      PROVE  IInv'
  <2>1. UNCHANGED <<tasks, scan, ends>>
    BY <1>7 DEF StartRefused, StopRefused, StopReturns
  <2>2. /\ awaits' \in [Clients -> Nat]
        /\ \A d \in Clients : awaits'[d] # 0 => awaits'[d] = awaits[d]
    BY <1>7 DEF StartRefused, StopRefused, StopReturns, IInv, TypeOK
  <2>3. reply' \in [Clients -> {"none", "ok", "busy", "error"}]
    BY <1>7 DEF StartRefused, StopRefused, StopReturns, IInv, TypeOK
  <2>4. StopsInOrder'
    BY <1>2, <2>1, <2>2 DEF IInv, StopsInOrder, Over
  <2>. QED
    BY <1>2, <1>3, <2>1, <2>2, <2>3, <2>4
       DEF IInv, TypeOK, TaskTypeOK, TasksInRange, NoOrphanTasks, AllDone, Alive,
           ScanAlive, Ended, LastEnd, CancelReaches
<1>. QED
  BY <1>4, <1>5, <1>6, <1>7 DEF Request

\* Every step of every task and of every client preserves IInv.
THEOREM Invariance == Spec => []IInv
<1>1. IInv /\ UNCHANGED vars => IInv'
  BY DEF vars, IInv, TypeOK, StateTypeOK, TaskTypeOK, TasksInRange, NoOrphanTasks, AllDone,
         Alive, ScanAlive, EndInQueue, Ended, LastEnd, StopsInOrder, Over, CancelReaches
<1>2. IInv /\ Next => IInv'
  BY ConsumerIInv, PortIInv, ScanIInv, RequestIInv DEF Next
<1>. QED
  BY <1>1, <1>2, InitIInv, PTL DEF Spec

-----------------------------------------------------------------------------
(* What it shows                                                           *)

\* The manager, the state, the tasks and the replies keep their types.
THEOREM TypeCorrect == Spec => []TypeOK
<1>1. IInv => TypeOK
  BY DEF IInv
<1>. QED
  BY <1>1, Invariance, PTL

\* The tasks of the ports live inside the gather of the scan task: a scan that is
\* over, stopped or not, leaves none behind, however many ports there are.
THEOREM NoOrphans == Spec => []NoOrphanTasks
<1>1. IInv => NoOrphanTasks
  BY DEF IInv
<1>. QED
  BY <1>1, Invariance, PTL

\* The end of a scan that had its ports is published, whatever was still queued.
THEOREM EndPublished == Spec => []EndIsPublished
<1>1. IInv => EndIsPublished
  BY DEF IInv, EndInQueue, EndIsPublished, Quiet
<1>. QED
  BY <1>1, Invariance, PTL

\* When Stop is answered its scan is over for good: no task of it is left, and
\* the state topic says so if the scan had its ports.
THEOREM StopAnswer == Spec => StopMeansStopped
<1> DEFINE A == \A c \in Clients : awaits[c] # 0 /\ awaits'[c] = 0
                    => AllDone /\ (ends[awaits[c]] \in ToldEnds => ~published.scanning)
<1>1. ASSUME IInv, Next
      PROVE  A
  <2>. SUFFICES ASSUME NEW c \in Clients, awaits[c] # 0, awaits'[c] = 0
                PROVE  AllDone /\ (ends[awaits[c]] \in ToldEnds => ~published.scanning)
    OBVIOUS
  <2>1. StopReturns(c)
    <3>1. awaits' # awaits
      OBVIOUS
    <3>2. ~ScanStep
      BY <1>1, <3>1, ScanStepGood DEF IInv, ScanMoves
    <3>3. PICK d \in Clients : Stop(d) \/ StopReturns(d)
      BY <1>1, <3>1, <3>2
         DEF Next, scanVars, PortsAnswered, Request, Start, StartRefused, StopRefused
    <3>4. d = c
      BY <1>1, <3>3 DEF Stop, StopReturns, IInv, TypeOK
    <3>5. ~Stop(c)
      BY <1>1 DEF Stop, Requesting
    <3>. QED
      BY <3>3, <3>4, <3>5
  <2>2. mgr.queue = <<>> /\ Over(awaits[c])
    BY <2>1 DEF StopReturns
  <2>3. scan.pc # "gather" /\ (ends[awaits[c]] \in ToldEnds => EndInQueue)
    BY <1>1, <2>2 DEF IInv, StopsInOrder
  <2>4. AllDone
    BY <1>1, <2>3 DEF IInv, NoOrphanTasks
  <2>. QED
    BY <2>2, <2>3, <2>4 DEF EndInQueue
<1>2. IInv /\ [Next]_vars => [A]_vars
  BY <1>1
<1>. QED
  BY <1>2, Invariance, PTL DEF Spec, StopMeansStopped

\* Where a cancelled call drops the answer it may have, a Stop is the last thing
\* a scan sees: no port task is made, begins or sends another request after it.
THEOREM StopIsFinal == ASSUME ~KeepsAnswer PROVE Spec => NothingNewAfterStop
<1> DEFINE B == scan.cancel =>
                  \A p \in Ports :
                      /\ tasks'[p].pc = "new" => tasks[p].pc = "new"
                      /\ tasks'[p].pc = "rpc" => /\ tasks[p].pc = "rpc"
                                                 /\ tasks'[p].unit = tasks[p].unit
                                                 /\ tasks'[p].turn = tasks[p].turn
                                                 /\ tasks'[p].stage = tasks[p].stage
<1>1. ASSUME IInv, Next, scan.cancel
      PROVE  \/ tasks' = tasks
             \/ tasks' = Cancelled(tasks)
             \/ \E q \in Ports : \/ tasks' = [tasks EXCEPT ![q].answered = TRUE]
                                \/ tasks' = [tasks EXCEPT ![q] = DoneTask]
  <2>1. CASE (ConsumerStarts \/ Consume) /\ UNCHANGED <<tasks, scanVars>>
    BY <2>1
  <2>2. ASSUME NEW q \in Ports, Answer(q)
        PROVE  tasks' = [tasks EXCEPT ![q].answered = TRUE]
    BY <2>2 DEF Answer
  <2>3. ASSUME NEW q \in Ports, PortStep(q)
        PROVE  tasks' = [tasks EXCEPT ![q] = DoneTask]
    <3>1. Alive(q)
      BY <1>1, <2>3, PortStepGood DEF IInv, TypeOK
    <3>2. tasks[q].cancel
      BY <1>1, <3>1 DEF IInv, NoOrphanTasks, AllDone, CancelReaches
    <3>. QED
      BY <1>1, <2>3, <3>2, CancelledTaskEnds DEF IInv, TypeOK
  <2>4. CASE ScanStep
    BY <1>1, <2>4
       DEF ScanStep, ScanBegins, ScanAsksForPorts, ScanNeverRuns, PortsLoaded, PortsTimeOut,
           PortsFail, PortsCancelled, HasPorts, GatherReturns, GatherCancelled, ScanMoves,
           Finishes
  <2>5. CASE PortsAnswered \/ \E c \in Clients : Request(c) \/ StopReturns(c)
    BY <2>5 DEF PortsAnswered, Request, Start, StartRefused, Stop, StopRefused, StopReturns
  <2>. QED
    BY <1>1, <2>1, <2>2, <2>3, <2>4, <2>5 DEF Next
<1>2. IInv /\ [Next]_vars => [B]_vars
  <2>. SUFFICES ASSUME IInv, Next, scan.cancel, NEW p \in Ports
                PROVE  /\ tasks'[p].pc = "new" => tasks[p].pc = "new"
                       /\ tasks'[p].pc = "rpc" => /\ tasks[p].pc = "rpc"
                                                  /\ tasks'[p].unit = tasks[p].unit
                                                  /\ tasks'[p].turn = tasks[p].turn
                                                  /\ tasks'[p].stage = tasks[p].stage
    OBVIOUS
  <2>1. tasks[p] \in Tasks /\ tasks \in [Ports -> Tasks]
    BY DEF IInv, TypeOK, TaskTypeOK
  <2>2. DoneTask.pc = "done"
    BY DoneTaskGood
  <2>3. CASE tasks' = tasks
    BY <2>3
  <2>4. CASE tasks' = Cancelled(tasks)
    BY <2>1, <2>4 DEF Cancelled, Tasks
  <2>5. ASSUME NEW q \in Ports, tasks' = [tasks EXCEPT ![q].answered = TRUE]
        PROVE  /\ tasks'[p].pc = tasks[p].pc /\ tasks'[p].unit = tasks[p].unit
               /\ tasks'[p].turn = tasks[p].turn /\ tasks'[p].stage = tasks[p].stage
    BY <2>1, <2>5 DEF Tasks
  <2>6. ASSUME NEW q \in Ports, tasks' = [tasks EXCEPT ![q] = DoneTask]
        PROVE  tasks'[p] = tasks[p] \/ tasks'[p].pc = "done"
    BY <2>1, <2>2, <2>6
  <2>. QED
    BY <1>1, <2>3, <2>4, <2>5, <2>6
<1>. QED
  BY <1>2, Invariance, PTL DEF Spec, NothingNewAfterStop
=============================================================================
