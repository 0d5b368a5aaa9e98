----------------------------- MODULE BusScan_count -----------------------------
(***************************************************************************)
(* The progress meter of BusScan, for any ports, scan types and bounds: the*)
(* count announced is the number of units there are to do, and what is left*)
(* of it is what the tasks of the ports have not done.                     *)
(***************************************************************************)
EXTENDS BusScan_proofs

\* The units of a task that have not ended
LeftOf(t, p) == IF t.pc = "done" THEN {}
                ELSE (IF t.pc = "new" THEN 1 ELSE t.unit) .. Units(t, p)
Left(ts) == {x \in Ports \X (1 .. 2 * UartConfigs) : x[2] \in LeftOf(ts[x[1]], x[1])}

Serial(ports) == Cardinality(ports \cap SerialPorts)
Tcp(ports) == Cardinality(ports \cap TcpPorts)

\* The units of the second part of a default scan
Later == IF scan.type = "default" /\ scan.kind = "fast"
         THEN SlowItems(Serial(scan.ports), Tcp(scan.ports)) ELSE 0

\* Nothing that would leave units undone
Smooth(m) == Errored(m) = {} /\ scan.ports \cap Malformed = {}

CountFits ==
    /\ mgr.current_item + Cardinality(Left(tasks)) + Later <= mgr.total_items
    /\ Smooth(mgr) /\ ~scan.cancel
           => mgr.current_item + Cardinality(Left(tasks)) + Later = mgr.total_items
-----------------------------------------------------------------------------
(* How many units there are                                                *)

LEMMA CountType ==
    ASSUME NEW ports \in SUBSET Ports
    PROVE  /\ IsFiniteSet(ports \cap SerialPorts) /\ Serial(ports) \in Nat
           /\ IsFiniteSet(ports \cap TcpPorts) /\ Tcp(ports) \in Nat
           /\ SlowItems(Serial(ports), Tcp(ports)) \in Nat
<1>1. IsFiniteSet(ports \cap SerialPorts) /\ IsFiniteSet(ports \cap TcpPorts)
  BY ScanConstants, FS_Subset
<1>2. Serial(ports) \in Nat /\ Tcp(ports) \in Nat
  BY <1>1, FS_CardinalityType DEF Serial, Tcp
<1>3. \A a, b, c \in Nat : a * b + c \in Nat
  OBVIOUS
<1>. QED
  BY <1>1, <1>2, <1>3, StateConstants DEF SlowItems

LEMMA LeftFinite ==
    ASSUME NEW ts
    PROVE  IsFiniteSet(Left(ts)) /\ Cardinality(Left(ts)) \in Nat
<1>1. IsFiniteSet(1 .. 2 * UartConfigs)
  BY StateConstants, FS_Interval
<1>2. IsFiniteSet(Ports \X (1 .. 2 * UartConfigs))
  BY <1>1, ScanConstants, FS_Product
<1>3. Left(ts) \in SUBSET (Ports \X (1 .. 2 * UartConfigs))
  BY DEF Left
<1>. QED
  BY <1>2, <1>3, FS_Subset, FS_CardinalityType

LEMMA UnitsType ==
    ASSUME NEW t \in Tasks, NEW p \in Ports
    PROVE  Units(t, p) \in 1 .. 2 * UartConfigs
  BY StateConstants, TaskConstants DEF Units

\* The tasks of a new scan have all of the units before them.
NewTasks(kind, ooo, ports) ==
    [p \in Ports |-> IF p \in ports THEN NewTask(kind, ooo) ELSE DoneTask]

LEMMA LeftOfNew ==
    ASSUME NEW kind \in Kinds, NEW ooo \in OooCounts \cup {0}, NEW ports \in SUBSET Ports,
           NEW count \in 1 .. 2 * UartConfigs,
           \A p \in SerialPorts : Units(NewTask(kind, ooo), p) = count
    PROVE  Cardinality(Left(NewTasks(kind, ooo, ports))) = Serial(ports) * count + Tcp(ports)
<1> DEFINE ts == NewTasks(kind, ooo, ports)
           s == ports \cap SerialPorts
           t == ports \cap TcpPorts
<1>1. IsFiniteSet(s) /\ IsFiniteSet(t)
  BY CountType
<1>2. count \in Nat /\ IsFiniteSet(1 .. count) /\ Cardinality(1 .. count) = count
      /\ IsFiniteSet(1 .. 1) /\ Cardinality(1 .. 1) = 1
  <2>1. count \in Nat /\ count > 0
    BY StateConstants
  <2>2. \A n \in Nat : /\ IsFiniteSet(1 .. n)
                       /\ Cardinality(1 .. n) = IF 1 > n THEN 0 ELSE n - 1 + 1
    <3>. TAKE n \in Nat
    <3>1. 1 \in Int /\ n \in Int
      OBVIOUS
    <3>. QED
      BY <3>1, FS_Interval
  <2>3. count - 1 + 1 = count /\ ~(1 > count) /\ 1 \in Nat /\ 1 - 1 + 1 = 1 /\ ~(1 > 1)
    BY <2>1
  <2>. QED
    BY <2>1, <2>2, <2>3
<1>3. /\ IsFiniteSet(s \X (1 .. count))
      /\ Cardinality(s \X (1 .. count)) = Serial(ports) * count
  BY <1>1, <1>2, FS_Product DEF Serial
<1>4. IsFiniteSet(t \X (1 .. 1)) /\ Cardinality(t \X (1 .. 1)) = Tcp(ports)
  <2>1. IsFiniteSet(t \X (1 .. 1)) /\ Cardinality(t \X (1 .. 1)) = Tcp(ports) * 1
    BY <1>1, <1>2, FS_Product DEF Tcp
  <2>2. Tcp(ports) * 1 = Tcp(ports)
    <3>1. Tcp(ports) \in Nat
      BY CountType
    <3>. QED
      BY <3>1
  <2>. QED
    BY <2>1, <2>2
<1>5. \A p \in Ports : LeftOf(ts[p], p) = IF p \notin ports THEN {}
                                          ELSE IF p \in TcpPorts THEN 1 .. 1 ELSE 1 .. count
  <2>. TAKE p \in Ports
  <2>1. CASE p \notin ports
    <3>1. ts[p] = DoneTask /\ DoneTask.pc = "done"
      BY <2>1, DoneTaskGood DEF NewTasks
    <3>. QED
      BY <2>1, <3>1 DEF LeftOf
  <2>2. CASE p \in ports
    <3>1. ts[p] = NewTask(kind, ooo) /\ ts[p].pc = "new"
      BY <2>2 DEF NewTasks, NewTask
    <3>2. Units(ts[p], p) = IF p \in TcpPorts THEN 1 ELSE count
      BY <3>1 DEF Units, Ports
    <3>. QED
      BY <2>2, <3>1, <3>2 DEF LeftOf
  <2>. QED
    BY <2>1, <2>2
<1> HIDE DEF ts
<1>6. 1 .. count \subseteq 1 .. 2 * UartConfigs /\ 1 .. 1 \subseteq 1 .. 2 * UartConfigs
  BY StateConstants
<1>7. Left(ts) = (s \X (1 .. count)) \cup (t \X (1 .. 1))
  <2>1. ASSUME NEW x \in Left(ts)
        PROVE  x \in (s \X (1 .. count)) \cup (t \X (1 .. 1))
    <3>1. /\ x = <<x[1], x[2]>> /\ x[1] \in Ports
          /\ x[2] \in LeftOf(ts[x[1]], x[1])
      BY DEF Left
    <3>2. x[1] \in ports
      BY <1>5, <3>1
    <3>3. CASE x[1] \in TcpPorts
      BY <1>5, <3>1, <3>2, <3>3
    <3>4. CASE x[1] \notin TcpPorts
      BY <1>5, <3>1, <3>2, <3>4 DEF Ports
    <3>. QED
      BY <3>3, <3>4
  <2>2. ASSUME NEW p \in s, NEW i \in 1 .. count
        PROVE  <<p, i>> \in Left(ts)
    <3>1. p \in Ports /\ p \in ports /\ p \notin TcpPorts
      BY StateConstants DEF Ports
    <3>. QED
      BY <1>5, <1>6, <3>1 DEF Left
  <2>3. ASSUME NEW p \in t, NEW i \in 1 .. 1
        PROVE  <<p, i>> \in Left(ts)
    BY <1>5, <1>6 DEF Left, Ports
  <2>. QED
    BY <2>1, <2>2, <2>3
<1>8. (s \X (1 .. count)) \cap (t \X (1 .. 1)) = {}
  BY StateConstants
<1>9. Cardinality(Left(ts)) = Serial(ports) * count + Tcp(ports) - 0
  BY <1>3, <1>4, <1>7, <1>8, FS_Union, FS_EmptySet
<1>10. Serial(ports) * count \in Nat /\ Tcp(ports) \in Nat
  <2>1. \A a, b \in Nat : a * b \in Nat
    OBVIOUS
  <2>. QED
    BY <1>2, <2>1, CountType
<1>. QED
  BY <1>9, <1>10 DEF ts

LEMMA LeftOfKind ==
    ASSUME NEW kind \in Kinds, NEW ooo \in OooCounts \cup {0}, NEW ports \in SUBSET Ports
    PROVE  Cardinality(Left(NewTasks(kind, ooo, ports)))
             = CASE kind = "fast" -> FastItems(Serial(ports), Tcp(ports))
                 [] kind = "slow" -> SlowItems(Serial(ports), Tcp(ports))
                 [] kind = "boot" -> BootItems(Serial(ports), Tcp(ports), ooo)
<1> DEFINE count == IF kind = "fast" THEN FastConfigs
                    ELSE IF kind = "boot" /\ ooo > 0 THEN 2 * UartConfigs ELSE UartConfigs
<1>1. count \in 1 .. 2 * UartConfigs
  BY StateConstants, TaskConstants
<1>2. \A p \in SerialPorts : Units(NewTask(kind, ooo), p) = count
  BY StateConstants DEF Units, NewTask
<1> HIDE DEF count
<1>3. Cardinality(Left(NewTasks(kind, ooo, ports))) = Serial(ports) * count + Tcp(ports)
  BY <1>1, <1>2, LeftOfNew
<1>. QED
  BY <1>3 DEF count, Kinds, FastItems, SlowItems, BootItems
-----------------------------------------------------------------------------
(* What a step of a port task counts                                       *)

\* Nothing is counted, and no failed port is forgotten.
Steady(m, n) == /\ n.current_item = m.current_item /\ n.total_items = m.total_items
                /\ Errored(m) # {} => Errored(n) # {}

\* What is counted is the unit that ended; units are left undone only by a task
\* that was cancelled, is malformed or has reported its port.
StepCounts(m, step, t, p) ==
    /\ step.mgr.total_items = m.total_items
    /\ Errored(m) # {} => Errored(step.mgr) # {}
    /\ step.task.pc # "done" => ~step.task.cancel
    /\ \/ /\ step.mgr.current_item = m.current_item
          /\ LeftOf(step.task, p) = LeftOf(t, p)
       \/ /\ step.mgr.current_item = m.current_item
          /\ step.task.pc = "done"
          /\ t.cancel \/ p \in Malformed
       \/ /\ t.pc = "rpc" /\ step.mgr.current_item = NextItem(m)
          /\ LeftOf(step.task, p) = LeftOf(t, p) \ {t.unit}
       \/ /\ t.pc = "rpc" /\ step.mgr.current_item = NextItem(m)
          /\ step.task.pc = "done"
          /\ t.cancel \/ Errored(step.mgr) # {}

LEMMA AddScanningPortSteady ==
    ASSUME NEW m \in Managers, NEW item \in Items, NEW ext \in BOOLEAN
    PROVE  /\ AddScanningPort(m, item, ext) \in Managers
           /\ Steady(m, AddScanningPort(m, item, ext))
  BY AddScanningPortType DEF AddScanningPort, Put, Steady, Errored, Managers

LEMMA AddErrorPortSteady ==
    ASSUME NEW m \in Managers, NEW item \in Items
    PROVE  /\ AddErrorPort(m, item) \in Managers /\ Steady(m, AddErrorPort(m, item))
           /\ Errored(AddErrorPort(m, item)) # {}
<1> DEFINE n == AddErrorPort(m, item)
           ref == Len(m.ports_errored)
<1>1. m.ports_errored \in Objects /\ ref \in Nat \ {0}
  BY LastObjectReplaced DEF Managers
<1>2. /\ n.current_item = m.current_item /\ n.total_items = m.total_items
      /\ n.ports_errored = [m.ports_errored EXCEPT ![ref] = @ \cup {item}]
  BY DEF AddErrorPort, Put, Managers
<1>3. item \in Errored(n)
  BY <1>1, <1>2 DEF Errored, Objects
<1>. QED
  BY <1>2, <1>3, AddErrorPortType DEF Steady

LEMMA FoundSteady ==
    ASSUME NEW m \in Managers
    PROVE  /\ \A sn \in Sns : FoundDevice(m, sn) \in Managers /\ Steady(m, FoundDevice(m, sn))
           /\ \A devs \in FastReplies :
                  FoundDevices(m, devs) \in Managers /\ Steady(m, FoundDevices(m, devs))
<1>1. \A sn \in Sns : Steady(m, FoundDevice(m, sn))
  BY DEF FoundDevice, Put, Steady, Errored, Managers
<1>2. \A devs \in FastReplies : Steady(m, FoundDevices(m, devs))
  BY DEF FoundDevices, Steady, Errored, Managers
<1>. QED
  BY <1>1, <1>2, FoundDeviceType, FoundDevicesType, FastConstants

LEMMA RemoveScanningPortCounts ==
    ASSUME NEW m \in Managers, NEW item \in Items
    PROVE  LET n == RemoveScanningPort(m, item)
           IN  /\ n \in Managers
               /\ n.current_item = NextItem(m) /\ n.total_items = m.total_items
               /\ Errored(n) = Errored(m)
  BY RemoveScanningPortType DEF RemoveScanningPort, Put, Errored, Managers

\* What was told before the step does not matter to the count.
LEMMA SteadyCounts ==
    ASSUME NEW m, NEW n, Steady(m, n), NEW step, NEW t, NEW p, StepCounts(n, step, t, p)
    PROVE  StepCounts(m, step, t, p)
<1>1. NextItem(n) = NextItem(m)
  BY DEF Steady, NextItem
<1>. QED
  BY <1>1 DEF Steady, StepCounts

\* The task asks again, in the unit it is in.
LEMMA AsksLeft ==
    ASSUME NEW t \in Tasks, NEW p \in Ports, NEW turn, NEW stage
    PROVE  LET u == Asks(t, turn, stage)
           IN  u.pc = "rpc" /\ ~u.cancel /\ LeftOf(u, p) = t.unit .. Units(t, p)
<1> DEFINE u == Asks(t, turn, stage)
<1>1. u.pc = "rpc" /\ ~u.cancel /\ u.unit = t.unit /\ u.kind = t.kind /\ u.ooo = t.ooo
  BY DEF Asks, Tasks
<1>2. Units(u, p) = Units(t, p)
  BY <1>1 DEF Units
<1>. QED
  BY <1>1, <1>2 DEF LeftOf

LEMMA BeginUnitLeft ==
    ASSUME NEW m \in Managers, NEW t \in Tasks, NEW p \in Ports, NEW unit \in 1 .. Units(t, p)
    PROVE  LET step == BeginUnit(m, t, p, unit)
           IN  /\ step.mgr \in Managers /\ Steady(m, step.mgr)
               /\ step.task.pc = "rpc" /\ ~step.task.cancel
               /\ LeftOf(step.task, p) = unit .. Units(t, p)
<1> DEFINE u == [t EXCEPT !.unit = unit]
           added == AddScanningPort(m, Item(u, p), t.kind = "fast")
<1>1. Units(t, p) \in Nat
  BY StateConstants, TaskConstants DEF Units
<1>2. u \in Tasks /\ u.unit = unit /\ u.kind = t.kind /\ u.ooo = t.ooo
  BY <1>1 DEF Tasks
<1>3. Units(u, p) = Units(t, p)
  BY <1>2 DEF Units
<1>4. Item(u, p) \in Items
  BY <1>2, <1>3, UnitFacts
<1>5. added \in Managers /\ Steady(m, added)
  BY <1>4, AddScanningPortSteady
<1>6. /\ BeginUnit(m, t, p, unit).mgr = added
      /\ BeginUnit(m, t, p, unit).task = Asks(u, FirstTurn(u, p), FirstStage(t.kind))
  BY DEF BeginUnit
<1> HIDE DEF u, added
<1>. QED
  BY <1>2, <1>3, <1>5, <1>6, AsksLeft

LEMMA EndUnitCounts ==
    ASSUME NEW m \in Managers, NEW t \in Tasks, NEW p \in Ports,
           t.pc = "rpc", t.unit \in 1 .. Units(t, p)
    PROVE  StepCounts(m, EndUnit(m, t, p), t, p)
<1> DEFINE left == RemoveScanningPort(m, Item(t, p))
           step == EndUnit(m, t, p)
<1>1. /\ left \in Managers /\ left.current_item = NextItem(m)
      /\ left.total_items = m.total_items /\ Errored(left) = Errored(m)
  BY UnitFacts, RemoveScanningPortCounts
<1>2. Units(t, p) \in Nat /\ t.unit \in Nat
  BY StateConstants, TaskConstants DEF Units
<1>3. LeftOf(t, p) = t.unit .. Units(t, p)
  BY DEF LeftOf
<1>4. CASE t.unit < Units(t, p)
  <2>1. t.unit + 1 \in 1 .. Units(t, p)
        /\ (t.unit + 1) .. Units(t, p) = (t.unit .. Units(t, p)) \ {t.unit}
    BY <1>2, <1>4
  <2>2. step = BeginUnit(left, t, p, t.unit + 1)
    BY <1>4 DEF EndUnit
  <2> HIDE DEF left, step
  <2>3. /\ Steady(left, step.mgr) /\ step.task.pc = "rpc" /\ ~step.task.cancel
        /\ LeftOf(step.task, p) = (t.unit + 1) .. Units(t, p)
    BY <1>1, <2>1, <2>2, BeginUnitLeft
  <2>4. StepCounts(m, step, t, p)
    BY <1>1, <1>3, <2>1, <2>3 DEF StepCounts, Steady
  <2>. QED
    BY <2>4 DEF step
<1>5. CASE ~(t.unit < Units(t, p))
  <2>1. (t.unit .. Units(t, p)) \ {t.unit} = {}
    BY <1>2, <1>5
  <2>2. step.mgr = left /\ step.task = DoneTask
    BY <1>5 DEF EndUnit
  <2>3. LeftOf(step.task, p) = {} /\ step.task.pc = "done"
    BY <2>2, DoneTaskGood DEF LeftOf
  <2> HIDE DEF left, step
  <2>4. StepCounts(m, step, t, p)
    BY <1>1, <1>3, <2>1, <2>2, <2>3 DEF StepCounts
  <2>. QED
    BY <2>4 DEF step
<1>. QED
  BY <1>4, <1>5

LEMMA AsksCounts ==
    ASSUME NEW m, NEW t \in Tasks, NEW p \in Ports, t.pc = "rpc", NEW turn, NEW stage
    PROVE  StepCounts(m, [mgr |-> m, task |-> Asks(t, turn, stage)], t, p)
<1>1. LeftOf(t, p) = t.unit .. Units(t, p)
  BY DEF LeftOf
<1>. QED
  BY <1>1, AsksLeft DEF StepCounts

LEMMA NextTurnCounts ==
    ASSUME NEW m \in Managers, NEW t \in Tasks, NEW p \in Ports,
           t.pc = "rpc", t.unit \in 1 .. Units(t, p)
    PROVE  StepCounts(m, NextTurn(m, t, p), t, p)
<1>1. CASE t.turn < LastTurn(t, p)
  BY <1>1, AsksCounts DEF NextTurn
<1>2. CASE ~(t.turn < LastTurn(t, p))
  BY <1>2, EndUnitCounts DEF NextTurn
<1>. QED
  BY <1>1, <1>2

LEMMA CutCounts ==
    ASSUME NEW m, NEW t, NEW p \in Ports, t.cancel \/ p \in Malformed
    PROVE  StepCounts(m, [mgr |-> m, task |-> DoneTask], t, p)
  BY DoneTaskGood DEF StepCounts

LEMMA PortStepCounts ==
    ASSUME StateTypeOK, TaskTypeOK, TasksInRange, NEW p \in Ports, PortStep(p)
    PROVE  \E step : Moves(p, step) /\ StepCounts(mgr, step, tasks[p], p)
<1> DEFINE t == tasks[p]
           item == Item(t, p)
<1>1. mgr \in Managers /\ t \in Tasks
  BY DEF StateTypeOK, TaskTypeOK
<1>2. ASSUME t.pc = "rpc"
      PROVE  /\ t.unit \in 1 .. Units(t, p) /\ item \in Items
             /\ t.kind = "boot" => t.turn \in 1 .. NumIds
  BY <1>1, <1>2, UnitFacts, StateConstants DEF TasksInRange, TaskInRange
<1>3. ASSUME t.pc = "rpc", NEW m \in Managers
      PROVE  /\ StepCounts(m, NextTurn(m, t, p), t, p)
             /\ StepCounts(m, EndUnit(m, t, p), t, p)
  BY <1>1, <1>2, <1>3, NextTurnCounts, EndUnitCounts
<1>4. ASSUME t.pc = "rpc"
      PROVE  AddErrorPort(mgr, item) \in Managers /\ Steady(mgr, AddErrorPort(mgr, item))
             /\ Errored(AddErrorPort(mgr, item)) # {}
  BY <1>1, <1>2, <1>4, AddErrorPortSteady
<1>5. CASE FirstStep(p)
  <2>1. t.pc = "new" /\ 1 \in 1 .. Units(t, p)
    BY <1>5, StateConstants, TaskConstants DEF FirstStep, Units
  <2>2. StepCounts(mgr, BeginUnit(mgr, t, p, 1), t, p)
    BY <1>1, <2>1, BeginUnitLeft DEF StepCounts, Steady, LeftOf
  <2>. QED
    BY <1>5, <2>2, CutCounts DEF FirstStep
<1>6. CASE FastStep(p)
  <2>1. t.pc = "rpc"
    BY <1>6 DEF FastStep, FastFindsNothing, FastFinds, FastFindsAndFails, FastFails,
                FastCancelled, Waits
  <2>2. ASSUME NEW m \in Managers
        PROVE  StepCounts(m, FailedUnit(m, t, p), t, p)
    BY <1>2, <1>3, <2>1, <2>2, AddErrorPortSteady, SteadyCounts DEF FailedUnit
  <2>3. \A devs \in FastReplies : /\ FoundDevices(mgr, devs) \in Managers
                                  /\ Steady(mgr, FoundDevices(mgr, devs))
    BY <1>1, FoundSteady
  <2>4. CASE FastFindsNothing(p)
    BY <1>1, <1>3, <2>1, <2>4 DEF FastFindsNothing
  <2>5. CASE FastFinds(p)
    <3>1. PICK devs \in FastReplies \ {<<>>} :
              Moves(p, [mgr |-> FoundDevices(mgr, devs), task |-> Asks(t, t.turn + 1, "scan")])
      BY <2>5 DEF FastFinds
    <3> DEFINE m == FoundDevices(mgr, devs)
               step == [mgr |-> m, task |-> Asks(t, t.turn + 1, "scan")]
    <3>2. StepCounts(m, step, t, p)
      BY <1>1, <2>1, AsksCounts
    <3>3. StepCounts(mgr, step, t, p)
      BY <2>3, <3>2, SteadyCounts
    <3>. QED
      BY <3>1, <3>3
  <2>6. CASE FastFindsAndFails(p)
    <3>1. PICK devs \in FastReplies \ {<<>>} :
              Moves(p, FailedUnit(FoundDevices(mgr, devs), t, p))
      BY <2>6 DEF FastFindsAndFails
    <3>2. StepCounts(mgr, FailedUnit(FoundDevices(mgr, devs), t, p), t, p)
      BY <2>2, <2>3, SteadyCounts
    <3>. QED
      BY <3>1, <3>2
  <2>7. CASE FastFails(p)
    BY <1>1, <2>2, <2>7 DEF FastFails
  <2>8. CASE FastCancelled(p)
    BY <2>8, CutCounts DEF FastCancelled, IsCancelled
  <2>. QED
    BY <1>6, <2>4, <2>5, <2>6, <2>7, <2>8 DEF FastStep
<1>7. CASE SlowStep(p)
  <2>1. t.pc = "rpc"
    BY <1>7 DEF SlowStep, SlowFinds, SlowFindsNothing, SlowFails, SlowCancelled, Waits
  <2>2. CASE SlowFinds(p)
    <3>1. PICK sn \in Serials :
              Moves(p, NextTurn(IF IsDeviceFound(mgr, sn) THEN mgr ELSE FoundDevice(mgr, sn),
                                t, p))
      BY <2>2 DEF SlowFinds
    <3>2. FoundDevice(mgr, sn) \in Managers /\ Steady(mgr, FoundDevice(mgr, sn))
      BY <1>1, FoundSteady DEF Sns
    <3>3. StepCounts(mgr, NextTurn(FoundDevice(mgr, sn), t, p), t, p)
      BY <1>3, <2>1, <3>2, SteadyCounts
    <3>. QED
      BY <1>1, <1>3, <2>1, <3>1, <3>3
  <2>3. CASE SlowFindsNothing(p)
    BY <1>1, <1>3, <2>1, <2>3 DEF SlowFindsNothing
  <2>4. CASE SlowFails(p)
    <3> DEFINE m == AddErrorPort(mgr, item)
               step == [mgr |-> RemoveScanningPort(m, item), task |-> DoneTask]
    <3>1. /\ step.mgr.current_item = NextItem(m) /\ step.mgr.total_items = m.total_items
          /\ Errored(step.mgr) = Errored(m)
      BY <1>2, <1>4, <2>1, RemoveScanningPortCounts
    <3>2. step.task.pc = "done"
      BY DoneTaskGood
    <3>3. Moves(p, step)
      BY <2>4 DEF SlowFails
    <3> HIDE DEF m, step
    <3>4. Errored(m) # {} /\ Steady(mgr, m)
      BY <1>4, <2>1 DEF m
    <3>5. StepCounts(m, step, t, p)
      BY <2>1, <3>1, <3>2, <3>4 DEF StepCounts
    <3>. QED
      BY <3>3, <3>4, <3>5, SteadyCounts
  <2>5. CASE SlowCancelled(p)
    <3> DEFINE step == [mgr |-> RemoveScanningPort(mgr, item), task |-> DoneTask]
    <3>1. /\ step.mgr.current_item = NextItem(mgr) /\ step.mgr.total_items = mgr.total_items
          /\ Errored(step.mgr) = Errored(mgr)
      BY <1>1, <1>2, <2>1, RemoveScanningPortCounts
    <3>2. step.task.pc = "done"
      BY DoneTaskGood
    <3>3. Moves(p, step) /\ t.cancel
      BY <2>5 DEF SlowCancelled, IsCancelled
    <3> HIDE DEF step
    <3>4. StepCounts(mgr, step, t, p)
      BY <2>1, <3>1, <3>2, <3>3 DEF StepCounts
    <3>. QED
      BY <3>3, <3>4
  <2>. QED
    BY <1>7, <2>2, <2>3, <2>4, <2>5 DEF SlowStep
<1>8. CASE BootStep(p)
  <2>1. t.pc = "rpc" /\ t.kind = "boot"
    BY <1>8 DEF BootStep, BootReadsFull, BootReadsNoFull, BootReadsShort, BootIsSilent,
                BootReadsSignature, BootFails, BootCancelled, BootWaits, Waits
  <2>2. BootSkips(p) => \E step : Moves(p, step) /\ StepCounts(mgr, step, t, p)
    BY <1>1, <1>3, <2>1 DEF BootSkips
  <2>3. BootFinds(p) => \E step : Moves(p, step) /\ StepCounts(mgr, step, t, p)
    <3> DEFINE m == FoundDevice(mgr, BootSn(t, p))
    <3>1. BootSn(t, p) \in Sns
      BY <1>2, <2>1 DEF BootSn, Sns
    <3>2. m \in Managers /\ Steady(mgr, m)
      BY <1>1, <3>1, FoundSteady
    <3>3. StepCounts(mgr, NextTurn(m, t, p), t, p)
      BY <1>3, <2>1, <3>2, SteadyCounts
    <3>. QED
      BY <3>3 DEF BootFinds
  <2>4. \A stage : BootAsks(p, stage)
                       => \E step : Moves(p, step) /\ StepCounts(mgr, step, t, p)
    BY <1>1, <2>1, AsksCounts DEF BootAsks
  <2>5. BootFails(p) => \E step : Moves(p, step) /\ StepCounts(mgr, step, t, p)
    BY <1>3, <1>4, <2>1, SteadyCounts DEF BootFails
  <2>6. BootCancelled(p) => \E step : Moves(p, step) /\ StepCounts(mgr, step, t, p)
    BY CutCounts DEF BootCancelled, IsCancelled
  <2>. QED
    BY <1>8, <2>2, <2>3, <2>4, <2>5, <2>6
       DEF BootStep, BootReadsFull, BootReadsNoFull, BootReadsShort, BootIsSilent,
           BootReadsSignature
<1>. QED
  BY <1>5, <1>6, <1>7, <1>8 DEF PortStep
-----------------------------------------------------------------------------
(* What a step of a port task leaves                                       *)

LEMMA LeftChanged ==
    ASSUME NEW ts \in [Ports -> Tasks], NEW p \in Ports, NEW task
    PROVE  LET new == Left([ts EXCEPT ![p] = task])
               now == LeftOf(ts[p], p)
           IN  /\ LeftOf(task, p) = now => new = Left(ts)
               /\ task.pc = "done" => Cardinality(new) <= Cardinality(Left(ts))
               /\ \A u \in now \cap (1 .. 2 * UartConfigs) :
                      /\ LeftOf(task, p) = now \ {u}
                             => Cardinality(new) = Cardinality(Left(ts)) - 1
                      /\ task.pc = "done" => Cardinality(new) <= Cardinality(Left(ts)) - 1
<1> DEFINE new == Left([ts EXCEPT ![p] = task])
           now == LeftOf(ts[p], p)
           old == Left(ts)
<1>1. /\ IsFiniteSet(old) /\ Cardinality(old) \in Nat
      /\ IsFiniteSet(new) /\ Cardinality(new) \in Nat
  BY LeftFinite
<1>2. \A x \in Ports \X (1 .. 2 * UartConfigs) :
          /\ x \in old <=> x[2] \in LeftOf(ts[x[1]], x[1])
          /\ x \in new <=> x[2] \in IF x[1] = p THEN LeftOf(task, p)
                                                ELSE LeftOf(ts[x[1]], x[1])
  BY DEF Left
<1>3. /\ old \subseteq Ports \X (1 .. 2 * UartConfigs)
      /\ new \subseteq Ports \X (1 .. 2 * UartConfigs)
  BY DEF Left
<1>4. task.pc = "done" => LeftOf(task, p) = {}
  BY DEF LeftOf
<1> HIDE DEF new, now, old
<1>5. LeftOf(task, p) = now => new = old
  BY <1>2, <1>3 DEF now
<1>6. task.pc = "done" => Cardinality(new) <= Cardinality(old)
  <2>1. task.pc = "done" => new \subseteq old
    BY <1>2, <1>3, <1>4
  <2>. QED
    BY <1>1, <2>1, FS_Subset
<1>7. ASSUME NEW u \in now \cap (1 .. 2 * UartConfigs)
      PROVE  /\ LeftOf(task, p) = now \ {u} => Cardinality(new) = Cardinality(old) - 1
             /\ task.pc = "done" => Cardinality(new) <= Cardinality(old) - 1
  <2> DEFINE rest == old \ {<<p, u>>}
  <2>1. <<p, u>> \in old
    <3>1. <<p, u>> \in Ports \X (1 .. 2 * UartConfigs)
      OBVIOUS
    <3>. QED
      BY <1>2, <3>1 DEF now
  <2>2. IsFiniteSet(rest) /\ Cardinality(rest) = Cardinality(old) - 1
    BY <1>1, <2>1, FS_RemoveElement
  <2>3. ASSUME LeftOf(task, p) = now \ {u}
        PROVE  new = rest
    <3>1. ASSUME NEW x \in Ports \X (1 .. 2 * UartConfigs)
          PROVE  x \in new <=> x \in rest
      <4>1. x = <<x[1], x[2]>>
        OBVIOUS
      <4>2. CASE x[1] = p
        BY <1>2, <2>3, <4>1, <4>2 DEF now
      <4>3. CASE x[1] # p
        BY <1>2, <4>1, <4>3
      <4>. QED
        BY <4>2, <4>3
    <3>. QED
      BY <1>3, <3>1
  <2>4. ASSUME task.pc = "done"
        PROVE  new \subseteq rest
    <3>1. ASSUME NEW x \in new
          PROVE  x \in old /\ x # <<p, u>>
      BY <1>2, <1>3, <1>4, <2>4, <3>1
    <3>. QED
      BY <3>1
  <2>. QED
    BY <1>1, <2>2, <2>3, <2>4, FS_Subset
<1>. QED
  BY <1>5, <1>6, <1>7 DEF new, now, old

\* As long as a task lives there is something left.
LEMMA LeftWhileAlive ==
    ASSUME TaskTypeOK, TasksInRange, NEW p \in Ports, Alive(p)
    PROVE  \E u \in LeftOf(tasks[p], p) \cap (1 .. 2 * UartConfigs) :
               tasks[p].pc = "rpc" => u = tasks[p].unit
<1>1. tasks[p] \in Tasks /\ Units(tasks[p], p) \in 1 .. 2 * UartConfigs
  BY UnitsType DEF TaskTypeOK
<1>2. CASE tasks[p].pc = "new"
  BY <1>1, <1>2, StateConstants DEF LeftOf
<1>3. CASE tasks[p].pc = "rpc"
  <2>1. tasks[p].unit \in 1 .. Units(tasks[p], p)
    BY <1>3 DEF TasksInRange, TaskInRange
  <2>. QED
    BY <1>1, <1>3, <2>1, StateConstants DEF LeftOf
<1>. QED
  BY <1>1, <1>2, <1>3 DEF Alive, Tasks

LEMMA LaterType == ASSUME scan \in ScanRecords PROVE Later \in Nat
  BY CountType DEF Later, ScanRecords

\* The unit that ends goes from what is left to what is counted.
LEMMA StepFits ==
    ASSUME IInv, CountFits, NEW p \in Ports, NEW step, Alive(p), Moves(p, step),
           mgr' \in Managers, UNCHANGED scan,
           StepCounts(mgr, step, tasks[p], p),
           p \in scan.ports, tasks[p].cancel => scan.cancel
    PROVE  CountFits'
<1> DEFINE t == tasks[p]
           left == Cardinality(Left(tasks))
           next == Cardinality(Left(tasks)')
<1>1. mgr' = step.mgr /\ tasks' = [tasks EXCEPT ![p] = step.task]
  BY DEF Moves
<1>2. /\ tasks \in [Ports -> Tasks] /\ TaskTypeOK /\ TasksInRange
      /\ mgr \in Managers /\ scan \in ScanRecords
  BY DEF IInv, TypeOK, TaskTypeOK, StateTypeOK
<1>3. left \in Nat /\ next \in Nat /\ Later \in Nat /\ Later' = Later
  <2>1. next = Cardinality(Left([tasks EXCEPT ![p] = step.task]))
    BY <1>1 DEF Left
  <2>. QED
    BY <1>2, <2>1, LeftFinite, LaterType DEF Later
<1>4. /\ mgr.current_item \in Nat /\ mgr.total_items \in Nat
      /\ mgr'.current_item \in Nat /\ mgr'.total_items \in Nat
  BY <1>2 DEF Managers
<1>5. PICK u \in LeftOf(t, p) \cap (1 .. 2 * UartConfigs) : t.pc = "rpc" => u = t.unit
  BY <1>2, LeftWhileAlive
<1>6. /\ LeftOf(step.task, p) = LeftOf(t, p) => next = left
      /\ step.task.pc = "done" => next <= left - 1
      /\ LeftOf(step.task, p) = LeftOf(t, p) \ {u} => next = left - 1
  <2>1. Left(tasks)' = Left([tasks EXCEPT ![p] = step.task])
    BY <1>1 DEF Left
  <2> DEFINE new == Left([tasks EXCEPT ![p] = step.task])
             now == LeftOf(t, p)
  <2>2. /\ LeftOf(step.task, p) = now => new = Left(tasks)
        /\ \A v \in now \cap (1 .. 2 * UartConfigs) :
               /\ LeftOf(step.task, p) = now \ {v} => Cardinality(new) = left - 1
               /\ step.task.pc = "done" => Cardinality(new) <= left - 1
    BY <1>2, LeftChanged
  <2>3. next = Cardinality(new)
    BY <2>1
  <2> HIDE DEF new, now, next
  <2>. QED
    BY <1>5, <2>2, <2>3 DEF now
<1>7. left >= 1
  <2>1. LeftOf([t EXCEPT !.pc = "done"], p) = {} /\ [t EXCEPT !.pc = "done"].pc = "done"
    BY <1>2 DEF LeftOf, Tasks
  <2>2. Cardinality(Left([tasks EXCEPT ![p] = [t EXCEPT !.pc = "done"]])) <= left - 1
    BY <1>2, <1>5, <2>1, LeftChanged
  <2>3. Cardinality(Left([tasks EXCEPT ![p] = [t EXCEPT !.pc = "done"]])) \in Nat
    BY LeftFinite
  <2>. QED
    BY <1>3, <2>2, <2>3
<1>8. NextItem(mgr) = mgr.current_item + 1
  BY <1>3, <1>4, <1>7 DEF CountFits, NextItem
<1>9. Smooth(mgr)' => Smooth(mgr) /\ p \notin Malformed /\ Errored(step.mgr) = {}
  BY <1>1 DEF StepCounts, Smooth
<1>10. /\ CountFits' <=>
            /\ mgr'.current_item + next + Later <= mgr'.total_items
            /\ Smooth(mgr)' /\ ~scan.cancel
                 => mgr'.current_item + next + Later = mgr'.total_items
       /\ mgr'.total_items = mgr.total_items
  BY <1>1, <1>3 DEF CountFits, StepCounts
<1>11. /\ mgr.current_item + left + Later <= mgr.total_items
       /\ Smooth(mgr) /\ ~scan.cancel
            => mgr.current_item + left + Later = mgr.total_items
  BY DEF CountFits
<1>12. \/ mgr'.current_item = mgr.current_item /\ LeftOf(step.task, p) = LeftOf(t, p)
       \/ /\ mgr'.current_item = mgr.current_item /\ step.task.pc = "done"
          /\ t.cancel \/ p \in Malformed
       \/ /\ mgr'.current_item = NextItem(mgr)
          /\ LeftOf(step.task, p) = LeftOf(t, p) \ {u}
       \/ /\ mgr'.current_item = NextItem(mgr) /\ step.task.pc = "done"
          /\ t.cancel \/ Errored(step.mgr) # {}
  BY <1>1, <1>5 DEF StepCounts
<1> HIDE DEF left, next, t
<1>13. CASE mgr'.current_item = mgr.current_item /\ next = left
  BY <1>9, <1>10, <1>11, <1>13
<1>14. CASE mgr'.current_item = mgr.current_item + 1 /\ next = left - 1
  BY <1>3, <1>4, <1>9, <1>10, <1>11, <1>14
<1>15. CASE /\ mgr'.current_item \in {mgr.current_item, mgr.current_item + 1}
            /\ next <= left - 1
            /\ scan.cancel \/ ~Smooth(mgr)'
  BY <1>3, <1>4, <1>10, <1>11, <1>15
<1>. QED
  BY <1>6, <1>8, <1>9, <1>12, <1>13, <1>14, <1>15 DEF t
-----------------------------------------------------------------------------
(* The invariant                                                           *)

\* The tasks there are belong to the scan, and only its own end ends them early.
ScansPorts == \A p \in Ports : Alive(p) => /\ p \in scan.ports
                                           /\ tasks[p].cancel => scan.cancel
AtLast == scan.ports # {} /\ Smooth(mgr) => mgr.current_item = mgr.total_items

CountInv ==
    /\ scan.pc = "gather" => CountFits /\ ScansPorts
    /\ scan.pc \in {"load", "ports"} => scan.ports = {}
    /\ Ended({"complete"}) => AtLast
CInv == IInv /\ CountInv

LEMMA InitCInv == Init => CInv
  BY InitIInv DEF CInv, CountInv, Init, NoScan, Ended

LEMMA ConsumerCInv ==
    ASSUME CInv, IInv', (ConsumerStarts \/ Consume) /\ UNCHANGED <<tasks, scanVars>>
    PROVE  CInv'
<1>1. UNCHANGED <<tasks, scan, ends>>
  BY DEF scanVars
<1>2. /\ mgr'.current_item = mgr.current_item /\ mgr'.total_items = mgr.total_items
      /\ mgr'.ports_errored = mgr.ports_errored
  BY DEF ConsumerStarts, Consume, CInv, IInv, TypeOK, StateTypeOK, Managers
<1>3. Smooth(mgr)' = Smooth(mgr) /\ Later' = Later
  BY <1>1, <1>2 DEF Smooth, Errored, Later
<1>. QED
  BY <1>1, <1>2, <1>3
     DEF CInv, CountInv, CountFits, Left, ScansPorts, Alive, AtLast, Ended, LastEnd

LEMMA PortCInv ==
    ASSUME CInv, IInv', NEW p \in Ports, (Answer(p) \/ PortStep(p)) /\ UNCHANGED scanVars
    PROVE  CInv'
<1>1. UNCHANGED <<scan, ends>>
  BY DEF scanVars
<1>2. /\ StateTypeOK /\ TaskTypeOK /\ TasksInRange /\ tasks \in [Ports -> Tasks]
      /\ mgr' \in Managers
  BY DEF CInv, IInv, TypeOK, TaskTypeOK, StateTypeOK
<1>3. Alive(p)
  BY <1>2, PortStepGood DEF Answer, Alive
<1>4. scan.pc = "gather" /\ CountFits /\ ScansPorts
  BY <1>3 DEF CInv, IInv, NoOrphanTasks, AllDone, CountInv
<1>5. CASE Answer(p)
  <2>1. tasks' = [tasks EXCEPT ![p].answered = TRUE] /\ mgr' = mgr
    BY <1>5 DEF Answer, stateVars
  <2>2. \A q \in Ports : /\ tasks'[q].pc = tasks[q].pc /\ tasks'[q].cancel = tasks[q].cancel
                         /\ LeftOf(tasks[q], q)' = LeftOf(tasks[q], q)
    BY <1>2, <2>1 DEF Tasks, LeftOf, Units
  <2>3. Left(tasks)' = Left(tasks)
    BY <2>2 DEF Left
  <2>4. CountFits' /\ ScansPorts'
    BY <1>1, <1>4, <2>1, <2>2, <2>3 DEF CountFits, Smooth, Later, ScansPorts, Alive
  <2>. QED
    BY <1>1, <1>4, <2>4 DEF CInv, CountInv, Ended
<1>6. CASE PortStep(p)
  <2>1. PICK step : Moves(p, step) /\ StepCounts(mgr, step, tasks[p], p)
    BY <1>2, <1>6, PortStepCounts
  <2>2. CountFits'
    BY <1>1, <1>2, <1>3, <1>4, <2>1, StepFits DEF CInv, ScansPorts
  <2>3. ScansPorts'
    BY <1>1, <1>2, <1>3, <1>4, <2>1 DEF Moves, StepCounts, ScansPorts, Alive
  <2>. QED
    BY <1>1, <1>4, <2>2, <2>3 DEF CInv, CountInv, Ended
<1>. QED
  BY <1>5, <1>6

LEMMA RequestCInv ==
    ASSUME CInv, IInv', PortsAnswered \/ \E c \in Clients : Request(c) \/ StopReturns(c)
    PROVE  CInv'
<1>1. UNCHANGED mgr
  BY DEF PortsAnswered, Request, Start, StartRefused, Stop, StopRefused, StopReturns, stateVars
<1>2. CASE PortsAnswered
  BY <1>2 DEF PortsAnswered, CInv, CountInv, IInv, TypeOK, ScanRecords, Ended
<1>3. ASSUME NEW c \in Clients, Start(c)
      PROVE  CInv'
  <2>1. /\ scan'.pc \in {"new", "load"}
        /\ scan'.pc = "load" => scan'.ports = {}
    BY <1>3 DEF Start, NoScan
  <2>. QED
    BY <2>1 DEF CInv, CountInv, Ended
<1>4. ASSUME NEW c \in Clients, Stop(c)
      PROVE  CInv'
  <2>1. /\ scan' = [scan EXCEPT !.cancel = TRUE] /\ scan \in ScanRecords
        /\ tasks' = Cancelled(tasks) /\ tasks \in [Ports -> Tasks]
        /\ ScanAlive /\ UNCHANGED ends
    BY <1>4 DEF Stop, CInv, IInv, TypeOK, TaskTypeOK
  <2>2. /\ scan'.pc = scan.pc /\ scan'.ports = scan.ports /\ scan'.type = scan.type
        /\ scan'.kind = scan.kind /\ scan'.cancel
    BY <2>1 DEF ScanRecords
  <2>3. \A q \in Ports : tasks'[q].pc = tasks[q].pc
                         /\ LeftOf(tasks[q], q)' = LeftOf(tasks[q], q)
    BY <2>1 DEF Tasks, LeftOf, Units, Cancelled
  <2>4. Left(tasks)' = Left(tasks)
    BY <2>3 DEF Left
  <2>5. scan.pc = "gather" => CountFits' /\ ScansPorts'
    BY <1>1, <2>2, <2>3, <2>4
       DEF CInv, CountInv, CountFits, Smooth, Later, ScansPorts, Alive
  <2>. QED
    BY <2>1, <2>2, <2>5 DEF CInv, CountInv, Ended, ScanAlive
<1>5. ASSUME NEW c \in Clients, StartRefused(c) \/ StopRefused(c) \/ StopReturns(c)
      PROVE  CInv'
  <2>1. UNCHANGED <<tasks, scan, ends>>
    BY <1>5 DEF StartRefused, StopRefused, StopReturns
  <2>2. Smooth(mgr)' = Smooth(mgr) /\ Later' = Later
    BY <1>1, <2>1 DEF Smooth, Later
  <2>. QED
    BY <1>1, <2>1, <2>2
       DEF CInv, CountInv, CountFits, Left, ScansPorts, Alive, AtLast, Ended, LastEnd
<1>. QED
  BY <1>2, <1>3, <1>4, <1>5 DEF Request
-----------------------------------------------------------------------------
(* The scan task                                                           *)

\* What the scan task does to the count, as it ends ...
LEMMA FinishesCount ==
    ASSUME TypeOK, ends # <<>>, NEW m, NEW result, ScanMoves(Finishes(m, result)),
           result = "complete" => AtLast'
    PROVE  CountInv'
<1>1. /\ scan' = [scan EXCEPT !.pc = "done", !.answered = FALSE, !.cancel = FALSE]
      /\ ends' = [ends EXCEPT ![Len(ends)] = result]
  BY DEF ScanMoves, Finishes
<1>2. scan'.pc = "done"
  BY <1>1 DEF TypeOK, ScanRecords
<1>3. LastEnd' = result
  BY <1>1 DEF TypeOK, LastEnd
<1>. QED
  BY <1>2, <1>3 DEF CountInv, Ended

\* ... and as it makes the tasks of a scan, or of the second part of one.
LEMMA GathersCount ==
    ASSUME TypeOK, NEW m \in Managers, NEW kind \in Kinds, NEW ports \in SUBSET Ports,
           ScanMoves(Gathers(m, kind, ports)),
           NEW left, left = Cardinality(Left(NewTasks(kind, scan.ooo, ports))),
           NEW later, later = IF scan.type = "default" /\ kind = "fast"
                              THEN SlowItems(Serial(ports), Tcp(ports)) ELSE 0,
           m.current_item + left + later <= m.total_items,
           Errored(m) = {} /\ ports \cap Malformed = {}
               => m.current_item + left + later = m.total_items
    PROVE  CountInv'
<1>1. /\ mgr' = m /\ tasks' = NewTasks(kind, scan.ooo, ports)
      /\ scan' = [scan EXCEPT !.pc = "gather", !.kind = kind, !.ports = ports,
                              !.answered = FALSE, !.cancel = FALSE]
  BY DEF ScanMoves, Gathers, NewTasks
<1>2. scan'.pc = "gather" /\ scan'.kind = kind /\ scan'.ports = ports
      /\ scan'.type = scan.type
  BY <1>1 DEF TypeOK, ScanRecords
<1>3. Cardinality(Left(tasks))' = left
  BY <1>1 DEF Left
<1>4. Later' = later
  BY <1>2 DEF Later
<1>5. Smooth(mgr)' => Errored(m) = {} /\ ports \cap Malformed = {}
  BY <1>1, <1>2 DEF Smooth
<1>6. CountFits'
  BY <1>1, <1>3, <1>4, <1>5 DEF CountFits
<1>7. ScansPorts'
  <2>1. \A p \in Ports : /\ p \in ports => ~tasks'[p].cancel
                         /\ p \notin ports => tasks'[p].pc = "done"
    BY <1>1, DoneTaskGood DEF NewTasks, NewTask
  <2>. QED
    BY <1>2, <2>1 DEF ScansPorts, Alive
<1>. QED
  BY <1>2, <1>6, <1>7 DEF CountInv, Ended

\* The count announced is the number of units of the tasks made, now and later.
LEMMA ScansCount ==
    ASSUME TypeOK, ends # <<>>, NEW m \in Managers, NEW ports \in SUBSET Ports,
           scan.ports \subseteq ports, ScanMoves(Scans(m, ports))
    PROVE  CountInv'
<1> DEFINE items == ItemsCount(ports)
           serial == Serial(ports)
           tcp == Tcp(ports)
<1>1. scan \in ScanRecords /\ items \in Nat /\ serial \in Nat /\ tcp \in Nat
      /\ SlowItems(serial, tcp) \in Nat
  BY ItemsCountType, CountType DEF TypeOK
<1>2. /\ scan.type \in {"extended", "standard", "bootloader", "default"}
      /\ scan.ooo \in OooCounts \cup {0}
  BY <1>1 DEF ScanRecords
<1>3. items = CASE scan.type = "extended" -> FastItems(serial, tcp)
                [] scan.type = "standard" -> SlowItems(serial, tcp)
                [] scan.type = "bootloader" -> BootItems(serial, tcp, scan.ooo)
                [] scan.type = "default" -> FastItems(serial, tcp) + SlowItems(serial, tcp)
  BY DEF ItemsCount, Serial, Tcp
<1>4. CASE items > 0
  <2> DEFINE n == SetScanItemsCount(m, items)
             left == Cardinality(Left(NewTasks(FirstKind, scan.ooo, ports)))
             later == IF scan.type = "default" /\ FirstKind = "fast"
                      THEN SlowItems(serial, tcp) ELSE 0
  <2>1. n \in Managers /\ n.current_item = 0 /\ n.total_items = items
    BY <1>1, SetScanItemsCountType DEF SetScanItemsCount, Managers
  <2>2. FirstKind \in Kinds
    BY <1>2 DEF FirstKind, Kinds
  <2>3. left = CASE FirstKind = "fast" -> FastItems(serial, tcp)
                 [] FirstKind = "slow" -> SlowItems(serial, tcp)
                 [] FirstKind = "boot" -> BootItems(serial, tcp, scan.ooo)
    BY <1>2, <2>2, LeftOfKind
  <2>4. left \in Nat /\ later \in Nat
    BY <1>1, LeftFinite
  <2>5. left + later = items
    <3> HIDE DEF left, items, serial, tcp
    <3>1. CASE scan.type = "default"
      BY <1>3, <2>3, <3>1 DEF FirstKind, serial, tcp
    <3>2. CASE scan.type # "default"
      <4>1. later = 0 /\ left = items
        BY <1>2, <1>3, <2>3, <3>2 DEF FirstKind
      <4>. QED
        BY <2>4, <4>1
    <3>. QED
      BY <3>1, <3>2
  <2>6. ScanMoves(Gathers(n, FirstKind, ports))
    BY <1>4 DEF Scans
  <2> HIDE DEF n, left, items
  <2>7. n.current_item + left + later = n.total_items
        /\ n.current_item + left + later <= n.total_items
    BY <1>1, <2>1, <2>4, <2>5
  <2>. QED
    BY <2>1, <2>2, <2>6, <2>7, GathersCount DEF left
<1>5. CASE ~(items > 0) /\ scan.type = "bootloader"
  <2>1. ScanMoves(Finishes(ScanFinished(m, GenericError), "failed"))
    BY <1>5 DEF Scans
  <2>. QED
    BY <2>1, FinishesCount
<1>6. CASE ~(items > 0) /\ scan.type # "bootloader"
  <2>1. ScanMoves(Finishes(ScanComplete(m), "complete"))
    BY <1>6 DEF Scans
  <2>2. serial = 0 /\ tcp = 0
    <3>1. UartConfigs \in Nat \ {0} /\ FastConfigs \in Nat \ {0}
      BY StateConstants, TaskConstants
    <3>2. \A a, b, c \in Nat : b # 0 /\ a * b + c = 0 => a = 0 /\ c = 0
      <4>. TAKE a, b, c \in Nat
      <4>1. a * b \in Nat /\ (a # 0 /\ b # 0 => a * b # 0)
        OBVIOUS
      <4>. QED
        BY <4>1
    <3>3. serial * FastConfigs + tcp \in Nat
      <4>1. \A a, b, c \in Nat : a * b + c \in Nat
        OBVIOUS
      <4>. QED
        BY <1>1, <3>1, <4>1
    <3>4. items = 0
      BY <1>1, <1>6
    <3> HIDE DEF serial, tcp, items
    <3>5. \/ serial * FastConfigs + tcp = 0
          \/ serial * UartConfigs + tcp = 0
      BY <1>1, <1>2, <1>3, <1>6, <3>3, <3>4 DEF FastItems, SlowItems
    <3>. QED
      BY <1>1, <3>1, <3>2, <3>5
  <2>3. ports = {}
    <3>1. ports \cap SerialPorts = {} /\ ports \cap TcpPorts = {}
      BY <2>2, CountType, FS_EmptySet DEF Serial, Tcp
    <3>. QED
      BY <3>1 DEF Ports
  <2>4. scan'.ports = {}
    BY <1>1, <2>1, <2>3 DEF ScanMoves, Finishes, ScanRecords
  <2>. QED
    BY <2>1, <2>4, FinishesCount DEF AtLast
<1>. QED
  BY <1>4, <1>5, <1>6

LEMMA NothingLeft ==
    ASSUME AllDone
    PROVE  Cardinality(Left(tasks)) = 0
<1>1. Left(tasks) = {}
  BY DEF Left, LeftOf, AllDone, Alive
<1>. QED
  BY <1>1, FS_EmptySet

LEMMA ScanCInv ==
    ASSUME CInv, IInv', ScanStep
    PROVE  CInv'
<1>1. /\ TypeOK /\ mgr \in Managers /\ scan \in ScanRecords
      /\ mgr.current_item \in Nat /\ mgr.total_items \in Nat
  BY DEF CInv, IInv, TypeOK, StateTypeOK, Managers
<1>2. ScanAlive /\ ends # <<>>
  BY ScanStepGood DEF CInv, IInv, ScanAlive
<1>3. \A m : \A result \in Results \ {"complete"} :
          ScanMoves(Finishes(m, result)) => CountInv'
  BY <1>1, <1>2, FinishesCount
<1>4. CASE ScanBegins
  <2>1. Reset(mgr, scan.preserve) \in Managers /\ scan.ports \in SUBSET Ports
    BY <1>1, ResetType DEF ScanRecords
  <2>. QED
    BY <1>1, <1>2, <1>4, <2>1, ScansCount DEF ScanBegins, CInv
<1>5. CASE ScanAsksForPorts
  <2>1. scan.pc = "load" /\ scan' = [scan EXCEPT !.pc = "ports"]
    BY <1>5 DEF ScanAsksForPorts, ScanMoves
  <2>2. scan'.pc = "ports" /\ scan'.ports = {}
    BY <1>1, <2>1 DEF CInv, CountInv, ScanRecords
  <2>. QED
    BY <2>2 DEF CInv, CountInv, Ended
<1>6. CASE PortsLoaded
  <2>1. PICK ports \in PortLists : ScanMoves(Scans(mgr, ports))
    BY <1>6 DEF PortsLoaded
  <2>2. ports \in SUBSET Ports /\ scan.ports = {}
    BY <1>6, ScanConstants DEF PortsLoaded, HasPorts, CInv, CountInv
  <2>. QED
    BY <1>1, <1>2, <2>1, <2>2, ScansCount DEF CInv
<1>7. CASE ScanNeverRuns \/ PortsTimeOut \/ PortsFail \/ PortsCancelled \/ GatherCancelled
  BY <1>3, <1>7 DEF ScanNeverRuns, PortsTimeOut, PortsFail, PortsCancelled, GatherCancelled,
                    Results, CInv
<1>8. CASE GatherReturns
  <2>1. /\ scan.pc = "gather" /\ AllDone /\ ~scan.cancel
        /\ mgr.current_item + 0 + Later <= mgr.total_items
        /\ Smooth(mgr) => mgr.current_item + 0 + Later = mgr.total_items
    BY <1>8, NothingLeft DEF GatherReturns, CInv, CountInv, CountFits
  <2>2. CASE scan.type = "default" /\ scan.kind = "fast"
    <3> DEFINE later == SlowItems(Serial(scan.ports), Tcp(scan.ports))
               left == Cardinality(Left(NewTasks("slow", scan.ooo, scan.ports)))
    <3>1. ScanMoves(Gathers(mgr, "slow", scan.ports))
      BY <1>8, <2>2 DEF GatherReturns
    <3>2. /\ scan.ports \in SUBSET Ports /\ scan.ooo \in OooCounts \cup {0}
          /\ "slow" \in Kinds
      BY <1>1 DEF ScanRecords, Kinds
    <3>3. Later = later /\ later \in Nat
      BY <2>2, <3>2, CountType DEF Later
    <3>4. left = later
      BY <3>2, LeftOfKind
    <3> HIDE DEF left, later
    <3>5. /\ mgr.current_item + left + 0 <= mgr.total_items
          /\ Errored(mgr) = {} /\ scan.ports \cap Malformed = {}
                 => mgr.current_item + left + 0 = mgr.total_items
      BY <1>1, <2>1, <3>3, <3>4 DEF Smooth
    <3>. QED
      BY <1>1, <3>1, <3>2, <3>5, GathersCount DEF left, CInv
  <2>3. CASE ~(scan.type = "default" /\ scan.kind = "fast")
    <3>1. ScanMoves(Finishes(ScanComplete(mgr), "complete"))
      BY <1>8, <2>3 DEF GatherReturns
    <3>2. Smooth(mgr) => mgr.current_item = mgr.total_items
      BY <1>1, <2>1, <2>3 DEF Later
    <3>3. /\ mgr'.current_item = mgr.current_item /\ mgr'.total_items = mgr.total_items
          /\ mgr'.ports_errored = mgr.ports_errored /\ scan'.ports = scan.ports
      BY <1>1, <3>1 DEF ScanMoves, Finishes, ScanComplete, Put, Managers, ScanRecords
    <3>. QED
      BY <1>1, <1>2, <3>1, <3>2, <3>3, FinishesCount DEF AtLast, Smooth, Errored, CInv
  <2>. QED
    BY <2>2, <2>3
<1>. QED
  BY <1>4, <1>5, <1>6, <1>7, <1>8 DEF ScanStep

\* Every step of every task and of every client preserves CInv.
THEOREM CountInvariance == Spec => []CInv
<1>1. CInv /\ UNCHANGED vars => CountInv'
  BY DEF vars, stateVars, CInv, CountInv, CountFits, Left, LeftOf, Units, Later, Smooth, Errored,
         ScansPorts, Alive, AtLast, Ended, LastEnd
<1>2. CInv /\ IInv' /\ Next => CInv'
  BY ConsumerCInv, PortCInv, ScanCInv, RequestCInv DEF Next
<1>3. CInv /\ IInv' /\ [Next]_vars => CInv'
  BY <1>1, <1>2 DEF CInv
<1>. QED
  BY <1>3, InitCInv, Invariance, PTL DEF Spec

\* A completed scan in which no port failed and none was malformed has counted
\* every unit it announced, and as long as a port is scanned there is one more to
\* come: whatever the numbers of ports, settings and ids.
THEOREM CountReached == Spec => []ProgressReachesEnd
<1>1. ASSUME CInv
      PROVE  ProgressReachesEnd
  <2>1. ASSUME scan.pc = "gather", ~AllDone
        PROVE  mgr.current_item < mgr.total_items
    <3>1. PICK p \in Ports : Alive(p)
      BY <2>1 DEF AllDone
    <3>2. Cardinality(Left(tasks)) \in Nat \ {0}
      <4>1. PICK u \in LeftOf(tasks[p], p) : u \in 1 .. 2 * UartConfigs
        BY <1>1, <3>1, LeftWhileAlive DEF CInv, IInv, TypeOK
      <4>2. <<p, u>> \in Left(tasks)
        BY <4>1 DEF Left
      <4>. QED
        BY <4>2, LeftFinite, FS_EmptySet
    <3>3. /\ mgr.current_item \in Nat /\ mgr.total_items \in Nat /\ Later \in Nat
      BY <1>1, LaterType DEF CInv, IInv, TypeOK, StateTypeOK, Managers
    <3>4. mgr.current_item + Cardinality(Left(tasks)) + Later <= mgr.total_items
      BY <1>1, <2>1 DEF CInv, CountInv, CountFits
    <3>. QED
      BY <3>2, <3>3, <3>4
  <2>. QED
    BY <1>1, <2>1 DEF ProgressReachesEnd, CInv, CountInv, AtLast, Smooth
<1>. QED
  BY <1>1, CountInvariance, PTL
=============================================================================
