---------------------------- MODULE BusScan_forward ----------------------------
(***************************************************************************)
(* A scan only goes forward, for any ports, settings, slave ids, clients,  *)
(* scan types and bounds: what the provers can say of why it ends.         *)
(***************************************************************************)
EXTENDS BusScan_proofs

-----------------------------------------------------------------------------
(* The step of a port task                                                 *)

LEMMA AsksKeeps ==
    ASSUME NEW t \in Tasks, NEW turn, NEW stage
    PROVE  LET u == Asks(t, turn, stage)
           IN  u.pc = "rpc" /\ u.unit = t.unit /\ u.turn = turn /\ u.stage = stage
  BY DEF Asks, Tasks

LEMMA BeginUnitRuns ==
    ASSUME NEW m, NEW t \in Tasks, NEW p \in Ports, NEW unit \in Nat
    PROVE  LET u == BeginUnit(m, t, p, unit).task
           IN  u.pc = "rpc" /\ u.unit = unit
<1> DEFINE v == [t EXCEPT !.unit = unit]
<1>1. v \in Tasks /\ v.unit = unit
  BY DEF Tasks
<1>2. BeginUnit(m, t, p, unit).task = Asks(v, FirstTurn(v, p), FirstStage(t.kind))
  BY DEF BeginUnit
<1> HIDE DEF v
<1>. QED
  BY <1>1, <1>2, AsksKeeps

LEMMA EndUnitFurther ==
    ASSUME NEW m, NEW t \in Tasks, t.pc = "rpc", NEW p \in Ports
    PROVE  Further(t, EndUnit(m, t, p).task)
<1>1. t.unit \in Nat /\ t.unit + 1 \in Nat /\ t.unit < t.unit + 1
  BY DEF Tasks
<1>2. CASE t.unit < Units(t, p)
  <2>1. EndUnit(m, t, p) = BeginUnit(RemoveScanningPort(m, Item(t, p)), t, p, t.unit + 1)
    BY <1>2 DEF EndUnit
  <2>. QED
    BY <1>1, <2>1, BeginUnitRuns DEF Further
<1>3. CASE ~(t.unit < Units(t, p))
  BY <1>3, DoneTaskGood DEF EndUnit, Further
<1>. QED
  BY <1>2, <1>3

LEMMA NextTurnFurther ==
    ASSUME NEW m, NEW t \in Tasks, t.pc = "rpc", NEW p \in Ports
    PROVE  Further(t, NextTurn(m, t, p).task)
<1>1. t.turn < t.turn + 1
  BY DEF Tasks
<1>2. CASE t.turn < LastTurn(t, p)
  BY <1>1, <1>2, AsksKeeps DEF NextTurn, Further
<1>3. CASE ~(t.turn < LastTurn(t, p))
  BY <1>3, EndUnitFurther DEF NextTurn
<1>. QED
  BY <1>2, <1>3

\* Whatever a port task does brings it further.
LEMMA PortStepFurther ==
    ASSUME TaskTypeOK, NEW p \in Ports, PortStep(p)
    PROVE  \E step : Moves(p, step) /\ Further(tasks[p], step.task)
<1> DEFINE t == tasks[p]
           Advances == \E step : Moves(p, step) /\ Further(t, step.task)
<1>1. t \in Tasks
  BY DEF TaskTypeOK
<1>2. \A m : Further(t, [mgr |-> m, task |-> DoneTask].task)
  BY DoneTaskGood DEF Further
<1>3. ASSUME FirstStep(p)
      PROVE  Advances
  <2>1. t.pc = "new"
    BY <1>3 DEF FirstStep
  <2>2. Further(t, BeginUnit(mgr, t, p, 1).task)
    BY <1>1, <2>1, BeginUnitRuns DEF Further
  <2>. QED
    BY <1>2, <1>3, <2>2 DEF FirstStep
<1>4. ASSUME t.pc = "rpc"
      PROVE  \A m : /\ Further(t, EndUnit(m, t, p).task)
                    /\ Further(t, NextTurn(m, t, p).task)
  BY <1>1, <1>4, EndUnitFurther, NextTurnFurther
<1>5. ASSUME FastStep(p)
      PROVE  Advances
  <2>1. t.pc = "rpc"
    BY <1>5 DEF FastStep, FastFindsNothing, FastFinds, FastFindsAndFails, FastFails,
                FastCancelled, Waits
  <2>2. \A m : Further(t, [mgr |-> m, task |-> Asks(t, t.turn + 1, "scan")].task)
    <3>1. t.turn < t.turn + 1
      BY <1>1 DEF Tasks
    <3>. QED
      BY <1>1, <2>1, <3>1, AsksKeeps DEF Further
  <2>. QED
    BY <1>2, <1>4, <1>5, <2>1, <2>2
       DEF FastStep, FastFindsNothing, FastFinds, FastFindsAndFails, FastFails, FastCancelled,
           FailedUnit
<1>6. ASSUME SlowStep(p)
      PROVE  Advances
  <2>1. t.pc = "rpc"
    BY <1>6 DEF SlowStep, SlowFinds, SlowFindsNothing, SlowFails, SlowCancelled, Waits
  <2>. QED
    BY <1>2, <1>4, <1>6, <2>1
       DEF SlowStep, SlowFinds, SlowFindsNothing, SlowFails, SlowCancelled
<1>7. ASSUME BootStep(p)
      PROVE  Advances
  <2>1. t.pc = "rpc"
    BY <1>7 DEF BootStep, BootReadsFull, BootReadsNoFull, BootReadsShort, BootIsSilent,
                BootReadsSignature, BootFails, BootCancelled, BootWaits, Waits
  <2>2. CASE BootReadsFull(p)
    <3>1. t.stage = "read_full" /\ BootAsks(p, "read_short")
      BY <2>2 DEF BootReadsFull, BootWaits
    <3>2. Further(t, Asks(t, t.turn, "read_short"))
      BY <1>1, <2>1, <3>1, AsksKeeps DEF Further, Read
    <3>. QED
      BY <3>1, <3>2 DEF BootAsks
  <2>3. CASE BootIsSilent(p)
    <3>1. t.stage = "read_short" /\ (BootSkips(p) \/ BootAsks(p, "read_signature"))
      BY <2>3 DEF BootIsSilent, BootWaits
    <3>2. Further(t, Asks(t, t.turn, "read_signature"))
      BY <1>1, <2>1, <3>1, AsksKeeps DEF Further, Read
    <3>. QED
      BY <1>4, <2>1, <3>1, <3>2 DEF BootAsks, BootSkips
  <2>4. CASE BootReadsNoFull(p) \/ BootReadsShort(p)
    BY <1>4, <2>1, <2>4 DEF BootReadsNoFull, BootReadsShort, BootSkips
  <2>5. CASE BootReadsSignature(p) \/ BootFails(p)
    BY <1>4, <2>1, <2>5 DEF BootReadsSignature, BootFinds, BootFails
  <2>6. CASE BootCancelled(p)
    BY <1>2, <2>6 DEF BootCancelled
  <2>. QED
    BY <1>7, <2>2, <2>3, <2>4, <2>5, <2>6 DEF BootStep
<1>. QED
  BY <1>3, <1>5, <1>6, <1>7 DEF PortStep
-----------------------------------------------------------------------------
(* The step of the scan task                                               *)

LEMMA PartFacts ==
    ASSUME NEW s
    PROVE  /\ s.pc \in {"new", "load"} => Part(s) = 0
           /\ s.pc = "ports" => Part(s) = 1
           /\ s.pc = "gather" => Part(s) = IF s.type = "default" /\ s.kind = "slow" THEN 3 ELSE 2
           /\ s.pc = "done" => Part(s) = 4
  BY DEF Part

\* Every step of the scan task leads to a later part, and makes tasks for ports only
\* when there are none.
LEMMA ScanStepForward ==
    ASSUME TypeOK, TasksInRange, NoOrphanTasks, ScanStep
    PROVE  AllDone /\ Part(scan') > Part(scan)
<1>1. AllDone
  BY DEF NoOrphanTasks, ScanStep, ScanBegins, ScanAsksForPorts, ScanNeverRuns, PortsLoaded,
         PortsTimeOut, PortsFail, PortsCancelled, HasPorts, GatherReturns, GatherCancelled
<1>2. scan \in ScanRecords
  BY DEF TypeOK
<1>3. ASSUME NEW m, NEW result
      PROVE  Part(Finishes(m, result).scan) = 4
  <2>1. Finishes(m, result).scan.pc = "done"
    BY <1>2 DEF Finishes, ScanRecords
  <2>. QED
    BY <2>1, PartFacts
<1>4. ASSUME NEW m, NEW ports
      PROVE  Part(Scans(m, ports).scan) \in {2, 3, 4}
  <2>1. ASSUME NEW n
        PROVE  Part(Gathers(n, FirstKind, ports).scan) \in {2, 3}
    <3>1. Gathers(n, FirstKind, ports).scan.pc = "gather"
      BY <1>2 DEF Gathers, ScanRecords
    <3>. QED
      BY <3>1, PartFacts
  <2>. QED
    BY <1>3, <2>1 DEF Scans
<1>5. CASE ScanBegins \/ ScanNeverRuns
  <2>1. Part(scan) = 0
    BY <1>5, PartFacts DEF ScanBegins, ScanNeverRuns
  <2>2. Part(scan') \in {2, 3, 4}
    BY <1>3, <1>4, <1>5 DEF ScanBegins, ScanNeverRuns, ScanMoves
  <2>. QED
    BY <1>1, <2>1, <2>2
<1>6. CASE ScanAsksForPorts
  <2>1. scan.pc = "load" /\ scan'.pc = "ports"
    BY <1>2, <1>6 DEF ScanAsksForPorts, ScanMoves, ScanRecords
  <2>2. Part(scan) = 0 /\ Part(scan') = 1
    BY <2>1, PartFacts
  <2>. QED
    BY <1>1, <2>2
<1>7. CASE PortsLoaded \/ PortsTimeOut \/ PortsFail \/ PortsCancelled
  <2>1. Part(scan) = 1
    BY <1>7, PartFacts DEF PortsLoaded, PortsTimeOut, PortsFail, PortsCancelled, HasPorts
  <2>2. Part(scan') \in {2, 3, 4}
    BY <1>3, <1>4, <1>7 DEF PortsLoaded, PortsTimeOut, PortsFail, PortsCancelled, ScanMoves
  <2>. QED
    BY <1>1, <2>1, <2>2
<1>8. CASE GatherReturns \/ GatherCancelled
  <2>1. Part(scan) = IF scan.type = "default" /\ scan.kind = "slow" THEN 3 ELSE 2
    BY <1>8, PartFacts DEF GatherReturns, GatherCancelled
  <2>2. CASE GatherReturns /\ scan.type = "default" /\ scan.kind = "fast"
    <3>1. scan' = Gathers(mgr, "slow", scan.ports).scan
      BY <2>2 DEF GatherReturns, ScanMoves
    <3>2. scan'.pc = "gather" /\ scan'.type = "default" /\ scan'.kind = "slow"
      BY <1>2, <2>2, <3>1 DEF Gathers, ScanRecords
    <3>3. Part(scan') = 3
      BY <3>2, PartFacts
    <3>. QED
      BY <1>1, <2>1, <2>2, <3>3
  <2>3. CASE ~(GatherReturns /\ scan.type = "default" /\ scan.kind = "fast")
    <3>1. Part(scan') = 4
      BY <1>3, <1>8, <2>3 DEF GatherReturns, GatherCancelled, ScanMoves
    <3>. QED
      BY <1>1, <2>1, <3>1
  <2>. QED
    BY <2>2, <2>3
<1>. QED
  BY <1>1, <1>5, <1>6, <1>7, <1>8 DEF ScanStep
-----------------------------------------------------------------------------
\* The scan and its port tasks only go forward: with the ranges of IInv for settings
\* and slave ids, no scan takes more than a bounded number of steps.
THEOREM Forward == Spec => OnlyForward
<1> DEFINE TasksGo == \A p \in Ports : Alive(p) =>
                          \/ tasks'[p] \in {tasks[p], [tasks[p] EXCEPT !.cancel = TRUE]}
                          \/ Further(tasks[p], tasks'[p])
           ScanGoes == scan'.pc # scan.pc \/ (\E p \in Ports : ~Alive(p) /\ Alive(p)')
                           => Len(ends') > Len(ends) \/ Part(scan') > Part(scan)
           A == /\ TasksGo
                /\ ScanGoes
<1>1. ASSUME IInv, Next
      PROVE  TasksGo /\ ScanGoes
  <2>1. TypeOK /\ TaskTypeOK /\ TasksInRange /\ NoOrphanTasks /\ tasks \in [Ports -> Tasks]
    BY <1>1 DEF IInv, TypeOK, TaskTypeOK
  <2>2. ASSUME UNCHANGED tasks
        PROVE  TasksGo /\ \A p \in Ports : ~(~Alive(p) /\ Alive(p)')
    BY <2>2 DEF Alive
  <2>3. CASE (ConsumerStarts \/ Consume) /\ UNCHANGED <<tasks, scanVars>>
    BY <2>2, <2>3 DEF scanVars
  <2>4. ASSUME NEW p \in Ports, Answer(p), UNCHANGED scanVars
        PROVE  TasksGo /\ ScanGoes
    <3> DEFINE u == [tasks[p] EXCEPT !.answered = TRUE]
    <3>1. tasks' = [tasks EXCEPT ![p] = u] /\ tasks[p].pc = "rpc" /\ ~tasks[p].answered
      BY <2>4 DEF Answer
    <3>2. /\ u.pc = "rpc" /\ u.unit = tasks[p].unit /\ u.turn = tasks[p].turn
          /\ u.stage = tasks[p].stage /\ u.answered
      BY <2>1, <3>1 DEF Tasks
    <3> HIDE DEF u
    <3>3. Further(tasks[p], u)
      BY <3>1, <3>2 DEF Further, Read
    <3>4. \A q \in Ports : tasks'[q] = IF q = p THEN u ELSE tasks[q]
      BY <2>1, <3>1
    <3>5. scan' = scan
      BY <2>4 DEF scanVars
    <3>. QED
      BY <3>1, <3>3, <3>4, <3>5 DEF Alive
  <2>5. ASSUME NEW p \in Ports, PortStep(p), UNCHANGED scanVars
        PROVE  TasksGo /\ ScanGoes
    <3>1. PICK step : Moves(p, step) /\ Further(tasks[p], step.task)
      BY <2>1, <2>5, PortStepFurther
    <3>2. \A q \in Ports : tasks'[q] = IF q = p THEN step.task ELSE tasks[q]
      BY <2>1, <3>1 DEF Moves
    <3>3. Alive(p)
      BY <2>1, <2>5, PortStepGood DEF TypeOK
    <3>4. scan' = scan
      BY <2>5 DEF scanVars
    <3>. QED
      BY <3>1, <3>2, <3>3, <3>4 DEF Alive
  <2>6. CASE PortsAnswered
    <3>1. scan'.pc = scan.pc /\ UNCHANGED tasks
      BY <2>1, <2>6 DEF PortsAnswered, TypeOK, ScanRecords
    <3>. QED
      BY <2>2, <3>1
  <2>7. CASE ScanStep
    BY <2>1, <2>7, ScanStepForward DEF AllDone
  <2>8. ASSUME NEW c \in Clients, Start(c)
        PROVE  TasksGo /\ ScanGoes
    <3>1. Len(ends') > Len(ends) /\ UNCHANGED tasks
      BY <2>1, <2>8 DEF Start, TypeOK
    <3>. QED
      BY <2>2, <3>1
  <2>9. ASSUME NEW c \in Clients, Stop(c)
        PROVE  TasksGo /\ ScanGoes
    <3>1. scan'.pc = scan.pc
      BY <2>1, <2>9 DEF Stop, TypeOK, ScanRecords
    <3>2. \A p \in Ports : IF Alive(p) THEN tasks'[p] = [tasks[p] EXCEPT !.cancel = TRUE]
                                       ELSE tasks'[p] = tasks[p]
      BY <2>9 DEF Stop, Cancelled, Alive
    <3>. QED
      BY <3>1, <3>2 DEF Alive
  <2>10. ASSUME NEW c \in Clients, StartRefused(c) \/ StopRefused(c) \/ StopReturns(c)
         PROVE  TasksGo /\ ScanGoes
    BY <2>2, <2>10 DEF StartRefused, StopRefused, StopReturns
  <2>. QED
    BY <1>1, <2>3, <2>4, <2>5, <2>6, <2>7, <2>8, <2>9, <2>10 DEF Next, Request
<1>2. IInv /\ [Next]_vars => [A]_vars
  BY <1>1
<1>. QED
  BY <1>2, Invariance, PTL DEF Spec, OnlyForward
=============================================================================
