------------------------ MODULE BusScan_refinement ------------------------
(***************************************************************************)
(* BusScan implements ScanService, for any ports, clients, scan types and  *)
(* bounds.  The mapping needs one fact more than IInv: a scan whose end is *)
(* not recorded is the last one, and is alive.                             *)
(***************************************************************************)
EXTENDS BusScan_proofs

OneRunning ==
    \A n \in 1 .. Len(ends) : ends[n] = "running" => n = Len(ends) /\ ScanAlive
-----------------------------------------------------------------------------
\* A step that leaves the scan's life and the waiting Stops alone changes neither
\* set of Stops.
LEMMA StopsUnchanged ==
    ASSUME UNCHANGED <<ends, awaits>>
    PROVE  UNCHANGED <<AskedStops, OwedStops>>
  BY DEF AskedStops, OwedStops, Over

\* What every step of the scan task does to the record of the ends.
LEMMA ScanEndsRecorded ==
    ASSUME IInv, OneRunning, ScanStep
    PROVE  /\ ScanAlive /\ OwedStops = {} /\ AllDone
           /\ UNCHANGED <<awaits, reply>>
           /\ OneRunning'
           /\ \/ ScanAlive' /\ ends' = ends
              \/ /\ ~ScanAlive' /\ AllDone' /\ AskedStops' = {}
                 /\ OwedStops' = AskedStops
<1>1. PICK step : ScanMoves(step) /\ GoodScanStep(step)
  BY ScanStepGood DEF IInv
<1>2. ScanAlive
  BY ScanStepGood DEF IInv
<1>3. /\ tasks' = step.tasks /\ scan' = step.scan
      /\ ends' = [ends EXCEPT ![Len(ends)] = step.result]
      /\ UNCHANGED <<awaits, reply>>
  BY <1>1 DEF ScanMoves
<1>4. /\ ends \in Seq(Results) /\ ends # <<>> /\ ends[Len(ends)] = "running"
  BY <1>2 DEF IInv, TypeOK, ScanAlive, LastEnd
<1>5. /\ Len(ends') = Len(ends) /\ Len(ends) \in Nat \ {0}
      /\ ends'[Len(ends)] = step.result
      /\ \A n \in 1 .. Len(ends) : n # Len(ends) => ends'[n] = ends[n]
      /\ step.result = "running" => ends' = ends
  BY <1>3, <1>4
<1>6. ScanAlive' <=> step.result = "running"
  BY <1>1, <1>3 DEF GoodScanStep, ScanAlive
<1>7. OneRunning'
  BY <1>5, <1>6 DEF OneRunning
<1>8. AllDone
  BY DEF IInv, NoOrphanTasks, ScanStep, ScanBegins, ScanAsksForPorts, ScanNeverRuns,
         PortsLoaded, PortsTimeOut, PortsFail, PortsCancelled, HasPorts, GatherReturns,
         GatherCancelled
<1>9. OwedStops = {}
  <2>. SUFFICES ASSUME NEW c \in Clients, awaits[c] # 0, Over(awaits[c]) PROVE FALSE
    BY DEF OwedStops
  <2>1. scan.pc \in {"new", "load"}
    BY <1>2 DEF IInv, StopsInOrder, ScanAlive
  <2>2. ScanReady
    BY <2>1 DEF ScanStep, ScanBegins, ScanAsksForPorts, ScanNeverRuns, PortsLoaded,
                PortsTimeOut, PortsFail, PortsCancelled, HasPorts, GatherReturns,
                GatherCancelled
  <2>. QED
    BY <2>2 DEF ScanReady
<1>10. ASSUME ~ScanAlive'
       PROVE  AllDone' /\ AskedStops' = {} /\ OwedStops' = AskedStops
  <2>1. \A n \in 1 .. Len(ends) : ends'[n] # "running"
    BY <1>5, <1>7, <1>10 DEF OneRunning
  <2>2. \A c \in Clients : awaits[c] # 0 => awaits[c] \in 1 .. Len(ends)
    BY DEF IInv, StopsInOrder
  <2>3. AllDone'
    <3>1. step.scan.pc # "gather"
      BY <1>3, <1>10 DEF ScanAlive
    <3>. QED
      BY <1>1, <1>3, <3>1 DEF GoodScanStep, AllDone, Alive
  <2>4. \A c \in Clients : awaits'[c] = awaits[c] /\ (awaits[c] # 0 => Over(awaits[c])')
    BY <1>3, <2>1, <2>2 DEF Over
  <2>. QED
    BY <1>9, <2>3, <2>4 DEF AskedStops, OwedStops
<1>. QED
  BY <1>2, <1>3, <1>5, <1>6, <1>7, <1>8, <1>9, <1>10
-----------------------------------------------------------------------------
(* Each kind of step is a step of the service, or none.                    *)

\* The consumer, and an answer from wb-mqtt-serial, are none of its business.
LEMMA UnseenStep ==
    ASSUME UNCHANGED <<ends, awaits, reply>>, ScanAlive' = ScanAlive, AllDone' = AllDone
    PROVE  UNCHANGED Service!vars
  BY StopsUnchanged DEF Service!vars

\* A port task is alive inside a scan only, and no Stop is owed meanwhile.
LEMMA PortStepRefines ==
    ASSUME IInv, NEW p \in Ports, (Answer(p) \/ PortStep(p)) /\ UNCHANGED scanVars
    PROVE  [Service!Next]_(Service!vars)
<1>1. UNCHANGED <<scan, ends, awaits, reply>>
  BY DEF scanVars
<1>2. ~AllDone
  <2>1. Alive(p)
    BY PortStepGood DEF IInv, TypeOK, Answer, Alive
  <2>. QED
    BY <2>1 DEF AllDone
<1>3. ScanAlive /\ ScanAlive'
  BY <1>1, <1>2 DEF IInv, NoOrphanTasks, ScanAlive
<1>4. OwedStops = {}
  BY <1>2 DEF IInv, NoOrphanTasks, StopsInOrder, OwedStops
<1>5. CASE AllDone'
  BY <1>1, <1>2, <1>3, <1>4, <1>5, StopsUnchanged DEF Service!Next, Service!Work
<1>6. CASE ~AllDone'
  BY <1>1, <1>2, <1>3, <1>6, StopsUnchanged DEF Service!vars
<1>. QED
  BY <1>5, <1>6

\* A step of the scan task is work on the ports, the end of the scan, or unseen.
LEMMA ScanStepRefines ==
    ASSUME IInv, OneRunning, ScanStep
    PROVE  [Service!Next]_(Service!vars)
<1>1. CASE ScanAlive' /\ ends' = ends
  <2>1. UNCHANGED <<AskedStops, OwedStops>>
    BY <1>1, ScanEndsRecorded, StopsUnchanged
  <2>2. CASE AllDone'
    BY <1>1, <2>1, <2>2, ScanEndsRecorded DEF Service!vars
  <2>3. CASE ~AllDone'
    BY <1>1, <2>1, <2>3, ScanEndsRecorded DEF Service!Next, Service!Work
  <2>. QED
    BY <2>2, <2>3
<1>2. CASE ~ScanAlive' /\ AllDone' /\ AskedStops' = {} /\ OwedStops' = AskedStops
  BY <1>2, ScanEndsRecorded DEF Service!Next, Service!End
<1>. QED
  BY <1>1, <1>2, ScanEndsRecorded

\* An accepted Start finds no scan alive, so the new one has no Stops yet.
LEMMA StartRefines ==
    ASSUME IInv, OneRunning, NEW c \in Clients, Start(c)
    PROVE  Service!Start(c) /\ OneRunning'
<1>1. /\ awaits[c] = 0 /\ ~ScanAlive
      /\ ends' = Append(ends, "running")
      /\ reply' = [reply EXCEPT ![c] = "ok"]
      /\ UNCHANGED <<tasks, awaits>>
  BY DEF Start, Requesting
<1>2. ScanAlive'
  BY DEF Start, ScanAlive, NoScan
<1>3. /\ ends \in Seq(Results) /\ Len(ends') = Len(ends) + 1
      /\ \A n \in 1 .. Len(ends) : ends'[n] = ends[n]
  BY <1>1 DEF IInv, TypeOK
<1>4. OneRunning'
  <2>. SUFFICES ASSUME NEW n \in 1 .. Len(ends'), ends'[n] = "running"
                PROVE  n = Len(ends')
    BY <1>2 DEF OneRunning
  <2>. QED
    BY <1>1, <1>3 DEF OneRunning
<1>5. UNCHANGED <<AskedStops, OwedStops>>
  <2>1. \A d \in Clients : awaits[d] # 0 => Over(awaits[d])' = Over(awaits[d])
    BY <1>1, <1>3 DEF IInv, StopsInOrder, Over
  <2>. QED
    BY <1>1, <2>1 DEF AskedStops, OwedStops
<1>6. c \notin AskedStops \cup OwedStops /\ AllDone' = AllDone
  BY <1>1 DEF AskedStops, OwedStops, AllDone, Alive
<1>. QED
  BY <1>1, <1>2, <1>4, <1>5, <1>6 DEF Service!Start, Service!Asks, Service!Answers

\* A Stop joins those that wait for the end of the scan that is alive.
LEMMA StopRefines ==
    ASSUME IInv, OneRunning, NEW c \in Clients, Stop(c)
    PROVE  Service!Stop(c)
<1>1. /\ awaits[c] = 0 /\ ScanAlive
      /\ scan' = [scan EXCEPT !.cancel = TRUE]
      /\ tasks' = Cancelled(tasks)
      /\ awaits' = [awaits EXCEPT ![c] = Len(ends)]
      /\ UNCHANGED <<ends, reply>>
  BY DEF Stop, Requesting
<1>2. scan'.pc = scan.pc /\ ScanAlive'
  BY <1>1 DEF IInv, TypeOK, ScanRecords, ScanAlive
<1>3. \A p \in Ports : tasks'[p].pc = tasks[p].pc
  <2>. TAKE p \in Ports
  <2>1. tasks'[p] = tasks[p] \/ tasks'[p] = [tasks[p] EXCEPT !.cancel = TRUE]
    BY <1>1 DEF Cancelled
  <2>. QED
    BY <2>1 DEF IInv, TypeOK, TaskTypeOK, Tasks
<1>4. AllDone' = AllDone
  BY <1>3 DEF AllDone, Alive
<1>5. ends \in Seq(Results) /\ ends # <<>> /\ ends[Len(ends)] = "running"
  BY <1>1 DEF IInv, TypeOK, ScanAlive, LastEnd
<1>6. /\ Len(ends) # 0 /\ awaits'[c] = Len(ends)
      /\ \A d \in Clients : d # c => awaits'[d] = awaits[d]
  BY <1>1, <1>5 DEF IInv, TypeOK
<1>7. AskedStops' = AskedStops \cup {c} /\ OwedStops' = OwedStops
  BY <1>1, <1>5, <1>6 DEF AskedStops, OwedStops, Over
<1>8. c \notin AskedStops \cup OwedStops
  BY <1>1 DEF AskedStops, OwedStops
<1>. QED
  BY <1>1, <1>2, <1>4, <1>7, <1>8 DEF Service!Stop, Service!Asks

\* A Stop is answered after the scan it was for, with no port in use.
LEMMA StopReturnsRefines ==
    ASSUME IInv, NEW c \in Clients, StopReturns(c)
    PROVE  Service!AnswerStop(c)
<1>1. /\ awaits[c] # 0 /\ Over(awaits[c])
      /\ awaits' = [awaits EXCEPT ![c] = 0]
      /\ \E a \in {"ok", "error"} : reply' = [reply EXCEPT ![c] = a]
      /\ UNCHANGED <<tasks, scan, ends>>
  BY DEF StopReturns
<1>2. AllDone
  <2>1. scan.pc # "gather"
    BY <1>1 DEF IInv, StopsInOrder
  <2>. QED
    BY <2>1 DEF IInv, NoOrphanTasks
<1>3. UNCHANGED <<ScanAlive, AllDone>>
  BY <1>1 DEF ScanAlive, AllDone, Alive
<1>4. awaits'[c] = 0 /\ \A d \in Clients : d # c => awaits'[d] = awaits[d]
  BY <1>1 DEF IInv, TypeOK
<1>5. c \in OwedStops /\ OwedStops' = OwedStops \ {c} /\ AskedStops' = AskedStops
  BY <1>1, <1>4 DEF OwedStops, AskedStops, Over
<1>. QED
  BY <1>1, <1>2, <1>3, <1>5 DEF Service!AnswerStop, Service!Answers

\* A refused request changes nothing but the answer.
LEMMA RefusedRefines ==
    ASSUME NEW c \in Clients, StartRefused(c) \/ StopRefused(c)
    PROVE  Service!Refuse(c)
<1>1. /\ awaits[c] = 0
      /\ reply' = [reply EXCEPT ![c] = "busy"]
      /\ UNCHANGED <<tasks, scan, ends, awaits>>
  BY DEF StartRefused, StopRefused, Requesting
<1>2. UNCHANGED <<ScanAlive, AllDone, AskedStops, OwedStops>>
  BY <1>1, StopsUnchanged DEF ScanAlive, AllDone, Alive
<1>3. c \notin AskedStops \cup OwedStops
  BY <1>1 DEF AskedStops, OwedStops
<1>. QED
  BY <1>1, <1>2, <1>3 DEF Service!Refuse, Service!Asks, Service!Answers

\* Every step of the bus scanner is one of the service, or none.
LEMMA NextRefines ==
    ASSUME IInv, OneRunning, Next
    PROVE  OneRunning' /\ [Service!Next]_(Service!vars)
<1>1. ASSUME UNCHANGED <<scan, ends>>
      PROVE  OneRunning'
  BY <1>1 DEF OneRunning, ScanAlive
<1>2. CASE (ConsumerStarts \/ Consume) /\ UNCHANGED <<tasks, scanVars>>
  BY <1>1, <1>2, UnseenStep DEF scanVars, ScanAlive, AllDone, Alive
<1>3. ASSUME NEW p \in Ports, (Answer(p) \/ PortStep(p)) /\ UNCHANGED scanVars
      PROVE  OneRunning' /\ [Service!Next]_(Service!vars)
  BY <1>1, <1>3, PortStepRefines DEF scanVars
<1>4. CASE PortsAnswered
  <2>1. /\ scan' = [scan EXCEPT !.answered = TRUE]
        /\ UNCHANGED <<tasks, ends, awaits, reply>>
    BY <1>4 DEF PortsAnswered
  <2>2. scan'.pc = scan.pc
    BY <2>1 DEF IInv, TypeOK, ScanRecords
  <2>. QED
    BY <2>1, <2>2, UnseenStep DEF OneRunning, ScanAlive, AllDone, Alive
<1>5. CASE ScanStep
  BY <1>5, ScanStepRefines, ScanEndsRecorded
<1>6. ASSUME NEW c \in Clients, Request(c) \/ StopReturns(c)
      PROVE  OneRunning' /\ [Service!Next]_(Service!vars)
  <2>1. CASE Start(c)
    BY <2>1, StartRefines DEF Service!Next
  <2>2. CASE Stop(c)
    <3>1. scan'.pc = scan.pc /\ ends' = ends
      BY <2>2 DEF Stop, IInv, TypeOK, ScanRecords
    <3>. QED
      BY <2>2, <3>1, StopRefines DEF Service!Next, OneRunning, ScanAlive
  <2>3. CASE StartRefused(c) \/ StopRefused(c)
    BY <1>1, <2>3, RefusedRefines DEF StartRefused, StopRefused, Service!Next
  <2>4. CASE StopReturns(c)
    BY <1>1, <2>4, StopReturnsRefines DEF StopReturns, Service!Next
  <2>. QED
    BY <1>6, <2>1, <2>2, <2>3, <2>4 DEF Request
<1>. QED
  BY <1>2, <1>3, <1>4, <1>5, <1>6 DEF Next
-----------------------------------------------------------------------------
\* Every behaviour of the bus scanner is one of ScanService: what a client may
\* count on without knowing of tasks, queues and cancellations.
THEOREM Refinement == Spec => ServiceKept
<1>1. Init => OneRunning /\ Service!Init
  BY DEF Init, TaskInit, OneRunning, NoScan, ScanAlive, AllDone, Alive, DoneTask, NewTask,
         AskedStops, OwedStops, Service!Init
<1>2. IInv /\ OneRunning /\ [Next]_vars => OneRunning' /\ [Service!Next]_(Service!vars)
  <2>1. ASSUME UNCHANGED vars, OneRunning
        PROVE  OneRunning' /\ UNCHANGED Service!vars
    BY <2>1, UnseenStep DEF vars, OneRunning, ScanAlive, AllDone, Alive
  <2>. QED
    BY <2>1, NextRefines
<1>. QED
  BY <1>1, <1>2, Invariance, PTL DEF Spec, ServiceKept, Service!Spec
=============================================================================
