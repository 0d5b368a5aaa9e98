------------------------------ MODULE BusScan ------------------------------
(***************************************************************************)
(* BusScanner of bus_scan.py: the bus-scan/Start and bus-scan/Stop         *)
(* handlers, the scan task, and with the modules extended the tasks of the *)
(* ports and the state they all build.  Everything runs in one asyncio     *)
(* event loop, so an action is what one task does between two awaits that  *)
(* suspend it.                                                             *)
(***************************************************************************)
EXTENDS FastModbusScan, OneByOneScan, BootloaderScan, FiniteSets

CONSTANTS Clients,    \* who sends requests
          ScanTypes,  \* the scan types they ask for
          NoPort,     \* a request that has no "port"
          Requests,   \* the port they name: a set of one port, or of none if
                      \* "port" lacks the path, or NoPort
          PortLists,  \* what wb-mqtt-serial may answer to ports/Load
          Preserve,   \* the values of preserve_old_results they send
          MaxScans    \* bound: scans started

ASSUME ScanConstants ==
    /\ IsFiniteSet(Ports)
    /\ ScanTypes \subseteq {"extended", "standard", "bootloader", "default"}
    /\ Requests \subseteq {{p} : p \in Ports} \cup {{}, NoPort}
    /\ PortLists \subseteq SUBSET Ports
    /\ Preserve \subseteq BOOLEAN
    /\ MaxScans \in Nat

VARIABLES scan,    \* the last scan task: what it was asked for, where it is
          ends,    \* how each scan task ended, in the order they were created
          awaits,  \* the scan whose end the Stop of a client waits for, or 0
          reply    \* the last reply to each client

scanVars == <<scan, ends, awaits, reply>>
vars == <<mgr, state, consumer, published, tasks, scan, ends, awaits, reply>>

NoScan == [pc |-> "none", type |-> "default", ports |-> {}, preserve |-> FALSE, ooo |-> 0,
           kind |-> "fast", answered |-> FALSE, cancel |-> FALSE]

Results == {"running", "never_ran", "complete", "stopped", "failed",
            "ports_timeout", "ports_failed", "ports_cancelled"}

ScanRecords == [pc : {"none", "new", "load", "ports", "gather", "done"},
                type : {"extended", "standard", "bootloader", "default"},
                ports : SUBSET Ports, preserve : BOOLEAN, ooo : OooCounts \cup {0},
                kind : Kinds, answered : BOOLEAN, cancel : BOOLEAN]

\* Type correctness of the whole bus scanner.
TypeOK ==
    /\ StateTypeOK
    /\ TaskTypeOK
    /\ scan \in ScanRecords
    /\ ends \in Seq(Results)
    /\ awaits \in [Clients -> Nat]
    /\ reply \in [Clients -> {"none", "ok", "busy", "error"}]

Init ==
    /\ StateInit
    /\ TaskInit
    /\ scan = NoScan
    /\ ends = <<>>
    /\ awaits = [c \in Clients |-> 0]
    /\ reply = [c \in Clients |-> "none"]
-----------------------------------------------------------------------------
(* The request handlers.                                                   *)

ScanAlive == scan.pc \notin {"none", "done"}
\* The server takes a request of a client that waits for no reply.
Requesting(c) == LoopFree /\ awaits[c] = 0

\* Mutated: a scan is started while there is one.
StartAnyway(c) ==
    /\ Requesting(c)
    /\ Len(ends) < MaxScans
    /\ scan' = [NoScan EXCEPT !.pc = "load"]
    /\ ends' = Append(ends, "running")
    /\ reply' = [reply EXCEPT ![c] = "ok"]
    /\ UNCHANGED <<stateVars, tasks, awaits>>

Start(c) ==
    /\ Requesting(c) /\ ~ScanAlive
    /\ Len(ends) < MaxScans
    /\ \E type \in ScanTypes, port \in Requests, preserve \in Preserve, ooo \in OooCounts :
           scan' = [NoScan EXCEPT !.pc = IF port = NoPort THEN "load" ELSE "new",
                                  !.type = type, !.preserve = preserve, !.ooo = ooo,
                                  !.ports = IF port = NoPort THEN {} ELSE port]
    /\ ends' = Append(ends, "running")
    /\ reply' = [reply EXCEPT ![c] = "ok"]
    /\ UNCHANGED <<stateVars, tasks, awaits>>

StartRefused(c) ==
    /\ Requesting(c) /\ ScanAlive
    /\ reply' = [reply EXCEPT ![c] = "busy"]
    /\ UNCHANGED <<stateVars, tasks, scan, ends, awaits>>

\* cancel() of a task that awaits a gather cancels the tasks gathered.
Stop(c) ==
    /\ Requesting(c) /\ ScanAlive
    /\ scan' = [scan EXCEPT !.cancel = TRUE]
    /\ tasks' = Cancelled(tasks)
    /\ awaits' = [awaits EXCEPT ![c] = Len(ends)]
    /\ UNCHANGED <<stateVars, ends, reply>>

StopRefused(c) ==
    /\ Requesting(c) /\ ~ScanAlive
    /\ reply' = [reply EXCEPT ![c] = "busy"]
    /\ UNCHANGED <<stateVars, tasks, scan, ends, awaits>>

\* Mutated: only a scan that was cancelled wakes Stop.
OverIfCancelled(n) == ends[n] \in {"stopped", "ports_cancelled", "never_ran"}
Over(n) == ends[n] # "running"

\* Mutated: Stop answers without waiting.
StopReturnsAtOnce(c) ==
    /\ LoopFree /\ mgr.queue = <<>> /\ awaits[c] # 0
    /\ awaits' = [awaits EXCEPT ![c] = 0]
    /\ reply' = [reply EXCEPT ![c] = "ok"]
    /\ UNCHANGED <<stateVars, tasks, scan, ends>>

\* The scan task is done, Stop resumes.  What the scan task queued woke the
\* consumer before its end woke Stop, so the queue is empty by now.
StopReturns(c) ==
    /\ LoopFree /\ mgr.queue = <<>>
    /\ awaits[c] # 0 /\ Over(awaits[c])
    /\ awaits' = [awaits EXCEPT ![c] = 0]
    /\ reply' = [reply EXCEPT ![c] = IF ends[awaits[c]] = "ports_failed" THEN "error"
                                     ELSE "ok"]
    /\ UNCHANGED <<stateVars, tasks, scan, ends>>
-----------------------------------------------------------------------------
(* The scan task.                                                          *)

\* The manager, the tasks, the scan record and the result of its steps
Finishes(m, result) ==
    [mgr |-> m, tasks |-> tasks, result |-> result,
     scan |-> [scan EXCEPT !.pc = "done", !.answered = FALSE, !.cancel = FALSE]]

Gathers(m, kind, ports) ==
    [mgr |-> m, result |-> "running",
     tasks |-> [p \in Ports |-> IF p \in ports THEN NewTask(kind, scan.ooo) ELSE DoneTask],
     scan |-> [scan EXCEPT !.pc = "gather", !.kind = kind, !.ports = ports,
                           !.answered = FALSE, !.cancel = FALSE]]

ItemsCount(ports) ==
    LET serial == Cardinality(ports \cap SerialPorts)
        tcp == Cardinality(ports \cap TcpPorts)
    IN  CASE scan.type = "extended" -> FastItems(serial, tcp)
          [] scan.type = "standard" -> SlowItems(serial, tcp)
          [] scan.type = "bootloader" -> BootItems(serial, tcp, scan.ooo)
          [] scan.type = "default" -> FastItems(serial, tcp) + SlowItems(serial, tcp)

FirstKind == CASE scan.type \in {"extended", "default"} -> "fast"
               [] scan.type = "standard" -> "slow"
               [] scan.type = "bootloader" -> "boot"

\* The meter takes no count of 0 and raises ValueError; only the bootloader
\* scan does not look at the count first.
Scans(m, ports) ==
    IF ItemsCount(ports) > 0
    THEN Gathers(SetScanItemsCount(m, ItemsCount(ports)), FirstKind, ports)
    ELSE IF scan.type = "bootloader" THEN Finishes(ScanFinished(m, GenericError), "failed")
    ELSE Finishes(ScanComplete(m), "complete")

ScanMoves(step) ==
    /\ mgr' = step.mgr /\ tasks' = step.tasks /\ scan' = step.scan
    /\ ends' = [ends EXCEPT ![Len(ends)] = step.result]
    /\ UNCHANGED <<state, consumer, published, awaits, reply>>

\* Woken before the task of a new scan was made, the consumer and a Stop that waits
\* for the scan before run before its first step.
ScanReady == /\ LoopFree /\ mgr.queue = <<>>
             /\ \A c \in Clients : awaits[c] # 0 => ~Over(awaits[c])

ScanBegins ==
    /\ ScanReady /\ scan.pc = "new" /\ ~scan.cancel
    /\ ScanMoves(Scans(Reset(mgr, scan.preserve), scan.ports))

ScanAsksForPorts ==
    /\ ScanReady /\ scan.pc = "load" /\ ~scan.cancel
    /\ ScanMoves([mgr |-> Reset(mgr, scan.preserve), tasks |-> tasks, result |-> "running",
                  scan |-> [scan EXCEPT !.pc = "ports"]])

\* Cancelled before its first step, the task never runs its body.
ScanNeverRuns ==
    /\ ScanReady /\ scan.pc \in {"new", "load"} /\ scan.cancel
    /\ ScanMoves(Finishes(mgr, "never_ran"))

PortsAnswered ==
    /\ LoopFree /\ scan.pc = "ports" /\ ~scan.answered
    /\ scan' = [scan EXCEPT !.answered = TRUE]
    /\ UNCHANGED <<stateVars, tasks, ends, awaits, reply>>

HasPorts == scan.pc = "ports" /\ scan.answered /\ (scan.cancel => KeepsAnswer)

PortsLoaded ==
    /\ LoopFree /\ HasPorts
    /\ \E ports \in PortLists : ScanMoves(Scans(mgr, ports))

PortsTimeOut ==
    /\ LoopFree /\ scan.pc = "ports" /\ ~scan.answered /\ ~scan.cancel
    /\ ScanMoves(Finishes(ScanFinished(mgr, RpcTimeoutError), "ports_timeout"))

\* Any other error, and a cancellation, leave the task from outside of its
\* try statement: nothing is told to the state manager.
PortsFail ==
    /\ LoopFree /\ HasPorts
    /\ ScanMoves(Finishes(mgr, "ports_failed"))

PortsCancelled ==
    /\ LoopFree /\ scan.pc = "ports" /\ scan.cancel /\ (scan.answered => ~KeepsAnswer)
    /\ ScanMoves(Finishes(mgr, "ports_cancelled"))

AllDone == \A p \in Ports : ~Alive(p)

\* Mutated: gather without return_exceptions, the first port that ends ends it.
GatherReturnsEarly ==
    /\ LoopFree /\ scan.pc = "gather" /\ ~scan.cancel
    /\ \E p \in scan.ports : ~Alive(p)
    /\ ScanMoves(Finishes(ScanComplete(mgr), "complete"))

\* Mutated: a cancellation between the two parts of a scan is not seen.
GatherReturnsCancelled ==
    /\ LoopFree /\ scan.pc = "gather" /\ AllDone
    /\ ScanMoves(IF scan.type = "default" /\ scan.kind = "fast"
                 THEN Gathers(mgr, "slow", scan.ports)
                 ELSE Finishes(ScanComplete(mgr), "complete"))

\* The gather returns: on to the second part of a default scan, or the end.
GatherReturns ==
    /\ LoopFree /\ scan.pc = "gather" /\ AllDone /\ ~scan.cancel
    /\ ScanMoves(IF scan.type = "default" /\ scan.kind = "fast"
                 THEN Gathers(mgr, "slow", scan.ports)
                 ELSE Finishes(ScanComplete(mgr), "complete"))

\* Mutated: the scan task does not wait for the tasks it has cancelled.
GatherCancelledAtOnce ==
    /\ LoopFree /\ scan.pc = "gather" /\ scan.cancel
    /\ ScanMoves(Finishes(ScanFinished(mgr, NoError), "stopped"))

\* The gather raises CancelledError, but not before all its tasks are done.
GatherCancelled ==
    /\ LoopFree /\ scan.pc = "gather" /\ AllDone /\ scan.cancel
    /\ ScanMoves(Finishes(ScanFinished(mgr, NoError), "stopped"))
-----------------------------------------------------------------------------
ScanStep == \/ ScanBegins \/ ScanAsksForPorts \/ ScanNeverRuns
            \/ PortsLoaded \/ PortsTimeOut \/ PortsFail \/ PortsCancelled
            \/ GatherReturns \/ GatherCancelled

PortStep(p) == FirstStep(p) \/ FastStep(p) \/ SlowStep(p) \/ BootStep(p)

Request(c) == Start(c) \/ StartRefused(c) \/ Stop(c) \/ StopRefused(c)

Next ==
    \/ (ConsumerStarts \/ Consume) /\ UNCHANGED <<tasks, scanVars>>
    \/ \E p \in Ports : (Answer(p) \/ PortStep(p)) /\ UNCHANGED scanVars
    \/ PortsAnswered
    \/ ScanStep
    \/ \E c \in Clients : Request(c) \/ StopReturns(c)

Spec == Init /\ [][Next]_vars

\* The event loop runs every task that can run, and wait_for's timer ends the
\* wait for an answer.  No request, no answer and no Stop has to come.
Fairness ==
    /\ WF_vars((ConsumerStarts \/ Consume) /\ UNCHANGED <<tasks, scanVars>>)
    /\ \A p \in Ports : WF_vars(PortStep(p) /\ UNCHANGED scanVars)
    /\ WF_vars(ScanStep)
    /\ \A c \in Clients : WF_vars(StopReturns(c))

FairSpec == Spec /\ Fairness
-----------------------------------------------------------------------------
(* Properties.                                                             *)

Quiet == mgr.queue = <<>>
LastEnd == ends[Len(ends)]
Ended(results) == scan.pc = "done" /\ LastEnd \in results
\* The ends the scan task tells the state manager of
ToldEnds == {"complete", "stopped", "failed", "ports_timeout"}

\* No task of a port outlives the scan that made it: whatever order Stop, the
\* answers and the failures come in, the scan task ends after all of them.
NoOrphanTasks == ~AllDone => scan.pc = "gather"

\* A scan that was completed, stopped or failed after its ports were known (or
\* timed out waiting for them) is not shown as running any more, once the
\* consumer has caught up: no late event of a port task shows it again.
EndIsPublished ==
    Ended(ToldEnds) /\ Quiet =>
        /\ ~published.scanning
        /\ published.progress = 0
        /\ published.scanning_ports = {}

\* The end of a scan before the consumer has caught up: the last event in the
\* queue is one that ends it, and the ports are cleared with it or just before.
EndInQueue ==
    LET q == mgr.queue
    IN  \/ /\ q = <<>>
           /\ ~published.scanning /\ published.progress = 0
           /\ published.scanning_ports = {}
        \/ /\ q # <<>>
           /\ \E error \in {NoError, GenericError, RpcTimeoutError} :
                  q[Len(q)] = FinishedEvent(error)
        \/ /\ q # <<>> /\ q[Len(q)] = IdleEvent
           /\ IF Len(q) = 1 THEN state.scanning_ports = 0
                            ELSE q[Len(q) - 1] = CompleteEvent

\* A Stop that waits for a scan that is over resumes before another one begins,
\* so it finds the end of its own.
StopsInOrder ==
    \A c \in Clients : awaits[c] # 0 =>
        /\ awaits[c] \in 1 .. Len(ends)
        /\ Over(awaits[c]) => /\ scan.pc \in {"new", "load", "done"}
                              /\ ends[awaits[c]] \in ToldEnds => EndInQueue

\* Cancelling the scan task reaches every task it gathers, and stays with it.
CancelReaches ==
    scan.pc = "gather" /\ scan.cancel => \A p \in Ports : Alive(p) => tasks[p].cancel

\* What every step preserves: the invariants above and what they rest on.
IInv ==
    /\ TypeOK
    /\ TasksInRange
    /\ NoOrphanTasks
    /\ scan.pc # "none" => ends # <<>>
    /\ ScanAlive => LastEnd = "running"
    /\ consumer = "new" => scan.pc = "none" /\ \A c \in Clients : awaits[c] = 0
    /\ Ended(ToldEnds) => EndInQueue
    /\ StopsInOrder
    /\ ~KeepsAnswer => CancelReaches

\* The list of devices a client sees and the list is_device_found looks in are
\* two lists; they agree whenever the consumer has caught up.
DevicesMatchFound == Quiet => published.devices = mgr.found_devices

\* A serial number is reported once however many ports, settings and slave ids
\* it answers at (the one-by-one and the bootloader scan check before they
\* report; the fast scan does not).
FoundOnce ==
    \A i, j \in 1 .. Len(published.devices) :
        published.devices[i] = published.devices[j] => i = j

\* The count announced to the progress meter is the number of units done: a
\* scan in which nothing failed reaches its last item, and none reaches it while
\* a port is still scanned.
ProgressReachesEnd ==
    /\ Ended({"complete"}) /\ Errored(mgr) = {}
       /\ scan.ports \cap Malformed = {} /\ scan.ports # {}
           => mgr.current_item = mgr.total_items
    /\ scan.pc = "gather" /\ ~AllDone => mgr.current_item < mgr.total_items

\* While a scan is shown as running its progress never goes back.
ProgressNeverDrops ==
    [][published.scanning /\ published'.scanning
         => published'.progress >= published.progress]_vars

\* The first state shown of a scan has no port and no progress of an earlier one in
\* it, and no device and no error if it does not preserve the old results.  (If
\* "scan" is not the one shown any more, the next one has not begun.)
FreshScanShowsNothing ==
    [][~published.scanning /\ published'.scanning
         => /\ published'.scanning_ports = {} /\ published'.progress = 0
            /\ scan.pc \notin {"new", "load"} /\ ~scan.preserve
                   => published'.devices = <<>> /\ published'.error = "none"]_vars

\* The ports where a task waits for an answer, with the settings in use there
InUse == {Item(tasks[p], p) : p \in {r \in Ports : tasks[r].pc = "rpc"}}

\* While a scan goes on that nobody stops, and the consumer has caught up, exactly the
\* ports in use are listed, as those of a fast scan or of another one: no task that
\* fails or ends leaves its port in the set the tasks share, or takes out another's.
ScannedPortsShown ==
    scan.pc = "gather" /\ ~scan.cancel /\ Quiet =>
        /\ published.scanning_ports = InUse
        /\ InUse # {} => published.is_ext_scan = (scan.kind = "fast")

\* When Stop is answered no task of any scan is left (the question the TODO of
\* stop_bus_scan asks) and, if the scan had its ports, the state topic does not
\* show a scan any more.
StopMeansStopped ==
    [][\A c \in Clients : awaits[c] # 0 /\ awaits'[c] = 0
         => AllDone /\ (ends[awaits[c]] \in ToldEnds => ~published.scanning)]_vars

\* u is the task t further on in its work: at a later setting, slave id or read, or
\* at the same with an answer.
Read(t) == CASE t.stage = "read_short" -> 1 [] t.stage = "read_signature" -> 2 [] OTHER -> 0
Further(t, u) ==
    \/ u.pc = "done" \/ (t.pc = "new" /\ u.pc = "rpc")
    \/ /\ t.pc = "rpc" /\ u.pc = "rpc"
       /\ \/ t.unit < u.unit
          \/ t.unit = u.unit /\ t.turn < u.turn
          \/ t.unit = u.unit /\ t.turn = u.turn /\ Read(t) < Read(u)
          \/ /\ t.unit = u.unit /\ t.turn = u.turn /\ Read(t) = Read(u)
             /\ ~t.answered /\ u.answered

\* The parts of a scan, in their order
Part(s) == CASE s.pc \in {"new", "load"} -> 0
             [] s.pc = "ports" -> 1
             [] s.pc = "gather" -> IF s.type = "default" /\ s.kind = "slow" THEN 3 ELSE 2
             [] s.pc \in {"none", "done"} -> 4

\* A scan only goes forward, so that it must end: no task asks again what it asked
\* before, whatever answers, errors, timeouts and Stop do to it (a Stop alone leaves
\* it where it is), and only a later part of the scan or another scan makes a task
\* for a port again.
OnlyForward ==
    [][/\ \A p \in Ports : Alive(p) =>
              \/ tasks'[p] \in {tasks[p], [tasks[p] EXCEPT !.cancel = TRUE]}
              \/ Further(tasks[p], tasks'[p])
       /\ scan'.pc # scan.pc \/ (\E p \in Ports : ~Alive(p) /\ Alive(p)')
              => Len(ends') > Len(ends) \/ Part(scan') > Part(scan)]_vars

\* After Stop no task is created for a port, none begins and none sends another
\* request, until the scan is over.
NothingNewAfterStop ==
    [][scan.cancel =>
         \A p \in Ports :
             /\ tasks'[p].pc = "new" => tasks[p].pc = "new"
             /\ tasks'[p].pc = "rpc" => /\ tasks[p].pc = "rpc"
                                        /\ tasks'[p].unit = tasks[p].unit
                                        /\ tasks'[p].turn = tasks[p].turn
                                        /\ tasks'[p].stage = tasks[p].stage]_vars

\* tests/checklist.md on the end of a scan, and once more on Stop: "scanning" is false
\* and "progress" is 0.  Not so for a scan that is stopped, or gets an error for an
\* answer, while it waits for the list of ports.
OverIsIdle ==
    Ended(Results) /\ Quiet => ~published.scanning /\ published.progress = 0

\* The Stops that wait for the scan there is, and for one that is over
AskedStops == {c \in Clients : awaits[c] # 0 /\ ~Over(awaits[c])}
OwedStops == {c \in Clients : awaits[c] # 0 /\ Over(awaits[c])}

\* The bus scanner keeps the promises of ScanService: however requests, answers,
\* failures and the tasks interleave, a client sees one scan at a time, a Stop
\* answered when its scan is over, and no port used by a scan while a Stop of an
\* earlier one is unanswered.
Service == INSTANCE ScanService WITH
    busy <- ScanAlive, working <- ~AllDone, asked <- AskedStops, owed <- OwedStops,
    answer <- reply
ServiceKept == Service!Spec

\* Every scan ends, although requests, answers and Stop may never come.
ScanEnds == ScanAlive ~> ~ScanAlive

\* Every Stop is answered.
StopAnswered == \A c \in Clients : awaits[c] # 0 ~> awaits[c] = 0

\* What the tasks tell the state manager is published in the end.
StatePublished == mgr.queue # <<>> ~> mgr.queue = <<>> /\ published = StateJson(state, mgr)
=============================================================================
