# wb-device-manager in TLA+

wb-device-manager finds Wiren Board Modbus devices. Over MQTT RPC it takes
`bus-scan/Start` and `bus-scan/Stop`, asks wb-mqtt-serial to talk to the buses,
and publishes what it finds, with the progress, in the retained topic
`/wb-device-manager/state`. It also passes deprecated `fw-update` requests on.

This directory models the service, checks the model with TLC and proves what
matters most with TLAPS. `PROJECT.json` maps every definition to source lines
and lists runs, mutants, findings, hazards and theorems. Paths below are relative
to `wb/device_manager/` of the repository unless they begin otherwise.

    tlc -workers 2 -config MCTwoScans.cfg MCScanFailures # any .cfg, module as in PROJECT.json
    tlapm BusScan_proofs.tla                             # any of the _proofs, _queue, ...

## 1. Inventory

The process has two threads: paho's network thread, which runs the `_on_mqtt_*`
callbacks, and the main thread, which runs one asyncio event loop. All of the
scanning lives in the event loop, as tasks that switch only at an `await` that
really suspends: inside an RPC call, a gather, an empty queue, or the wait of Stop.

| Component | State it keeps | Operations | Interacts with |
| :- | :- | :- | :- |
| State manager, `bus_scan_state.py` | the state, two sets of ports, serial numbers found, progress meter, unbounded update queue | `add_/remove_scanning_port`, `add_error_port`, `found_device`, `scan_complete`, `scan_finished`, `reset`, the consumer task, `publish_state`, `clear_state` | called by all scanners; the consumer publishes; `publish_state` is also called by the network thread |
| Bus scanner, `bus_scan.py` | the last scan task | `launch_bus_scan`, `stop_bus_scan`, `scan_serial_bus`, `get_ports` | creates the scan task, which gathers the port tasks |
| Fast scanner, `fast_modbus_scan.py` | none between awaits but its position | one task per port, `port/Scan` until no device is left | RPC client, state manager |
| One-by-one scanner, `one_by_one_scan.py` | the same | one task per port, `device/Probe` for each slave id | RPC client, state manager |
| Bootloader scanner, `bootloader_scan.py`, over `serial_rpc.py`, `serial_device.py` | the same | one task per port, two or three register reads for each slave id | RPC client, state manager |
| RPC client, `mqtt_rpc.py` and python3-mqttrpc | pending futures by packet id, subscribed reply topics | `make_rpc_call`, replies, reset of subscriptions on a disconnect | network thread fills the futures |
| RPC server, `mqtt_rpc.py` | list of requests in processing | `_on_mqtt_message`, `run_async`, `reply` | network thread adds, event loop removes |
| Firmware proxy, `fw_update_proxy.py` | none | four forwarded calls | RPC client |
| Life cycle, `main.py`, `mqtt_rpc.py` | exit code, connection | setup, signals, cancellation of pending tasks, removal of retained topics | everything |

What is hard here, and what makes each part correct:

* **State manager.** Several tasks fill one queue, one task empties it, and the
  sets of ports are shared by reference between manager, events and state. Correct:
  the end of a scan is the last thing shown of it; a new scan shows nothing old;
  progress does not go back; the list that decides about duplicates agrees with the
  published one; failed ports are those of this scan; updates get published.
* **Bus scanner.** Stop may come at any await of any task, two clients may race,
  loading the ports may be answered, fail, time out or be cancelled. Correct: no
  task outlives its scan; nothing is begun after Stop; Stop answers when all is
  over; every scan ends; every way to end is published.
* **Scanners.** Each exception class ends a different amount of work (a slave id, a
  setting, the port). Correct: every failed port is reported, a device is listed
  once, the number of items announced is the number scanned.
* **RPC client.** Answer, timeout and cancellation race; late and repeated replies;
  subscriptions lost on a disconnect. Correct: each call ends, and the client knows
  what it is subscribed to.
* **RPC server and proxy.** Recorded in one thread, removed in the other. Correct:
  each request is answered once, and what is in processing is what is recorded.
* **Life cycle.** Signal, rejected login and reconnect race with the shutdown.
  Correct: no retained topic is left, or an error says that it may be; the service
  ends whatever the link does.

## 2. Modules

Three groups of modules, each with a specification of its own: scanning, the life of
the service with its retained topics, and the RPC. What one takes from another is
stated with it; what falls between them is in section 5.

    BusScanState          queue, consumer, published state       bus_scan_state.py
      PortScan            tasks of the ports, an RPC and its end bus_scan.py, mqtt_rpc.py
        FastModbusScan    |                                      fast_modbus_scan.py
        OneByOneScan      | one scanner each                     one_by_one_scan.py
        BootloaderScan    |                                      bootloader_scan.py
          BusScan         requests, scan task, Spec, properties  bus_scan.py
            MCBusScan     values for TLC
            ScanFailures  the history of the ports that failed   bus_scan.py, the scanners
              MCScanFailures
            BusScan_proofs             the inductive invariant
              BusScan_refinement       BusScan implements ScanService
              BusScan_queue            what the queue leads to, with ScanFailures
                BusScan_shown          what a client is shown of a scan
              BusScan_count            what the progress meter counts
              BusScan_forward          why a scan ends
    ScanService           what a client may count on; BusScan implements it

    Broker                MQTT client library and broker         (external)
      StateTopic          the two publishers of the state        bus_scan_state.py, mqtt_rpc.py
        Lifecycle         run() to its end, Spec, properties     mqtt_rpc.py
          MCLifecycle
          Lifecycle_proofs

    RpcClient             calls, replies, subscriptions          mqtt_rpc.py
      RpcServer           requests, tasks, replies, Spec         mqtt_rpc.py, fw_update_proxy.py
        MCRpc             values for TLC
        RpcServer_proofs
    RequestService        what a client may count on; RpcServer implements it

An action is what one asyncio task does between two awaits that suspend it, so
each module that is extended gives operators or actions and `BusScan` is the one
with a `Spec`. `put` on an unbounded `asyncio.Queue` never suspends, so a method of
the state manager runs inside the step that calls it: it is an operator from a
manager record to a manager record (`Reset`, `AddErrorPort`, ...) and steps compose
them.

**BusScanState.** `mgr` holds the queue, the objects the two port sets have been
bound to, the numbers found and the meter. A reference to a set is the number of
the object, so that a set mutated after it was put into an event is seen mutated
(`Deref` at publication), and `Reset` binds a new one. `state` is the
`BusScanState`, `published` the last JSON. `Consume` is one turn of the consumer's
loop; it keeps the loop until the queue is empty (`LoopFree` guards all others).

**PortScan.** `tasks[p]` is the task of port p: not begun, waiting for an RPC, done;
its unit (one port setting), its turn (position of the slave id in the order
tried), its stage, whether an answer has come, whether it is cancelled. `EndUnit`
removes the port and adds it with the next setting in one step, because the code
does not suspend in between. `HasAnswer`, `TimesOut` and `IsCancelled` are the three
ways `make_rpc_call` can end.

**KeepsAnswer.** `asyncio.wait_for` up to Python 3.11 returns the result when it is
cancelled with its future already done; from 3.12 on it raises CancelledError. The
package allows Python 3.9 and later (`debian/control:15`), so this is a constant
and both values are checked.

**The scanners.** Each has one action for each way an RPC can end there. What an
exception class costs is in the action: `FastFails` ends the setting,
`SlowFails` ends the port with all its other settings, `BootSkips` ends the slave
id, `BootFails` also reports the port and goes on.

**BusScan.** `scan` is the last scan task, `ends` how each one ended, `awaits[c]` the
scan whose end the Stop of client c waits for, `reply[c]` its last reply. The way a
default scan goes from its fast to its one-by-one part is `GatherReturns`. A
cancellation of the scan task while it gathers is passed to every port task in the
same step, as `Task.cancel` and `gather` do, and the gather ends when all of them
are done.

Two guards come from the order in which asyncio runs what is ready. The last event
of a scan wakes the consumer before the end of the scan task wakes Stop, so
`StopReturns` finds the queue empty. The consumer and a Stop that waits for that end
are then both woken before the task of a later scan is created, so they run before
its first step (`ScanReady`).

**ScanFailures.** `BusScan` with one more variable, `failed`: the ports (with the settings
of that moment) whose scan has met an error that nothing handles, since the last
Start. It is told by the steps themselves, an answer that raises (`AnswerFails`) or a
number that cannot be read (`NumberFails`), and has no part in any guard, so it shows
what the state manager *should* publish whether or not a scanner calls
`add_error_port`. `HSpec` is `Spec` with that history.

**ScanService.** The promise to a client, in five variables: is there a scan, are
ports in use, whose Stop waits for the scan, whose Stop waits although it is over,
the last answers. `BusScan` maps to it: `busy` is `ScanAlive`, `working` is
`~AllDone`, `asked` and `owed` are the clients with an `awaits` whose scan is alive
or over. A port is used only while no Stop is owed: an old scan cannot come back
between its end and the answer to its Stop, and a new one waits for that answer.

**Broker.** paho-mqtt, wb_common's client and mosquitto, as far as the service uses
them. QoS 0 is lost without a link; QoS 1 is kept under a message id, sent again
after the next `on_connect` returns, in the order of the ids, and confirmed once
the broker has it. `Break` loses what is on its way and may lose what the broker
retains (a restart without persistence). A confirmation and a callback come from
the same thread, one after the other.

**StateTopic.** The consumer changes the state in two parts and publishes it; the
network thread reads it in two parts and publishes what it read. A state is the
number of events applied to each part, which is all that tells an old or a torn
one from the last.

**Lifecycle.** `phase` is the position in `run()`: `run_forever`, the second
run of the loop that cancels the tasks, `is_connected`, the clears one by one, the
wait, `stop`. `clears` holds the `MQTTMessageInfo`s, `since` the session the clearing
began in. The network thread goes on in every phase until `ClientStops`. One topic
stands for those of all methods, `signals` for SIGINT and SIGTERM.

**RpcClient.** A `Call` stands where `call_async` has added its topic to `subscribes`. The
network thread may run `on_disconnect` in the middle of it; what the call sent goes down
with the link then, and its topic comes into the set after it was emptied: the outcome of
a `Call` made "down". `calls[id]` is a call by packet id: its method, its future, how its
await ended. `subscribes` is the client's set, `subscribed` the broker's; a
disconnect empties the second at once and the first when the network thread
notices (`OnDisconnect`). A reply goes from the network thread to the loop through
`posted`, which is `call_soon_threadsafe`. A null result posts nothing.

**RpcServer.** `processing` is `_NOW_PROCESSING`; `Accept` and `Refuse` are the
network thread's, all steps of `tasks[n]` the event loop's. The task of a proxied
request is one call of `RpcClient`; "local" stands for a handler that does not wait,
such as `bus-scan/Start`. Between a reply and the removal from the list the loop runs
nothing else (`LoopFree`), but the network thread does: `Remove` is an action of its
own for that reason.

**RequestService.** The promise to those who send requests, in three variables: the
requests in execution, those of them that have had their reply, the replies.
`RpcServer` maps to it: `open` is what `IsProcessing` says of the shared list, `told`
the requests of the tasks that have replied and not yet left the list, `log` the
answers without what is the matter of the call (its result, its error). A refusal is a
reply that needs an equal request to be open, and does not count as its reply.

## 3. Runs

| Run | Question | Properties | States |
| :- | :- | :- | -: |
| two_scans | Does a second scan, with or without the old results, get mixed up with the first? | `IInv`, `DevicesMatchFound`, `FoundOnce`, `FailedPortsReported`, `FreshScanShowsNothing` | 0.84 M |
| all_scans | Do all scan types count, show and end what they scan, with whatever ports? | `EndIsPublished`, `ProgressReachesEnd`, `ScannedPortsShown`, `FailedPortsReported`, `ProgressNeverDrops`, `OnlyForward` | 0.41 M |
| stop_scan | Is a scan over when Stop is answered, whatever the moment, with two clients? | `NoOrphanTasks`, `StopMeansStopped`, `NothingNewAfterStop`, `ServiceKept` | 1.3 M |
| liveness | Does every scan end, every Stop return, every update get out? | `ScanEnds`, `StopAnswered`, `StatePublished` | 50 k |
| lifecycle | What does the state topic show, what is left behind, does the service end, whatever the link does? | `IInv`, `ConsumerHasLastWord`, `TopicsCleared`, `ClearsConfirmed`, `ShownAgain`, `StopEnds` | 0.66 M |
| rpc | Is each request executed once, and answered once? | `IInv`, `NeverTwice`, `ProcessingMatches`, `AnsweredOnce`, `DeafOnlyIfCalledOffline`, `RequestsEnd`, `ServiceKept` | 0.50 M |
| loading | Finding 1 | `OverIsIdle` is violated | small |
| stop_keeps_answer | Finding 2 | `NothingNewAfterStop` is violated | small |
| second_signal | Finding 3 | `SignalsEndWell` is violated | small |
| connect_at_exit | Finding 4 | `RemovedAtExit` is violated | small |
| called_offline | Finding 5 | `Resubscribed` is violated | small |
| bad_number | Finding 6 | `EveryFailureReported` is violated | small |

What the properties say is next to each of them in `BusScan.tla`, `ScanFailures.tla`,
`Lifecycle.tla` and `RpcServer.tla`. two_scans, all_scans and bad_number are run over
`HSpec` with MCScanFailures. `FoundOnce` is about scans that look a device up before they
report it: the fast scanner reports whatever each answer holds, so it is checked on the
two other scan types. `FailedPortsReported` compares what is published with the history of
what failed, not with what the manager was told; `ProgressReachesEnd` and
`FailedPortsReported` leave the TCP ports without a number out, and `EveryFailureReported`
shows what becomes of those (finding 6).

### Bounds, and why they are enough

* `SerialPorts`, `TcpPorts`: one serial and one TCP port (a third, malformed, in
  all_scans, which scans any two of them). Serial and TCP ports differ in their units; two tasks give every
  interleaving of two actors that share the manager. The proofs are for any sets.
* `UartConfigs`, `FastConfigs` (48 and 24 in the code) are 1 or 2, `NumIds` (246) is
  1 or 2: a first, a next and a last one. A setting is its number in the order it is
  tried. The fast and the one-by-one scan both start with the same settings; from
  the fourth on a number stands for different ones in the code, so `FastConfigs` is 1.
* `OooCounts`: how many ids a bootloader scan is asked to try first, always fewer than
  `NumIds` (an assumption of the model, also of its proofs). The code checks nothing:
  a client may name all 246 ids, one of them twice, or ids outside of 1 to 246.
* `MaxRounds`: answers with devices in a row that a fast scan gets. The code has no
  limit (see fairness).
* `MaxBacklog`: events queued while the woken consumer waits its turn behind tasks
  that were ready before it; 1 lets a second task queue behind a first. A task may
  add several events in its one step.
* `MaxScans`: 2 where a scan can meet what another one left, otherwise 1.
* `Clients`: 2 where Stop races with Start and Stop, otherwise 1.

* lifecycle: two sessions, so that one can begin at any moment of the other's
  shutdown and a broker can forget; one event, which is enough for an old and a torn
  state; one signal (two in second_signal) and one rejected login. The three topics
  are one of each kind of clear. The proofs are for any number of each.
* rpc: one method asked for by two clients and a local request, three requests,
  three calls, two sessions: a call that timed out, its late reply and a later call of
  the same method; a call before, during and after a lost connection.

Deadlock is checked in the runs of `BusScan`: a refused request is always possible,
so it only says that the consumer starts. In the other two models the service really
stops, or nothing more comes, so `CHECK_DEADLOCK` is off there; `StopEnds` and
`RequestsEnd` say what a deadlock would break.

### Fairness

`FairSpec` has weak fairness of the consumer, of each port task, of the scan task
and of each Stop that can return: the event loop runs every ready task, and a
pending `wait_for` is ended by its timer (`TimesOut`, `PortsTimeOut` are always
enabled while no answer is there, so a task that waits can always move). Nothing
makes an answer or a request come. The one assumption about the outside is
`MaxRounds`: a bus that answered a fast scan with devices for ever would keep the
scan going for ever, in the code too.

`Lifecycle!FairSpec` has weak fairness of the main thread, of the consumer once it
has an event, of the callback and of the network. `MainStep` holds `TasksEnd`: the
cancelled tasks end, which `ScanEnds` justifies for the scan and `RequestsEnd` for
the requests; and `WaitTimesOut`, the deadline of five seconds. `OnConnect` is in the
fairness because paho tries again for ever: a link that stays down, below the
bound of the sessions, would make `ShownAgain` say nothing. `StopEnds` does not depend on
it: without a connection the service goes from `CheckConnected` to its end. Events,
signals, broken links and rejected logins never have to happen.

`RpcServer!FairSpec` has weak fairness of the tasks alone: their timers always
fire. wb-mqtt-serial, the link and the network thread owe nothing.

### Findings

1. **Stop, or an error answer, while the list of ports is loaded** (`bus_scan.py:161`).
   The await is outside of the `try` that calls `scan_finished`, and only a timeout is
   caught there. A Stop, or an error for an answer to ports/Load, ends the task with
   nobody told: the state topic shows the scan as running, without an error, until
   another one ends. `tests/checklist.md:37` and `:41` ask for `"scanning": false`,
   `README.md:170` of the repository for `generic_error`.
2. **Stop just after an answer, Python 3.9 to 3.11** (`mqtt_rpc.py:80`). `wait_for`
   swallows the cancellation; the port is scanned to its end with all its settings
   and Stop is not answered before. `tests/checklist.md:43` asks that the scan has
   stopped. For later versions the opposite is proved (`StopIsFinal`).
3. **A second signal during the shutdown** (`mqtt_rpc.py:193`). The handlers are
   still `loop.stop` when the loop runs again to cancel the tasks: `run_until_complete`
   raises RuntimeError out of `main()`, the retained topics stay and the exit code is 1.
   `tests/checklist.md:12` and `:13` ask for 0, removed topics and no complaint.
4. **A connect while the topics are removed** (`mqtt_rpc.py:163`). What is left of an
   `on_connect`, or a whole one after a reconnect, publishes behind the clears. All of
   them are confirmed, so nothing is logged, the exit code is 0 and the topics are
   retained, against `tests/checklist.md:12`. Without a connect in that time nothing is
   left: proved (`NothingLeftBehind`).
5. **A call without a connection** (`mqtt_rpc.py:243`). It puts its reply topic back
   into the set that `on_disconnect` has emptied; after the reconnect every call of the
   method is sent without a subscription and times out, until the link breaks again.
   `tests/checklist.md:15` asks for a service that works after a reconnect. That this
   is the only way to be wrong about a subscription is proved (`DeafOnly`); a call that
   `on_disconnect` comes into before it has added its topic counts as one (see RpcClient).
6. **A TCP port without a number** (`fast_modbus_scan.py:161`, `one_by_one_scan.py:121`,
   `bootloader_scan.py:175`). `int()` stands outside of the handlers that call
   `add_error_port`, and `gather(return_exceptions=True)` drops its ValueError: the scan
   completes with progress 100 and no error, though `README.md:173` of the repository
   promises `failed_to_scan_error` with the port. That every other failure is
   reported is proved (`FailuresShown`).

## 4. Proofs

`BusScan_proofs.tla` proves, for all constants that satisfy the named assumptions
(`StateConstants`, `TaskConstants`, `FastConstants`, `ScanConstants`: finite sets of
ports, at least one setting and one slave id, `FastConfigs <= UartConfigs`, fewer ids
to try first than there are ids):

| Theorem | Statement |
| :- | :- |
| `Invariance` | `Spec => []IInv` |
| `TypeCorrect` | `Spec => []TypeOK` |
| `NoOrphans` | `Spec => []NoOrphanTasks` |
| `EndPublished` | `Spec => []EndIsPublished` |
| `StopAnswer` | `Spec => StopMeansStopped` |
| `StopIsFinal` | `~KeepsAnswer` implies `Spec => NothingNewAfterStop` |

Why an inductive invariant: `EndIsPublished` speaks of an empty queue and says
nothing while the queue is draining. `EndInQueue` adds what the queue holds then:
its last event ends the scan, and the ports are cleared with it or by the event
before it. That only holds because no event follows the end, so `IInv` has
`NoOrphanTasks`, which in turn needs the scan task to be in its gather while a port
task lives. `StopsInOrder` carries the end of a scan to the Stop that waits for it,
past a Start of the next one. `CancelReaches` says that a cancelled gather has no
port task without a cancellation; with answers that are dropped no step of a
port task but its last one is enabled then.

The layout follows the layers of the model: each operator of the manager keeps its
type; each step of a port task is a manager and a task of the right type
(`PortStepGood`); each step of the scan task ends in a `GoodScanStep`; the
consumer keeps `EndInQueue` (`ConsumeGood`); then one lemma per group of actions
(`ConsumerIInv`, `PortIInv`, `ScanIInv`, `RequestIInv`).

`BusScan_refinement.tla` proves `Refinement`, `Spec => ServiceKept`, with one lemma
for each kind of step. The mapping needs one fact that is not in `IInv`: `OneRunning`,
a scan without a recorded end is the last one and is alive, so the Stops that wait
for it are `asked` and all others `owed`. `StopsInOrder` and `NoOrphanTasks` of `IInv`
give the rest: no Stop is owed while a port task lives.

`BusScan_queue.tla` proves, from the same assumptions, what the consumer will show:

| Theorem | Statement |
| :- | :- |
| `DevicesAgree` | `Spec => []DevicesMatchFound` |
| `FailuresShown` | `HSpec => []FailedPortsReported` |
| `ProgressGrows` | `Spec => ProgressNeverDrops` |
| `NoDuplicates` | without a fast scan (`NoFast`), `Spec => []FoundOnce` |

These relate the state to everything that still waits in the queue. Instead of a fold,
the invariant `QInv` says that the queue *leads* from the state to a state to come:
there is a path with one state for each event (`Leads`), no step of which lowers the
progress of a scan that is shown. A put extends the path by a state (`LeadsPut`), the
consumer goes one step along it (`LeadsConsume`), and what a scan tells the manager
is then about the last state of the path only: it has the devices of `found_devices`,
the error that fits the failed ports, no scan when there is none. With an empty queue
that state is the one published. For `NoDuplicates` each task of a one-by-one or a
bootloader scan must have looked its device up in the list as it is (`TasksFit`).

`FailuresShown` has two halves. The path of the queue ends in the ports the manager was
told of (`ErroredShown`); that those are the ports that failed is `FailInv`, about the
history: each step that fails tells the manager its port and nothing else
does (`FailingStep`, `OtherStep`), and a Start empties both, the history at once and the
manager's set with the `Reset` of the scan task's first step. The halves meet because
`HSpec` implements `Spec` (`HistoryImplements`).

`BusScan_shown.tla` proves what a client is shown of a scan, in its first state and
until it ends:

| Theorem | Statement |
| :- | :- |
| `ShownInvariance` | `Spec => []ShownInv` |
| `PortsShown` | `Spec => []ScannedPortsShown` |
| `FreshStart` | `Spec => FreshScanShowsNothing` |

`ScannedPortsShown` is about the sets that are shared by reference: the state refers to
the number of an object, the tasks add to the object the manager is bound to, and an
event in the queue may still change which one the state refers to. `LastOf` says what a
field of the state will be when the queue is empty: the value in the last event that
has the field, or the one it has. In a scan that works (`Working`, from its `Reset` on)
the last word on the ports is the manager's present set, or the empty one before any
port was added; in a scan that does not gather (`Resting`) it is the empty one. The
queue holds only what the scan there is has told, its start first (`StartComesFirst`),
which rests on `ScanReady`. What the tasks do to the set is then three cases for every
scanner: a task that has no port adds its own, one that waits takes its own out and
may put its next one in, one that ends takes it out. `FreshStart` is the step of the
consumer that applies a start: the state before it has no ports, and the start sets
the rest.

`BusScan_count.tla` proves `CountReached`, `Spec => []ProgressReachesEnd`. `CountFits`
relates the meter to the units that the tasks have not ended: while a scan gathers, the
items counted, the units left (`Left`) and those of a second part (`Later`) are
together no more than the items announced, and just as many as long as nothing was
cancelled, malformed or failed. `LeftOfKind` is the arithmetic between the formulas
`FastItems`, `SlowItems`, `BootItems` and the units of the tasks made; `StepFits` says
that the unit a step ends is the one it counts (`PortStepCounts`).

`BusScan_forward.tla` proves `Forward`, `Spec => OnlyForward`: the half of "every scan
ends" that needs no fairness. A port task goes forward in the order of its settings,
slave ids, reads and the answer to each (`PortStepFurther`), which is a finite order:
`TasksInRange` of `IInv` bounds settings and slave ids, `MaxRounds` the requests of a fast
scan. Tasks are made for a port only by a later part of the scan, of which there are
three (`ScanStepForward`), or by another scan. A Stop leaves a task where it is, also
where its cancellation is swallowed. What remains for TLC (`ScanEnds`) is that such a
step is always possible until the end, and is taken.

`RpcServer_proofs.tla`, for any set of methods and any set of requests with a method
(`ClientConstants`, `ServerConstants`):

| Theorem | Statement |
| :- | :- |
| `Invariance` | `Spec => []IInv` |
| `OneAtATime` | `Spec => []NeverTwice` |
| `ListMatches` | `Spec => []ProcessingMatches` |
| `OneReply` | `Spec => []AnsweredOnce` |
| `DeafOnly` | `Spec => []DeafOnlyIfCalledOffline` |
| `Refinement` | `Spec => ServiceKept` |

`IInv` is proved in three parts that few steps touch together: the client's
(between `on_disconnect` and `on_connect` all of `subscribes` was called offline), the list's
(it has no request twice, which `remove()` needs to take the right one off:
`WithoutRemoves`) and the answers' (`AnsweredOnce` counts the tasks that owe a
reply; a step changes that set by one element at most).

`Refinement` has one lemma for each of accept, refuse, reply and remove, and needs no
more than `IInv`. A task that replies answers a request that is open, because
`ProcessingMatches` puts the request of every unfinished task in the list, and not
yet answered, because by `NeverTwice` no other unfinished task has it (`OpenByTask`).
The removal closes that request and no other, because the list holds it once
(`WithoutRemoves`). All that happens to the client and the link is a stutter.

`Lifecycle_proofs.tla`, for any number of sessions, events, signals and rejections
(`BrokerConstants`, `EventsConstant`, `LifecycleConstants`, `LifecycleTopics`):

| Theorem | Statement |
| :- | :- |
| `Invariance` | `Spec => []IInv` |
| `NothingLeftBehind` | `Spec => []TopicsCleared` |
| `EachConfirmed` | `Spec => []ClearsConfirmed` |
| `LastWordInvariance` | `Spec => []SInv` |
| `TopicAgrees` | `Spec => []ConsumerHasLastWord` |

`TopicsCleared` speaks of the end; what leads there is `ClearHolds`, for each clear
that was sent: it is on its way and nothing behind it fills the topic again, or it
has arrived and nothing on its way does. That holds in the session the clearing
began in, with no callback under way (`since = session`); a publication of the
consumer that is still on its way is before the clears, because the consumer was
cancelled before. A confirmed message is not on its way any more (`IInv`, third
part), so a confirmed clear has arrived. After a reconnect nothing holds but
`ClearsInOrder`, which is enough for `ClearsConfirmed`. `InOrder`, the order in which
kept messages are sent again, is given by the rank of a member in its set and not
recursively, so that the provers can use it; that there is a member of every rank
is proved by a smallest set that has none (`RanksExist`).

`ConsumerHasLastWord` speaks of a topic that nothing is on its way to; `LastWord` says
it of the messages on their way: the last of them about the state, and the topic itself
if there is none, holds the present state if the consumer says it. `SInv` has it while
the consumer rests and the service is connected, past the publication of `on_connect`
(`Speaking`). It needs `KeptClears`: what is sent again after a reconnect never is a
state, so an old one cannot come back behind the last. Nothing is said of what the
network thread publishes: it may have read an older or a torn state, and does so
in the model.

Only model-checked: liveness (`ScanEnds`, `StopAnswered`, `StatePublished`, `ShownAgain`,
`StopEnds`, `RequestsEnd`), which needs fairness and ENABLED. Every other property of
the passing runs is a theorem; `FoundOnce` and `NothingNewAfterStop` are theorems under
the condition their run has (`NoFast`, `~KeepsAnswer`).

## 5. Not modelled

* **Between the three groups.** `Lifecycle` has no requests: one that comes after
  `run_forever` has returned is never answered, and one that is being executed then
  is cancelled without a reply. Its consumer stands for the queue of `BusScanState`.
  The client of `RpcServer` is the proxy; the scanners use the same client under other
  methods, and see it as `PortScan` describes.
* **The libraries**, in `Broker` and parts of `RpcClient`, are modelled from how the
  code uses them and not from their sources, which the repository does not hold. What
  the findings and proofs rest on: paho runs its callbacks in one thread, one at
  a time, keeps QoS 1 messages and sends them again after `on_connect`, `is_connected`
  is true from the CONNACK on, and raises in `wait_for_publish` for a message that had
  no connection; mqttrpc keeps futures by packet id, so that a reply
  goes to the call it answers, and subscribes to a reply topic only if it is not in
  `subscribes`.
* The delivery of the server's own replies (QoS 2) to its clients: a reply is
  published. The time a wait takes: a timeout may come at any moment.
* What a device says of itself besides its number, decoding of registers
  (`serial_rpc.py`, `serial_device.py`), log messages, JSON layout.
* The proxy's repair of an error whose code or message has the wrong type: it is an
  error either way.
* Ids to try first that are all ids there are, come twice or are no slave ids (section 3).
* Two ports with one name in a list: one port here. Random order of slave ids: a
  position stands for an id, and which one is at it does not matter.
* A set of ports that changes size while the network thread serialises it: the
  callback may raise there and publish nothing.
* `math.ceil` of a floating point quotient (`bus_scan_state.py:158`) is the exact
  ceiling here; they differ by one for some counts (11 of 20 items gives 56).
* The consumer's branch for an event that is neither a dict nor a DeviceInfo: no
  caller puts one.
* Packaging and the command line: no state.

## 6. Plan

Written: all the modules above. What would add most next:

1. `RpcServer` with the handlers of `BusScan` in place of "local", and with the
   shutdown of `Lifecycle`: what a client is told when the service ends under it.
2. The exception `publish_state` may raise in the network thread when a set of ports
   changes size under it, and what is then missing after the reconnect.
3. `RequestService` and `ScanService` together: a client that sends Start and Stop as
   requests sees both, once the plan's first point is there.
