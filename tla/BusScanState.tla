---------------------------- MODULE BusScanState ----------------------------
(***************************************************************************)
(* BusScanStateManager of bus_scan_state.py: what the scanning tasks tell  *)
(* it, the unbounded queue in between, and the one consumer task that      *)
(* applies the queued events to the state and publishes every result.      *)
(*                                                                         *)
(* The two port sets are Python objects shared by reference: an event and  *)
(* the state hold the object, not a copy of it.  A reference is the number *)
(* of the object, in the order the manager made them (the last one is the  *)
(* one it uses now); 0 stands for the literal [] of the source.            *)
(*                                                                         *)
(* Nothing here awaits anything but an empty queue, so each method runs    *)
(* inside one step of the asyncio task that calls it: a method is an       *)
(* operator from a manager to a manager, and the callers compose them.     *)
(***************************************************************************)
EXTENDS Integers, Sequences

CONSTANTS SerialPorts,   \* serial port paths
          TcpPorts,      \* "address:port" strings, Modbus RTU over TCP or Modbus TCP
          UartConfigs,   \* how many settings get_all_uart_params() yields
          NumIds,        \* how many slave ids there are to try
          Serials,       \* serial numbers a device can answer with
          MaxBacklog     \* bound: events that may wait while other tasks run

ASSUME StateConstants ==
    /\ SerialPorts \cap TcpPorts = {}
    /\ UartConfigs \in Nat \ {0}
    /\ NumIds \in Nat \ {0}
    /\ MaxBacklog \in Nat

Ports == SerialPorts \cup TcpPorts
\* str(port_config): the port and, for a serial one, the settings in use
Items == Ports \X (0 .. UartConfigs)
\* make_sn_for_device_in_bootloader names a device by its address and item
Sns == Serials \cup (Items \X (1 .. NumIds))

VARIABLES mgr, state, consumer, published
stateVars == <<mgr, state, consumer, published>>
-----------------------------------------------------------------------------
NoError == [id |-> "none", failed_ports |-> 0]
GenericError == [id |-> "generic_error", failed_ports |-> 0]
RpcTimeoutError == [id |-> "rpc_call_timeout_error", failed_ports |-> 0]
FailedScanError(ref) == [id |-> "failed_to_scan_error", failed_ports |-> ref]

ErrorIds == {"none", "generic_error", "rpc_call_timeout_error", "failed_to_scan_error"}
Errors == [id : ErrorIds, failed_ports : Nat]

\* An event is the dict of the fields it changes, or a DeviceInfo.
Events == [scanning : BOOLEAN, progress : {0}]
     \cup [scanning : BOOLEAN, progress : {0}, error : Errors, devices : {<<>>}]
     \cup [scanning : BOOLEAN, progress : Nat, scanning_ports : Nat]
     \cup [scanning : BOOLEAN, progress : Nat, scanning_ports : Nat, error : Errors]
     \cup [scanning_ports : Nat, is_ext_scan : BOOLEAN]
     \cup [scanning_ports : Nat, progress : Nat]
     \cup [error : Errors]
     \cup [device : Sns]

\* The port sets the manager has made so far
Objects == Seq(SUBSET Items) \ {<<>>}

Managers == [queue : Seq(Events),
             ports_now_scanning : Objects,
             ports_errored : Objects,
             found_devices : Seq(Sns),
             total_items : Nat,
             current_item : Nat]

States == [progress : Nat, scanning : BOOLEAN, scanning_ports : Nat,
           is_ext_scan : BOOLEAN, error : Errors, devices : Seq(Sns)]

Published == [progress : Nat, scanning : BOOLEAN, scanning_ports : SUBSET Items,
              is_ext_scan : BOOLEAN, error : ErrorIds, failed_ports : SUBSET Items,
              devices : Seq(Sns)]

StateTypeOK ==
    /\ mgr \in Managers
    /\ state \in States
    /\ consumer \in {"new", "waiting", "draining"}
    /\ published \in Published
-----------------------------------------------------------------------------
Put(m, event) == [m EXCEPT !.queue = Append(@, event)]

NowScanning(m) == m.ports_now_scanning[Len(m.ports_now_scanning)]
Errored(m) == m.ports_errored[Len(m.ports_errored)]

\* ProgressMeter.increment: the item reached and the percentage it returns
NextItem(m) == IF m.current_item < m.total_items THEN m.current_item + 1
                                                 ELSE m.current_item
Percent(done, total) == (100 * done + total - 1) \div total
Progress(m) == IF m.total_items = 0 THEN 0
               ELSE IF m.current_item >= m.total_items THEN 100
               ELSE Percent(NextItem(m), m.total_items)

SetScanItemsCount(m, count) == [m EXCEPT !.total_items = count, !.current_item = 0]

AddScanningPort(m, item, ext) ==
    LET ref == Len(m.ports_now_scanning)
    IN  Put([m EXCEPT !.ports_now_scanning[ref] = @ \cup {item}],
            [scanning_ports |-> ref, is_ext_scan |-> ext])

RemoveScanningPort(m, item) ==
    LET ref == Len(m.ports_now_scanning)
    IN  Put([m EXCEPT !.ports_now_scanning[ref] = @ \ {item},
                      !.current_item = NextItem(m)],
            [scanning_ports |-> ref, progress |-> Progress(m)])

AddErrorPort(m, item) ==
    LET ref == Len(m.ports_errored)
    IN  Put([m EXCEPT !.ports_errored[ref] = @ \cup {item}],
            [error |-> FailedScanError(ref)])

\* Mutated: the device found last is not looked at.
IsDeviceFoundButLast(m, sn) ==
    \E i \in 1 .. Len(m.found_devices) - 1 : m.found_devices[i] = sn
IsDeviceFound(m, sn) == \E i \in 1 .. Len(m.found_devices) : m.found_devices[i] = sn

FoundDevice(m, sn) ==
    Put([m EXCEPT !.found_devices = Append(@, sn)], [device |-> sn])

CompleteEvent == [scanning |-> TRUE, progress |-> 100, scanning_ports |-> 0]
IdleEvent == [scanning |-> FALSE, progress |-> 0]
\* Mutated: the ports stay listed.
FinishedEventKeepsPorts(error) == [scanning |-> FALSE, progress |-> 0, error |-> error]
FinishedEvent(error) == [scanning |-> FALSE, progress |-> 0, scanning_ports |-> 0,
                         error |-> error]

ScanComplete(m) == Put(Put(m, CompleteEvent), IdleEvent)
ScanFinished(m, error) == Put(m, FinishedEvent(error))

\* Mutated: the old results are never taken off the state.
StartEventKeepsResults(preserve) == [scanning |-> TRUE, progress |-> 0]
StartEvent(preserve) ==
    IF preserve THEN [scanning |-> TRUE, progress |-> 0]
    ELSE [scanning |-> TRUE, progress |-> 0, error |-> NoError, devices |-> <<>>]

\* Mutated: the numbers found before are kept.
ResetKeepsFound(m, preserve) ==
    [Put(m, StartEvent(preserve)) EXCEPT
        !.ports_now_scanning = Append(@, {}),
        !.ports_errored = Append(@, {})]
\* Mutated: the failed ports of the scan before stay in the set.
ResetKeepsErrored(m, preserve) ==
    [Put(m, StartEvent(preserve)) EXCEPT
        !.found_devices = IF preserve THEN @ ELSE <<>>,
        !.ports_now_scanning = Append(@, {})]
Reset(m, preserve) ==
    [Put(m, StartEvent(preserve)) EXCEPT
        !.found_devices = IF preserve THEN @ ELSE <<>>,
        !.ports_now_scanning = Append(@, {}),
        !.ports_errored = Append(@, {})]
-----------------------------------------------------------------------------
\* The progress only grows, or returns to 0; an event may have none.
\* Mutated: an event without progress counts as one with 0.
NewProgressOrZero(s, event) ==
    IF "progress" \in DOMAIN event
    THEN IF event.progress > s.progress THEN event.progress ELSE s.progress
    ELSE 0
NewProgress(s, event) ==
    IF "progress" \in DOMAIN event /\ (event.progress = 0 \/ event.progress > s.progress)
    THEN event.progress ELSE s.progress

\* BusScanState.update, and the device or the progress the consumer takes out
Applied(s, event) ==
    LET Has(field) == field \in DOMAIN event
    IN  [progress |-> NewProgress(s, event),
         scanning |-> IF Has("scanning") THEN event.scanning ELSE s.scanning,
         scanning_ports |-> IF Has("scanning_ports") THEN event.scanning_ports
                                                     ELSE s.scanning_ports,
         is_ext_scan |-> IF Has("is_ext_scan") THEN event.is_ext_scan ELSE s.is_ext_scan,
         error |-> IF Has("error") THEN event.error ELSE s.error,
         devices |-> IF Has("device") THEN Append(s.devices, event.device)
                     ELSE IF Has("devices") THEN event.devices ELSE s.devices]

\* What state_json writes: the objects behind the references, as they are now.
Deref(objects, ref) == IF ref \in DOMAIN objects THEN objects[ref] ELSE {}
StateJson(s, m) ==
    [progress |-> s.progress, scanning |-> s.scanning,
     scanning_ports |-> Deref(m.ports_now_scanning, s.scanning_ports),
     is_ext_scan |-> s.is_ext_scan,
     error |-> s.error.id, failed_ports |-> Deref(m.ports_errored, s.error.failed_ports),
     devices |-> s.devices]

StateInit ==
    /\ mgr = [queue |-> <<>>, ports_now_scanning |-> <<{}>>, ports_errored |-> <<{}>>,
              found_devices |-> <<>>, total_items |-> 0, current_item |-> 0]
    /\ state = [progress |-> 0, scanning |-> FALSE, scanning_ports |-> 0,
                is_ext_scan |-> FALSE, error |-> NoError, devices |-> <<>>]
    /\ consumer = "new"
    /\ published = StateJson(state, mgr)   \* stands for "nothing yet"

\* The first step of the consumer task, the first task of the event loop.
ConsumerStarts ==
    /\ consumer = "new"
    /\ consumer' = "waiting"
    /\ published' = StateJson(state, mgr)
    /\ UNCHANGED <<mgr, state>>

\* Mutated: the state is published before the event is applied.
ConsumePublishesFirst ==
    /\ consumer # "new" /\ mgr.queue # <<>>
    /\ published' = StateJson(state, mgr)
    /\ state' = Applied(state, Head(mgr.queue))
    /\ mgr' = [mgr EXCEPT !.queue = Tail(@)]
    /\ consumer' = IF Len(mgr.queue) > 1 THEN "draining" ELSE "waiting"

\* One turn of the consumer's loop.  It does not give the event loop back
\* before the queue is empty.
Consume ==
    /\ consumer # "new" /\ mgr.queue # <<>>
    /\ state' = Applied(state, Head(mgr.queue))
    /\ published' = StateJson(state', mgr)
    /\ mgr' = [mgr EXCEPT !.queue = Tail(@)]
    /\ consumer' = IF Len(mgr.queue) > 1 THEN "draining" ELSE "waiting"

\* Another task may take a step.  The consumer, woken by the first put, waits
\* its turn behind the tasks that were already ready; MaxBacklog bounds what
\* they can queue before it.
LoopFree == consumer = "waiting" /\ Len(mgr.queue) <= MaxBacklog
=============================================================================
