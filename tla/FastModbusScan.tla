--------------------------- MODULE FastModbusScan ---------------------------
(***************************************************************************)
(* FastModbusScanner of fast_modbus_scan.py: on every port, with every     *)
(* setting, wb-mqtt-serial is asked for devices until it has no more.      *)
(***************************************************************************)
EXTENDS PortScan

\* The devices one answer may hold: none, one, or the same one twice is what
\* the properties can tell apart.
CONSTANT FastReplies
ASSUME FastConstants == FastReplies \subseteq Seq(Serials)

\* get_scan_items_count
FastItems(serial, tcp) == serial * FastConfigs + tcp

FoundDevices(m, devs) ==
    [m EXCEPT !.found_devices = @ \o devs,
              !.queue = @ \o [i \in 1 .. Len(devs) |-> [device |-> devs[i]]]]

FailedUnit(m, t, p) == EndUnit(AddErrorPort(m, Item(t, p)), t, p)

\* An answer without devices ends the unit, whatever else it says; every device
\* of another answer is reported, found before or not.
FastFindsNothing(p) ==
    /\ Waits(p, "fast") /\ HasAnswer(p)
    /\ <<>> \in FastReplies
    /\ Moves(p, EndUnit(mgr, tasks[p], p))

FastFinds(p) ==
    /\ Waits(p, "fast") /\ HasAnswer(p)
    /\ tasks[p].turn < MaxRounds
    /\ \E devs \in FastReplies \ {<<>>} :
           Moves(p, [mgr |-> FoundDevices(mgr, devs),
                     task |-> Asks(tasks[p], tasks[p].turn + 1, "scan")])

\* Devices and an error in one answer, or devices the scanner cannot read after
\* some that it can.
FastFindsAndFails(p) ==
    /\ Waits(p, "fast") /\ HasAnswer(p)
    /\ \E devs \in FastReplies \ {<<>>} :
           Moves(p, FailedUnit(FoundDevices(mgr, devs), tasks[p], p))

\* Mutated: the request is made again.
FastAsksAgain(p) ==
    /\ Waits(p, "fast") /\ (HasAnswer(p) \/ TimesOut(p))
    /\ Moves(p, [mgr |-> AddErrorPort(mgr, Item(tasks[p], p)),
                 task |-> Asks(tasks[p], tasks[p].turn, "scan")])

\* An error answer, an answer that is no object, or no answer.
FastFails(p) ==
    /\ Waits(p, "fast") /\ (HasAnswer(p) \/ TimesOut(p))
    /\ Moves(p, FailedUnit(mgr, tasks[p], p))

\* CancelledError is no Exception: nothing catches it, the port stays listed.
FastCancelled(p) ==
    /\ Waits(p, "fast") /\ IsCancelled(p)
    /\ Moves(p, [mgr |-> mgr, task |-> DoneTask])

FastStep(p) == \/ FastFindsNothing(p)
               \/ FastFinds(p)
               \/ FastFindsAndFails(p)
               \/ FastFails(p)
               \/ FastCancelled(p)
=============================================================================
