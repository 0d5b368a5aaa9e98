---------------------------- MODULE OneByOneScan ----------------------------
(***************************************************************************)
(* OneByOneBusScanner of one_by_one_scan.py: on every port, with every     *)
(* setting, every slave id is asked for its serial number.                 *)
(***************************************************************************)
EXTENDS PortScan

\* get_scan_items_count
SlowItems(serial, tcp) == serial * UartConfigs + tcp

\* The look-up and the append are in one step of the task: no await between.
SlowFinds(p) ==
    /\ Waits(p, "slow") /\ HasAnswer(p)
    /\ \E sn \in Serials :
           LET m == IF IsDeviceFound(mgr, sn) THEN mgr ELSE FoundDevice(mgr, sn)
           IN  Moves(p, NextTurn(m, tasks[p], p))

\* An answer without a serial number
SlowFindsNothing(p) ==
    /\ Waits(p, "slow") /\ HasAnswer(p)
    /\ Moves(p, NextTurn(mgr, tasks[p], p))

\* Mutated: the port is not taken out when its task fails.
SlowFailsKeepsPort(p) ==
    /\ Waits(p, "slow") /\ (HasAnswer(p) \/ TimesOut(p))
    /\ Moves(p, [mgr |-> AddErrorPort(mgr, Item(tasks[p], p)), task |-> DoneTask])

\* Mutated: the port that fails is not reported.
SlowFailsUnreported(p) ==
    /\ Waits(p, "slow") /\ (HasAnswer(p) \/ TimesOut(p))
    /\ Moves(p, [mgr |-> RemoveScanningPort(mgr, Item(tasks[p], p)), task |-> DoneTask])

\* An error answer, an answer the scanner cannot read, or no answer: the port
\* is reported, and the exception ends the whole task, its other settings too.
SlowFails(p) ==
    /\ Waits(p, "slow") /\ (HasAnswer(p) \/ TimesOut(p))
    /\ LET item == Item(tasks[p], p)
       IN  Moves(p, [mgr |-> RemoveScanningPort(AddErrorPort(mgr, item), item),
                     task |-> DoneTask])

\* The finally clause alone
SlowCancelled(p) ==
    /\ Waits(p, "slow") /\ IsCancelled(p)
    /\ Moves(p, [mgr |-> RemoveScanningPort(mgr, Item(tasks[p], p)), task |-> DoneTask])

SlowStep(p) == \/ SlowFinds(p)
               \/ SlowFindsNothing(p)
               \/ SlowFails(p)
               \/ SlowCancelled(p)
=============================================================================
