--------------------------- MODULE BootloaderScan ---------------------------
(***************************************************************************)
(* BootloaderModeScanner of bootloader_scan.py: on every port, with every  *)
(* setting, every slave id is asked for the full bootloader version, then  *)
(* for a part of it, which only a firmware can answer.                     *)
(***************************************************************************)
EXTENDS PortScan

\* get_scan_items_count
\* Mutated: the second pass is not counted.
BootItemsOnePass(serial, tcp, ooo) == serial * UartConfigs + tcp
BootItems(serial, tcp, ooo) ==
    serial * (IF ooo > 0 THEN 2 * UartConfigs ELSE UartConfigs) + tcp

BootSn(t, p) == <<Item(t, p), t.turn>>

BootWaits(p, stage) == Waits(p, "boot") /\ tasks[p].stage = stage

\* Next slave id: no bootloader there, or an error that is only logged.
BootSkips(p) == Moves(p, NextTurn(mgr, tasks[p], p))

\* Read or not, the signature completes the device.
BootFinds(p) == Moves(p, NextTurn(FoundDevice(mgr, BootSn(tasks[p], p)), tasks[p], p))

BootAsks(p, stage) == Moves(p, [mgr |-> mgr, task |-> Asks(tasks[p], tasks[p].turn, stage)])

\* The full version is read: on to the short one.
BootReadsFull(p) ==
    BootWaits(p, "read_full") /\ HasAnswer(p) /\ BootAsks(p, "read_short")

\* SerialTimeoutException: nobody there.  Any other serial error: next id.
BootReadsNoFull(p) ==
    BootWaits(p, "read_full") /\ (HasAnswer(p) \/ TimesOut(p)) /\ BootSkips(p)

\* The short version is read, so this is a firmware; or a serial error.
BootReadsShort(p) ==
    BootWaits(p, "read_short") /\ HasAnswer(p) /\ BootSkips(p)

\* SerialTimeoutException (no answer from wb-mqtt-serial is one as well), or a
\* gateway saying that the device does not respond: a bootloader.
BootIsSilent(p) ==
    /\ BootWaits(p, "read_short") /\ (HasAnswer(p) \/ TimesOut(p))
    /\ IF IsDeviceFound(mgr, BootSn(tasks[p], p)) THEN BootSkips(p)
       ELSE BootAsks(p, "read_signature")

BootReadsSignature(p) ==
    BootWaits(p, "read_signature") /\ (HasAnswer(p) \/ TimesOut(p)) /\ BootFinds(p)

\* An answer the wrapper cannot read raises no serial error: the port is
\* reported, and the scan of it goes on.
BootFails(p) ==
    /\ Waits(p, "boot") /\ HasAnswer(p)
    /\ Moves(p, NextTurn(AddErrorPort(mgr, Item(tasks[p], p)), tasks[p], p))

BootCancelled(p) ==
    /\ Waits(p, "boot") /\ IsCancelled(p)
    /\ Moves(p, [mgr |-> mgr, task |-> DoneTask])

BootStep(p) == \/ BootReadsFull(p)
               \/ BootReadsNoFull(p)
               \/ BootReadsShort(p)
               \/ BootIsSilent(p)
               \/ BootReadsSignature(p)
               \/ BootFails(p)
               \/ BootCancelled(p)
=============================================================================
