---------------------------- MODULE ScanFailures ----------------------------
(***************************************************************************)
(* BusScan with a history of its failures: "failed" holds the ports whose  *)
(* scan has met an error that nothing handles but the code around the      *)
(* scanner, since the request that started the scan.  It is told by the    *)
(* step that fails, never by what the state manager is told of it.         *)
(***************************************************************************)
EXTENDS BusScan

VARIABLE failed
hvars == <<vars, failed>>

\* The task of port p gets an error where it waits for an answer ...
AnswerFails(p) == FastFails(p) \/ FastFindsAndFails(p) \/ SlowFails(p) \/ BootFails(p)
\* ... or has no number to begin with.
NumberFails(p) == p \in Malformed /\ ~tasks[p].cancel /\ FirstStep(p)

FailsNow == {p \in Ports : AnswerFails(p) \/ NumberFails(p)}

HInit == Init /\ failed = {}
HNext == /\ Next
         /\ failed' = IF \E c \in Clients : Start(c) THEN {}
                      ELSE failed \cup {Item(tasks[p], p) : p \in FailsNow}
HSpec == HInit /\ [][HNext]_hvars
-----------------------------------------------------------------------------
OfPorts(ports) == {item \in failed : item[1] \in ports}

\* A completed scan shows each port (with the settings it had then) whose scan met an
\* unhandled error, in whichever part of the scan, and no other, not one of an earlier
\* scan either; and if there is none and the old results were not to be kept, no error
\* at all.  A TCP port without a number is left out here: see EveryFailureReported.
FailedPortsReported ==
    Ended({"complete"}) /\ Quiet =>
        LET items == OfPorts(Ports \ Malformed)
        IN  IF items # {} THEN /\ published.error = "failed_to_scan_error"
                               /\ published.failed_ports = items
            ELSE ~scan.preserve => published.error = "none"

\* README.md on errors: an error that nothing catches in the scan of a port is published
\* with that port in failed_ports.  Not so for a TCP port whose text after the colon is
\* no number: ValueError leaves its task and gather drops it.
EveryFailureReported ==
    Ended({"complete"}) /\ Quiet =>
        \A item \in failed : \E shown \in published.failed_ports : shown[1] = item[1]
=============================================================================
