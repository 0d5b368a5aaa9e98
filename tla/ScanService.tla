---------------------------- MODULE ScanService ----------------------------
(***************************************************************************)
(* What the bus-scan service promises its clients, with nothing of how it  *)
(* keeps the promise: one scan at a time, Start answered at once, a Stop   *)
(* answered when the scan it was for is over, and no traffic on the buses  *)
(* but the traffic of a scan whose predecessors' Stops are all answered.   *)
(* BusScan implements it.                                                  *)
(***************************************************************************)
CONSTANT Clients

VARIABLES busy,     \* a scan has been started and is not over
          working,  \* a port is scanned, or about to be
          asked,    \* the clients whose Stop waits for the end of that scan
          owed,     \* the clients whose Stop waits, though its scan is over
          answer    \* the last answer to each client

vars == <<busy, working, asked, owed, answer>>

Init ==
    /\ busy = FALSE
    /\ working = FALSE
    /\ asked = {}
    /\ owed = {}
    /\ answer = [c \in Clients |-> "none"]

Asks(c) == c \notin asked \cup owed
Answers(c, a) == answer' = [answer EXCEPT ![c] = a]

Start(c) ==
    /\ Asks(c) /\ ~busy
    /\ busy' = TRUE
    /\ Answers(c, "ok")
    /\ UNCHANGED <<working, asked, owed>>

\* Start while there is a scan, Stop while there is none
Refuse(c) ==
    /\ Asks(c)
    /\ Answers(c, "busy")
    /\ UNCHANGED <<busy, working, asked, owed>>

Stop(c) ==
    /\ Asks(c) /\ busy
    /\ asked' = asked \cup {c}
    /\ UNCHANGED <<busy, working, owed, answer>>

\* The scan begins or ends to use the ports.
Work ==
    /\ busy /\ owed = {}
    /\ working' = ~working
    /\ UNCHANGED <<busy, asked, owed, answer>>

End ==
    /\ busy /\ ~working
    /\ busy' = FALSE
    /\ asked' = {}
    /\ owed' = owed \cup asked
    /\ UNCHANGED <<working, answer>>

\* "error" when the scan failed with what its task did not catch
AnswerStop(c) ==
    /\ c \in owed /\ ~working
    /\ owed' = owed \ {c}
    /\ \E a \in {"ok", "error"} : Answers(c, a)
    /\ UNCHANGED <<busy, working, asked>>

Next ==
    \/ Work \/ End
    \/ \E c \in Clients : Start(c) \/ Refuse(c) \/ Stop(c) \/ AnswerStop(c)

Spec == Init /\ [][Next]_vars
=============================================================================
