--------------------------- MODULE RequestService ---------------------------
(***************************************************************************)
(* What the RPC server promises those who send it requests, with nothing   *)
(* of how it keeps the promise: a request is executed once at a time, each *)
(* time it is taken it gets one reply, and it is refused, at once, only    *)
(* while an equal one is being executed.  RpcServer implements it.         *)
(***************************************************************************)
EXTENDS Sequences

CONSTANT Requests

VARIABLES open,  \* the requests in execution
          told,  \* those of them that have had their reply
          log    \* the replies, refusals among them

vars == <<open, told, log>>

Init ==
    /\ open = {}
    /\ told = {}
    /\ log = <<>>

Tells(r, busy) == log' = Append(log, [request |-> r, busy |-> busy])

Take(r) ==
    /\ r \notin open
    /\ open' = open \cup {r}
    /\ UNCHANGED <<told, log>>

Refuse(r) ==
    /\ r \in open
    /\ Tells(r, TRUE)
    /\ UNCHANGED <<open, told>>

Answer(r) ==
    /\ r \in open \ told
    /\ told' = told \cup {r}
    /\ Tells(r, FALSE)
    /\ UNCHANGED open

Close(r) ==
    /\ r \in told
    /\ open' = open \ {r}
    /\ told' = told \ {r}
    /\ UNCHANGED log

Next == \E r \in Requests : Take(r) \/ Refuse(r) \/ Answer(r) \/ Close(r)

Spec == Init /\ [][Next]_vars
=============================================================================
