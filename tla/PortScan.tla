------------------------------ MODULE PortScan ------------------------------
(***************************************************************************)
(* What the three scanners share: one task per port (create_scan_tasks),   *)
(* which goes through its work one unit at a time.  A unit is one          *)
(* _do_scan_port: a port with one of its settings, and the requests made   *)
(* there.  The tasks give the event loop back only inside an RPC, that is  *)
(* in SRPCClient.make_rpc_call: there the answer, the timeout and the      *)
(* cancellation race.                                                      *)
(***************************************************************************)
EXTENDS BusScanState

CONSTANTS FastConfigs,   \* how many settings there are with two stop bits
          MaxRounds,     \* bound: answers with devices a fast scan gets in a row
          Malformed,     \* TCP ports whose text after the colon is no number
          OooCounts,     \* how many ids a client may ask to try first
          KeepsAnswer    \* asyncio.wait_for returns an answer it already has
                         \* although the task is cancelled (Python before 3.12)

\* Fewer ids are tried first than there are: the code does not make sure of it (a
\* client may name every id, an id twice or a number that is no id), this model does.
ASSUME TaskConstants ==
    /\ FastConfigs \in 1 .. UartConfigs
    /\ MaxRounds \in Nat \ {0}
    /\ Malformed \subseteq TcpPorts
    /\ OooCounts \subseteq 0 .. NumIds - 1
    /\ KeepsAnswer \in BOOLEAN

VARIABLE tasks
taskVars == <<tasks>>

Kinds == {"fast", "slow", "boot"}
Stages == {"scan", "probe", "read_full", "read_short", "read_signature"}
\* turn: the position of the slave id in the order it is tried, or the number
\* of the request of a fast scan
Tasks == [pc : {"new", "rpc", "done"}, kind : Kinds, ooo : OooCounts \cup {0}, unit : Nat,
          turn : Nat, stage : Stages, answered : BOOLEAN, cancel : BOOLEAN]

NewTask(kind, ooo) ==
    [pc |-> "new", kind |-> kind, ooo |-> ooo, unit |-> 0, turn |-> 0, stage |-> "scan",
     answered |-> FALSE, cancel |-> FALSE]
DoneTask == [NewTask("fast", 0) EXCEPT !.pc = "done"]

TaskTypeOK == tasks \in [Ports -> Tasks]
TaskInit == tasks = [p \in Ports |-> DoneTask]

Alive(p) == tasks[p].pc # "done"
Cancelled(ts) == [p \in Ports |-> IF ts[p].pc = "done" THEN ts[p]
                                  ELSE [ts[p] EXCEPT !.cancel = TRUE]]
-----------------------------------------------------------------------------
(* The units of a task.                                                    *)

Units(t, p) ==
    IF p \in TcpPorts THEN 1
    ELSE IF t.kind = "fast" THEN FastConfigs
    ELSE IF t.kind = "boot" /\ t.ooo > 0 THEN 2 * UartConfigs
    ELSE UartConfigs

\* The second pass of a bootloader scan goes through the same settings.
Item(t, p) == <<p, IF p \in TcpPorts THEN 0
                   ELSE IF t.unit > UartConfigs THEN t.unit - UartConfigs
                   ELSE t.unit>>

\* A serial port in the first of two passes tries the asked-for ids only, and
\* in the second the others; a TCP port tries them all in one pass.
TwoPasses(t, p) == p \in SerialPorts /\ t.kind = "boot" /\ t.ooo > 0
FirstTurn(t, p) == IF TwoPasses(t, p) /\ t.unit > UartConfigs THEN t.ooo + 1 ELSE 1
LastTurn(t, p) == IF TwoPasses(t, p) /\ t.unit <= UartConfigs THEN t.ooo ELSE NumIds

FirstStage(kind) == CASE kind = "fast" -> "scan"
                      [] kind = "slow" -> "probe"
                      [] kind = "boot" -> "read_full"

\* The task sends its next request and waits.
Asks(t, turn, stage) ==
    [t EXCEPT !.pc = "rpc", !.turn = turn, !.stage = stage,
              !.answered = FALSE, !.cancel = FALSE]

\* A step of a task is a manager and a task.  BeginUnit: add_scanning_port and
\* the first request of the unit.
BeginUnit(m, t, p, unit) ==
    LET u == [t EXCEPT !.unit = unit]
    IN  [mgr |-> AddScanningPort(m, Item(u, p), t.kind = "fast"),
         task |-> Asks(u, FirstTurn(u, p), FirstStage(t.kind))]

\* EndUnit: remove_scanning_port, and on to the next unit if there is one.
EndUnit(m, t, p) ==
    LET left == RemoveScanningPort(m, Item(t, p))
    IN  IF t.unit < Units(t, p) THEN BeginUnit(left, t, p, t.unit + 1)
        ELSE [mgr |-> left, task |-> DoneTask]

\* The next slave id, or the end of the unit.
NextTurn(m, t, p) ==
    IF t.turn < LastTurn(t, p)
    THEN [mgr |-> m, task |-> Asks(t, t.turn + 1, FirstStage(t.kind))]
    ELSE EndUnit(m, t, p)
-----------------------------------------------------------------------------
(* The actions every kind of task has.                                     *)

Moves(p, step) == /\ mgr' = step.mgr
                  /\ tasks' = [tasks EXCEPT ![p] = step.task]
                  /\ UNCHANGED <<state, consumer, published>>

\* A task that was cancelled before its first step never runs its body; the
\* number of a malformed TCP port raises ValueError before anything else.
FirstStep(p) ==
    /\ LoopFree /\ tasks[p].pc = "new"
    /\ Moves(p, IF tasks[p].cancel \/ p \in Malformed
                THEN [mgr |-> mgr, task |-> DoneTask]
                ELSE BeginUnit(mgr, tasks[p], p, 1))

\* on_mqtt_message hands the reply over, RPCResultFuture._set_result runs in
\* the loop: the future is done, the task has not run yet.
Answer(p) ==
    /\ LoopFree /\ tasks[p].pc = "rpc" /\ ~tasks[p].answered
    /\ tasks' = [tasks EXCEPT ![p].answered = TRUE]
    /\ UNCHANGED stateVars

Waits(p, kind) == LoopFree /\ tasks[p].pc = "rpc" /\ tasks[p].kind = kind
\* make_rpc_call returns the answer, or raises what the answer says ...
HasAnswer(p) == tasks[p].answered /\ (tasks[p].cancel => KeepsAnswer)
\* ... or MQTTRPCCallTimeoutError ...
\* Mutated: the call is made without a timeout.
NeverTimesOut(p) == FALSE
TimesOut(p) == ~tasks[p].answered /\ ~tasks[p].cancel
\* ... or CancelledError.
IsCancelled(p) == tasks[p].cancel /\ (tasks[p].answered => ~KeepsAnswer)

\* A task that waits for an answer is somewhere in its work.
TaskInRange(t, p) ==
    t.pc = "rpc" => /\ t.unit \in 1 .. Units(t, p)
                    /\ t.kind # "fast" => t.turn \in 1 .. LastTurn(t, p)
TasksInRange == \A p \in Ports : TaskInRange(tasks[p], p)
=============================================================================
