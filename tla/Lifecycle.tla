----------------------------- MODULE Lifecycle -----------------------------
(***************************************************************************)
(* AsyncMQTTServer.run of mqtt_rpc.py: serve, then on a signal or on a     *)
(* rejected login cancel the tasks, clear the retained topics and stop the *)
(* client.  All the while the network thread connects, loses the link and  *)
(* connects again, and publishes in on_connect.                            *)
(***************************************************************************)
EXTENDS StateTopic

CONSTANTS MaxSignals,     \* bound: SIGINT and SIGTERM received
          MaxRejections   \* bound: logins rejected

ASSUME LifecycleConstants == MaxSignals \in Nat /\ MaxRejections \in Nat

\* "rpc" stands for the topics of all the methods.
ASSUME LifecycleTopics == Topics = {"state", "fw", "rpc"}

VARIABLES phase,       \* where the main thread is
          stopping,    \* loop.stop was called, the loop has not seen it yet
          signals,     \* signals received
          rejections,  \* logins rejected
          exit_code,   \* what run() would return
          logged,      \* an error was logged on the way out
          clears,      \* the clears published: message id, and if publish() failed
          since        \* the session the clearing began in, 0 if on_connect ran

runVars == <<phase, stopping, signals, rejections, exit_code, logged, clears, since>>
vars == <<brokerVars, topicVars, runVars>>

Phases == {"serving", "cancelling", "closing", "clearing", "waiting", "quitting", "stopped",
           "crashed"}

\* Mutated: the topics of the methods are forgotten.
ClearedStates == <<"state", "fw">>
\* What clear_state of the two and _delete_retained clear, in this order
Cleared == <<"state", "fw", "rpc">>

States == [progress : Nat, rest : Nat]
Values == [progress : Nat, rest : Nat, by : {"consumer", "on_connect"}] \cup {Available, None}

\* Type correctness.
TypeOK ==
    /\ link \in {"down", "up", "stopped"}
    /\ session \in Nat
    /\ wire \in Seq([topic : Topics, value : Values, mid : Nat])
    /\ kept \in Seq([topic : Topics, value : Values, at : {"queued", "sent", "confirmed"}])
    /\ retained \in [Topics -> Values]
    /\ state \in States /\ seen \in States
    /\ consumer \in {"new", "idle", "half", "set", "cancelled"}
    /\ callback \in {"none", "begun", "half", "read", "published", "subscribed"}
    /\ phase \in Phases
    /\ stopping \in BOOLEAN /\ logged \in BOOLEAN
    /\ signals \in Nat /\ rejections \in Nat /\ exit_code \in {0, 1, 2}
    /\ clears \in Seq([mid : Nat, failed : BOOLEAN])
    /\ since \in Nat

Init ==
    /\ BrokerInit
    /\ TopicInit
    /\ phase = "serving"
    /\ stopping = FALSE
    /\ signals = 0
    /\ rejections = 0
    /\ exit_code = 0
    /\ logged = FALSE
    /\ clears = <<>>
    /\ since = 0

Alive == phase \notin {"stopped", "crashed"}
\* The event loop runs in run_forever and in run_until_complete.
LoopRuns == phase \in {"serving", "cancelling"}
-----------------------------------------------------------------------------
(* Signals and rejected logins                                             *)

\* A signal that comes while the loop does not run does nothing.
Signal ==
    /\ LoopRuns /\ signals < MaxSignals
    /\ signals' = signals + 1
    /\ stopping' = TRUE
    /\ UNCHANGED <<brokerVars, topicVars, phase, rejections, exit_code, logged, clears, since>>

\* on_connect with rc 4 or 5, in the network thread; paho will try again.
LoginRejected ==
    /\ Alive /\ link = "down" /\ rejections < MaxRejections
    /\ rejections' = rejections + 1
    /\ exit_code' = 2
    /\ stopping' = (stopping \/ LoopRuns)
    /\ UNCHANGED <<brokerVars, topicVars, phase, signals, logged, clears, since>>
-----------------------------------------------------------------------------
(* The main thread                                                         *)

\* run_forever returns between two steps of the tasks.
LoopStops ==
    /\ phase = "serving" /\ stopping /\ consumer \in {"new", "idle"}
    /\ phase' = "cancelling"
    /\ stopping' = FALSE
    /\ UNCHANGED <<brokerVars, topicVars, signals, rejections, exit_code, logged, clears, since>>

\* _cancel_pending_tasks: the consumer is cancelled where it waits for an event,
\* and all the other tasks end.
TasksEnd ==
    /\ phase = "cancelling" /\ ~stopping
    /\ phase' = "closing"
    /\ consumer' = "cancelled"
    /\ UNCHANGED <<brokerVars, state, callback, seen, stopping, signals, rejections, exit_code,
                   logged, clears, since>>

\* loop.stop while run_until_complete runs: RuntimeError, out of run() and main().
Crash ==
    /\ phase = "cancelling" /\ stopping
    /\ phase' = "crashed"
    /\ exit_code' = 1
    /\ logged' = TRUE
    /\ UNCHANGED <<brokerVars, topicVars, stopping, signals, rejections, clears, since>>

CheckConnected ==
    /\ phase = "closing"
    /\ phase' = IF link = "up" THEN "clearing" ELSE "quitting"
    /\ logged' = (link # "up")
    /\ since' = IF callback = "none" THEN session ELSE 0
    /\ UNCHANGED <<brokerVars, topicVars, stopping, signals, rejections, exit_code, clears>>

Clear ==
    /\ phase = "clearing"
    /\ Publish1(Cleared[Len(clears) + 1], None)
    /\ clears' = Append(clears, [mid |-> Len(kept'), failed |-> link # "up"])
    /\ phase' = IF Len(clears') = Len(Cleared) THEN "waiting" ELSE "clearing"
    /\ UNCHANGED <<topicVars, stopping, signals, rejections, exit_code, logged, since>>

IsPublished(clear) == kept[clear.mid].at = "confirmed"
AllPublished == \A i \in 1 .. Len(clears) : IsPublished(clears[i])
AnyFailed == \E i \in 1 .. Len(clears) : clears[i].failed

Quits(error) ==
    /\ phase' = "quitting"
    /\ logged' = error
    /\ UNCHANGED <<brokerVars, topicVars, stopping, signals, rejections, exit_code, clears, since>>

\* Mutated: one confirmation is enough.
WaitReturnsEarly ==
    /\ phase = "waiting" /\ ~AnyFailed
    /\ \E i \in 1 .. Len(clears) : IsPublished(clears[i])
    /\ Quits(FALSE)

WaitReturns == phase = "waiting" /\ ~AnyFailed /\ AllPublished /\ Quits(FALSE)

\* wait_for_publish raises for a message that had no connection ...
WaitRaises == phase = "waiting" /\ AnyFailed /\ Quits(TRUE)

\* Mutated: wait_for_publish is called without a deadline.
WaitNeverTimesOut == FALSE
\* ... and gives up at the deadline.
WaitTimesOut == phase = "waiting" /\ ~AllPublished /\ Quits(TRUE)

\* The network thread ends when its callback has returned.
ClientStops ==
    /\ phase = "quitting" /\ callback = "none"
    /\ phase' = "stopped"
    /\ StopClient
    /\ UNCHANGED <<topicVars, stopping, signals, rejections, exit_code, logged, clears, since>>
-----------------------------------------------------------------------------
MainStep == \/ LoopStops \/ TasksEnd \/ Crash \/ CheckConnected \/ Clear
            \/ WaitReturns \/ WaitRaises \/ WaitTimesOut \/ ClientStops

Next ==
    \/ phase = "serving" /\ ConsumerStep /\ UNCHANGED runVars
    \/ Alive /\ (OnConnect \/ CallbackStep \/ LinkBreaks) /\ UNCHANGED runVars
    \/ NetworkStep /\ UNCHANGED runVars
    \/ Signal \/ LoginRejected
    \/ MainStep

Spec == Init /\ [][Next]_vars

\* The main thread, the event loop and the callback go on; a message sent over a
\* link that holds is delivered, and a link that is down comes up again.  No event,
\* no signal and no break of the link has to come.
Fairness ==
    /\ WF_vars(MainStep)
    /\ WF_vars(phase = "serving" /\ (ConsumerStarts \/ SetRest \/ PublishState)
               /\ UNCHANGED runVars)
    /\ WF_vars(Alive /\ (OnConnect \/ CallbackStep) /\ UNCHANGED runVars)
    /\ WF_vars(NetworkStep /\ UNCHANGED runVars)

FairSpec == Spec /\ Fairness
-----------------------------------------------------------------------------
(* Properties.                                                             *)

\* Once everything sent has arrived, the topic shows the state as the last event
\* left it, unless on_connect published after the consumer did: what it read may
\* be older, or half of an event.
ConsumerHasLastWord ==
    LET shown == retained["state"]
    IN  phase = "serving" /\ consumer = "idle" /\ link = "up" /\ callback = "none"
       /\ wire = <<>> /\ shown # None /\ shown.by = "consumer"
            => shown.progress = state.progress /\ shown.rest = state.rest

Closing == phase \in {"clearing", "waiting"}
Unlogged == phase \in {"quitting", "stopped"} /\ ~logged

\* The clears are those of Cleared, in its order, and the wait ends when all are
\* confirmed or with an error.
ClearsInOrder ==
    /\ \A i \in 1 .. Len(clears) :
           LET mid == clears[i].mid
           IN  mid \in 1 .. Len(kept) /\ kept[mid].topic = Cleared[i] /\ kept[mid].value = None
    /\ phase \in {"serving", "cancelling", "closing"} => clears = <<>>
    /\ phase = "clearing" => Len(clears) < Len(Cleared)
    /\ phase = "waiting" \/ Unlogged => Len(clears) = Len(Cleared)
    /\ Unlogged => AllPublished

\* From the p-th message on, nothing on its way puts anything into the topic.
Quiet(topic, p) ==
    \A q \in p .. Len(wire) : wire[q].topic = topic => wire[q].value = None

\* A clear is on its way or has arrived, and nothing follows it.
ClearHolds(topic, mid) ==
    \/ \E p \in 1 .. Len(wire) :
           wire[p].mid = mid /\ wire[p].topic = topic /\ Quiet(topic, p)
    \/ retained[topic] = None /\ Quiet(topic, 1)

\* The inductive invariant behind the two properties that follow: in the session
\* the clearing began in nothing is published after a clear, and what is confirmed
\* is not on its way any more.
IInv ==
    /\ TypeOK
    /\ ClearsInOrder
    /\ \A q \in 1 .. Len(wire) :
           wire[q].mid = 0 \/ (wire[q].mid \in 1 .. Len(kept) /\ kept[wire[q].mid].at # "confirmed")
    /\ since <= session
    /\ link = "up" \/ Closing \/ Unlogged => session > 0
    /\ (Closing \/ Unlogged) /\ since = session =>
           /\ callback = "none"
           /\ \A i \in 1 .. Len(clears) :
                  kept[clears[i].mid].at # "queued" => ClearHolds(Cleared[i], clears[i].mid)

\* A service that stopped without an error left nothing behind, whatever was on
\* its way when the signal came, if it kept the connection it had.
TopicsCleared ==
    phase = "stopped" /\ ~logged /\ since = session => \A t \in Topics : retained[t] = None

\* Whatever happens to the link meanwhile, a service that logged no error has the
\* confirmation of each clear.
ClearsConfirmed ==
    phase = "stopped" /\ ~logged =>
        \A i \in 1 .. Len(Cleared) :
            \E mid \in 1 .. Len(kept) :
                /\ kept[mid].topic = Cleared[i] /\ kept[mid].value = None
                /\ kept[mid].at = "confirmed"

\* After a reconnect to a broker that has forgotten them, the topics are there
\* again, although no event has to come.
ShownAgain ==
    []<>(link = "up" /\ phase = "serving" => retained["state"] # None /\ retained["rpc"] # None)

\* A signal or a rejected login ends the service, connected or not.
StopEnds == []<>(stopping \/ phase # "serving" => ~Alive)

\* tests/checklist.md: exit code 0 on SIGTERM and SIGINT, without any complaint.
\* Not so for a second signal while the tasks are being cancelled.
SignalsEndWell == rejections = 0 => phase # "crashed"

\* tests/checklist.md: after an exit with code 0 the retained topics are removed.
\* Not so if the client connects while they are being removed.
RemovedAtExit ==
    phase = "stopped" /\ exit_code = 0 /\ ~logged => \A t \in Topics : retained[t] = None
=============================================================================
