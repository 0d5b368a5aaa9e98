----------------------------- MODULE RpcServer -----------------------------
(***************************************************************************)
(* AsyncMQTTServer of mqtt_rpc.py and FirmwareUpdateProxy: requests come   *)
(* in the network thread, are executed by tasks of the event loop, and the *)
(* list of requests in processing is shared by the two without a lock.  A  *)
(* proxied request is one call of RpcClient; any other has a handler that  *)
(* returns without waiting (bus-scan/Start; BusScan has bus-scan/Stop).    *)
(***************************************************************************)
EXTENDS RpcClient, FiniteSets

CONSTANTS Requests,     \* topic and payload: records with a field "method"
          MaxRequests   \* bound: requests received

ASSUME ServerConstants ==
    /\ \A r \in Requests : r.method \in Methods \cup {"local"}
    /\ MaxRequests \in Nat

VARIABLES received,    \* requests received
          processing,  \* _NOW_PROCESSING
          tasks,       \* run_async of every request accepted
          answers      \* the replies published

serverVars == <<received, processing, tasks, answers>>
vars == <<clientVars, serverVars>>

\* call: the packet id of the call it makes, or 0
Tasks == [request : Requests, pc : {"posted", "calling", "replied", "done"}, call : Nat]
Answers == [request : Requests, kind : {"result", "error", "timeout", "busy"}]

\* Type correctness.
TypeOK ==
    /\ ClientTypeOK
    /\ received \in Nat
    /\ processing \in Seq(Requests)
    /\ tasks \in Seq(Tasks)
    /\ answers \in Seq(Answers)

Init ==
    /\ ClientInit
    /\ received = 0
    /\ processing = <<>>
    /\ tasks = <<>>
    /\ answers = <<>>

Reply(request, kind) == answers' = Append(answers, [request |-> request, kind |-> kind])
-----------------------------------------------------------------------------
(* on_message in the network thread                                        *)

\* Mutated: the list is not looked at.
NeverProcessing(r) == FALSE
IsProcessing(r) == \E i \in 1 .. Len(processing) : processing[i] = r

Receives == link = "up" /\ received < MaxRequests /\ received' = received + 1

Accept(r) ==
    /\ Receives /\ ~IsProcessing(r)
    /\ processing' = Append(processing, r)
    /\ tasks' = Append(tasks, [request |-> r, pc |-> "posted", call |-> 0])
    /\ UNCHANGED <<clientVars, answers>>

\* Mutated: a repeated request is dropped.
RefuseSilently(r) ==
    /\ Receives /\ IsProcessing(r)
    /\ UNCHANGED <<clientVars, processing, tasks, answers>>

Refuse(r) ==
    /\ Receives /\ IsProcessing(r)
    /\ Reply(r, "busy")
    /\ UNCHANGED <<clientVars, processing, tasks>>
-----------------------------------------------------------------------------
(* run_async in the event loop                                             *)

\* A task that has replied goes on to its end before any other runs.
LoopFree == \A n \in 1 .. Len(tasks) : tasks[n].pc # "replied"

\* run_coroutine_threadsafe posts the coroutines in order.
Begins(n) == /\ LoopFree /\ tasks[n].pc = "posted"
             /\ \A k \in 1 .. n - 1 : tasks[k].pc # "posted"

BeginLocal(n) ==
    /\ Begins(n) /\ tasks[n].request.method = "local"
    /\ tasks' = [tasks EXCEPT ![n].pc = "replied"]
    /\ Reply(tasks[n].request, "result")
    /\ UNCHANGED <<clientVars, received, processing>>

\* _proxy_call up to its await
BeginProxied(n) ==
    /\ Begins(n) /\ tasks[n].request.method # "local"
    /\ Call(tasks[n].request.method)
    /\ tasks' = [tasks EXCEPT ![n].pc = "calling", ![n].call = Len(calls) + 1]
    /\ UNCHANGED <<received, processing, answers>>

\* The call ends, the proxy returns its result or raises, and the reply is
\* published, all in one step of the task.
EndProxied(n) ==
    LET id == tasks[n].call
    IN  /\ LoopFree /\ tasks[n].pc = "calling"
        /\ CallReturns(id) \/ CallTimesOut(id)
        /\ tasks' = [tasks EXCEPT ![n].pc = "replied"]
        /\ Reply(tasks[n].request, calls'[id].end)
        /\ UNCHANGED <<link, session, subscribes, subscribed, requests, replies, posted,
                       received, processing>>

\* list.remove: the first one that is equal
Without(list, r) ==
    LET first == CHOOSE i \in 1 .. Len(list) :
                     list[i] = r /\ \A k \in 1 .. i - 1 : list[k] # r
    IN  [i \in 1 .. Len(list) - 1 |-> IF i < first THEN list[i] ELSE list[i + 1]]

\* Mutated: a request is taken off the list unless its call failed.
RemoveUnlessFailed(n) ==
    /\ tasks[n].pc = "replied"
    /\ tasks' = [tasks EXCEPT ![n].pc = "done"]
    /\ processing' = IF tasks[n].call # 0 /\ calls[tasks[n].call].end # "result"
                     THEN processing ELSE Without(processing, tasks[n].request)
    /\ UNCHANGED <<clientVars, received, answers>>

\* The network thread may see the list before and after.
Remove(n) ==
    /\ tasks[n].pc = "replied"
    /\ tasks' = [tasks EXCEPT ![n].pc = "done"]
    /\ processing' = Without(processing, tasks[n].request)
    /\ UNCHANGED <<clientVars, received, answers>>
-----------------------------------------------------------------------------
TaskStep == \E n \in 1 .. Len(tasks) :
                BeginLocal(n) \/ BeginProxied(n) \/ EndProxied(n) \/ Remove(n)

Next ==
    \/ \E r \in Requests : Accept(r) \/ Refuse(r)
    \/ TaskStep
    \/ LoopFree /\ RunPosted /\ UNCHANGED serverVars
    \/ \E id \in requests : Serve(id) /\ UNCHANGED serverVars
    \/ \E reply \in replies : OnReply(reply) /\ UNCHANGED serverVars
    \/ (LinkBreaks \/ OnDisconnect \/ OnConnect) /\ UNCHANGED serverVars

Spec == Init /\ [][Next]_vars

\* The event loop runs what it can run, timers included.  Nothing outside has to
\* come: no reply, no connection.
FairSpec == Spec /\ WF_vars(TaskStep)
-----------------------------------------------------------------------------
(* Properties.                                                             *)

Unfinished == {n \in 1 .. Len(tasks) : tasks[n].pc # "done"}

\* No request is executed twice at a time, although the network thread looks at
\* the list while the event loop takes requests off it.
NeverTwice ==
    \A n, k \in Unfinished : tasks[n].request = tasks[k].request => n = k

\* A request is in the list as long as its task has not ended, and no longer: it
\* can be made again after any outcome.
ProcessingMatches ==
    \A r \in Requests : IsProcessing(r) <=> \E n \in Unfinished : tasks[n].request = r

\* Each request has one reply, whatever became of its call, of the link and of
\* the requests made meanwhile.
AnsweredOnce ==
    received = Len(answers)
               + Cardinality({n \in Unfinished : tasks[n].pc # "replied"})

CalledOffline(method) ==
    \E id \in 1 .. Len(calls) : calls[id].method = method /\ calls[id].made = "down"

\* While connected the client believes itself subscribed only to topics it is
\* subscribed to, except for the methods called between on_disconnect and the
\* next on_connect (or begun before on_disconnect and added after it, see Call).
DeafOnlyIfCalledOffline ==
    link = "up" => \A m \in subscribes \ subscribed : CalledOffline(m)

\* A task that waits for a call waits for one that was made.
CallsMade ==
    \A n \in 1 .. Len(tasks) : tasks[n].pc = "calling" => tasks[n].call \in 1 .. Len(calls)

\* The inductive invariant behind the properties above: the list holds no request
\* twice, and between two connections only calls made meanwhile subscribe.
IInv ==
    /\ TypeOK
    /\ NeverTwice
    /\ ProcessingMatches
    /\ \A i, k \in 1 .. Len(processing) : processing[i] = processing[k] => i = k
    /\ AnsweredOnce
    /\ CallsMade
    /\ DeafOnlyIfCalledOffline
    /\ link = "down" => \A m \in subscribes : CalledOffline(m)

\* The requests in execution that have had their reply, and every reply as a client
\* tells it from another: a refusal, or what came of the request
Replied == {tasks[n].request : n \in {k \in Unfinished : tasks[k].pc = "replied"}}
Told(answer) == [request |-> answer.request, busy |-> answer.kind = "busy"]

\* The server keeps the promises of RequestService: however the network thread, the
\* tasks, the link and wb-mqtt-serial interleave, each request taken has its own one
\* reply before an equal one is taken again, and none is refused for another reason.
Service == INSTANCE RequestService WITH
    open <- {r \in Requests : IsProcessing(r)}, told <- Replied,
    log <- [i \in 1 .. Len(answers) |-> Told(answers[i])]
ServiceKept == Service!Spec

\* When no more requests come, each of them is answered and the list is empty for
\* good, whatever wb-mqtt-serial and the link do.
RequestsEnd == <>[](Unfinished = {})

\* mqtt_rpc.py on a disconnect: "rpc_client re-subscribes if not subscribed".  Not
\* so for a method called while there is no connection: until the next disconnect
\* its calls ask for replies the broker does not send.
Resubscribed ==
    [][link = "up" /\ Len(calls') > Len(calls)
           => calls'[Len(calls')].method \in subscribed']_vars
=============================================================================
