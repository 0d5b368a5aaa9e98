----------------------------- MODULE RpcClient -----------------------------
(***************************************************************************)
(* SRPCClient of mqtt_rpc.py with what it inherits from mqttrpc's client:  *)
(* calls from the event loop to wb-mqtt-serial, replies in the network     *)
(* thread, and the set of reply topics the client believes it subscribed   *)
(* to.  A call is known by its packet id, its position in "calls".         *)
(*                                                                         *)
(* mqttrpc, the broker and wb-mqtt-serial are not in src/: call_async adds *)
(* the method to "subscribes" and subscribes if it was not there, and      *)
(* on_mqtt_message takes the future of the packet id a reply names.        *)
(***************************************************************************)
EXTENDS Integers, Sequences

CONSTANTS Methods,      \* (driver, service, method) of wb-mqtt-serial
          MaxCalls,     \* bound: calls made
          MaxSessions   \* bound: connections made

ASSUME ClientConstants == MaxCalls \in Nat /\ MaxSessions \in Nat

VARIABLES link,        \* "up"; "closed": on_disconnect has not run yet; "down"
          session,     \* connections made
          subscribes,  \* the reply topics the client believes it subscribed to
          subscribed,  \* those the broker sends to this connection
          calls,       \* every call made
          requests,    \* the calls wb-mqtt-serial has not answered
          replies,     \* replies on their way to the network thread
          posted       \* call_soon_threadsafe: results on their way to the loop

linkVars == <<link, session>>
clientVars == <<link, session, subscribes, subscribed, calls, requests, replies, posted>>

\* A reply with a result, with an error, or with a result that is null
Outcomes == {"result", "error", "null"}

Calls == [method : Methods,
          made : {"up", "closed", "down"},     \* the link when it was made
          future : {"pending", "cancelled", "result", "error"},
          end : {"none", "result", "error", "timeout"}]

ClientTypeOK ==
    /\ link \in {"up", "closed", "down"} /\ session \in Nat
    /\ subscribes \subseteq Methods /\ subscribed \subseteq Methods
    /\ calls \in Seq(Calls)
    /\ requests \subseteq 1 .. Len(calls)
    /\ replies \subseteq [id : 1 .. Len(calls), outcome : Outcomes]
    /\ posted \in Seq([id : 1 .. Len(calls), outcome : {"result", "error"}])

ClientInit ==
    /\ link = "up" /\ session = 1
    /\ subscribes = {} /\ subscribed = {}
    /\ calls = <<>>
    /\ requests = {} /\ replies = {}
    /\ posted = <<>>
-----------------------------------------------------------------------------
(* A call, in the event loop                                               *)

\* make_rpc_call up to its await.  Without a connection neither the subscription
\* nor the request goes anywhere.  on_disconnect runs in the network thread and may
\* come in the middle of it: the step stands where the method is added to the set, so
\* that a call on_disconnect came into is one made "down" (what it sent is lost).
Call(method) ==
    /\ Len(calls) < MaxCalls
    /\ calls' = Append(calls, [method |-> method, made |-> link, future |-> "pending",
                               end |-> "none"])
    /\ subscribes' = subscribes \cup {method}
    /\ subscribed' = IF link = "up" /\ method \notin subscribes
                     THEN subscribed \cup {method} ELSE subscribed
    /\ requests' = IF link = "up" THEN requests \cup {Len(calls) + 1} ELSE requests
    /\ UNCHANGED <<link, session, replies, posted>>

Waits(id) == calls[id].end = "none"

\* The await ends with what the future has ...
CallReturns(id) ==
    /\ Waits(id) /\ calls[id].future \in {"result", "error"}
    /\ calls' = [calls EXCEPT ![id].end = calls[id].future]

\* Mutated: wait_for without a timeout.
CallNeverTimesOut(id) == calls[id].end = "timeout" /\ UNCHANGED calls
\* ... or with the timeout, which cancels a future that has nothing.  From Python
\* 3.12 on the timeout may win although the future has just got its result.
CallTimesOut(id) ==
    /\ Waits(id)
    /\ calls' = [calls EXCEPT ![id].end = "timeout",
                              ![id].future = IF @ = "pending" THEN "cancelled" ELSE @]

\* RPCResultFuture._set_result or _set_exception: a future that is done stays as
\* it is.
RunPosted ==
    /\ posted # <<>>
    /\ posted' = Tail(posted)
    /\ LET p == Head(posted)
       IN  calls' = IF calls[p.id].future = "pending"
                    THEN [calls EXCEPT ![p.id].future = p.outcome]
                    ELSE calls
    /\ UNCHANGED <<link, session, subscribes, subscribed, requests, replies>>
-----------------------------------------------------------------------------
(* wb-mqtt-serial, the broker, and the network thread                      *)

\* wb-mqtt-serial answers, maybe after the timeout; without a subscription the
\* broker drops the reply.
Serve(id) ==
    /\ id \in requests
    /\ requests' = requests \ {id}
    /\ \E outcome \in Outcomes :
           replies' = IF link = "up" /\ calls[id].method \in subscribed
                      THEN replies \cup {[id |-> id, outcome |-> outcome]} ELSE replies
    /\ UNCHANGED <<link, session, subscribes, subscribed, calls, posted>>

\* RPCResultFuture.set_result does nothing with a null.
OnReply(reply) ==
    /\ link = "up" /\ reply \in replies
    /\ replies' = replies \ {reply}
    /\ posted' = IF reply.outcome = "null" THEN posted
                 ELSE Append(posted, [id |-> reply.id, outcome |-> reply.outcome])
    /\ UNCHANGED <<link, session, subscribes, subscribed, calls, requests>>

\* The broker forgets the subscriptions of a connection that is gone.
LinkBreaks ==
    /\ link = "up" /\ session < MaxSessions
    /\ link' = "closed"
    /\ subscribed' = {}
    /\ replies' = {}
    /\ UNCHANGED <<session, subscribes, calls, requests, posted>>

\* Mutated: the reply topics are not forgotten.
OnDisconnectKeepsTopics ==
    /\ link = "closed"
    /\ link' = "down"
    /\ UNCHANGED <<session, subscribes, subscribed, calls, requests, replies, posted>>

OnDisconnect ==
    /\ link = "closed"
    /\ link' = "down"
    /\ subscribes' = {}
    /\ UNCHANGED <<session, subscribed, calls, requests, replies, posted>>

\* on_connect subscribes to the requests of the server, to nothing of the client.
OnConnect ==
    /\ link = "down"
    /\ link' = "up"
    /\ session' = session + 1
    /\ UNCHANGED <<subscribes, subscribed, calls, requests, replies, posted>>
=============================================================================
