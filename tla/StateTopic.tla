----------------------------- MODULE StateTopic -----------------------------
(***************************************************************************)
(* The two threads that publish the state of the bus scan: the consumer    *)
(* task in the event loop, one event at a time (bus_scan_state.py), and    *)
(* on_connect in the network thread (mqtt_rpc.py), which reads the state   *)
(* while the consumer may be changing it.                                  *)
(*                                                                         *)
(* BusScanState has what is in the events; here a state is the number of   *)
(* events applied, in the two parts the consumer changes one after the     *)
(* other and the network thread reads one after the other.                 *)
(***************************************************************************)
EXTENDS Broker

CONSTANTS Available,  \* "1", what the topic of an RPC method retains
          MaxEvents   \* bound: events applied

ASSUME EventsConstant == MaxEvents \in Nat

VARIABLES state,      \* events applied to "progress", and to the fields after it
          consumer,   \* where the consumer task is
          callback,   \* where on_connect is in the network thread
          seen        \* what on_connect has read so far

topicVars == <<state, consumer, callback, seen>>

Nothing == [progress |-> 0, rest |-> 0]

TopicInit ==
    /\ state = Nothing
    /\ consumer = "new"
    /\ callback = "none"
    /\ seen = Nothing

\* What publish_state puts into the topic; by: the thread it was called in
Json(s, by) == [progress |-> s.progress, rest |-> s.rest, by |-> by]
-----------------------------------------------------------------------------
(* The consumer task                                                       *)

ConsumerStarts ==
    /\ consumer = "new"
    /\ consumer' = "idle"
    /\ Publish0("state", Json(state, "consumer"))
    /\ UNCHANGED <<state, callback, seen>>

SetProgress ==
    /\ consumer = "idle" /\ state.progress < MaxEvents
    /\ consumer' = "half"
    /\ state' = [state EXCEPT !.progress = @ + 1]
    /\ UNCHANGED <<callback, seen, brokerVars>>

SetRest ==
    /\ consumer = "half"
    /\ consumer' = "set"
    /\ state' = [state EXCEPT !.rest = state.progress]
    /\ UNCHANGED <<callback, seen, brokerVars>>

\* Mutated: the state is published when a part of the event is applied.
PublishHalfState ==
    /\ consumer = "half"
    /\ consumer' = "idle"
    /\ state' = [state EXCEPT !.rest = state.progress]
    /\ Publish0("state", Json(state, "consumer"))
    /\ UNCHANGED <<callback, seen>>

PublishState ==
    /\ consumer = "set"
    /\ consumer' = "idle"
    /\ Publish0("state", Json(state, "consumer"))
    /\ UNCHANGED <<state, callback, seen>>

ConsumerStep == ConsumerStarts \/ SetProgress \/ SetRest \/ PublishState
-----------------------------------------------------------------------------
(* on_connect with rc 0                                                    *)

OnConnect ==
    /\ callback = "none" /\ Connect
    /\ callback' = "begun"
    /\ UNCHANGED <<state, consumer, seen>>

ReadProgress ==
    /\ callback = "begun"
    /\ callback' = "half"
    /\ seen' = [seen EXCEPT !.progress = state.progress]
    /\ UNCHANGED <<state, consumer, brokerVars>>

ReadRest ==
    /\ callback = "half"
    /\ callback' = "read"
    /\ seen' = [seen EXCEPT !.rest = state.rest]
    /\ UNCHANGED <<state, consumer, brokerVars>>

\* Mutated: the state is published on the first connection only.
PublishSeenOnce ==
    /\ callback = "read"
    /\ callback' = "published"
    /\ IF session = 1 THEN Publish0("state", Json(seen, "on_connect"))
       ELSE UNCHANGED brokerVars
    /\ seen' = Nothing
    /\ UNCHANGED <<state, consumer>>

PublishSeen ==
    /\ callback = "read"
    /\ callback' = "published"
    /\ Publish0("state", Json(seen, "on_connect"))
    /\ seen' = Nothing
    /\ UNCHANGED <<state, consumer>>

\* _subscribe: one topic stands for those of all methods
Subscribe ==
    /\ callback = "published"
    /\ callback' = "subscribed"
    /\ Publish1("rpc", Available)
    /\ UNCHANGED <<state, consumer, seen>>

OnConnectReturns ==
    /\ callback = "subscribed"
    /\ callback' = "none"
    /\ Resend
    /\ UNCHANGED <<state, consumer, seen>>

CallbackStep == ReadProgress \/ ReadRest \/ PublishSeen \/ Subscribe \/ OnConnectReturns

\* The network thread notices a broken link between two callbacks; a link that
\* breaks earlier is one that delivers nothing more.
LinkBreaks ==
    /\ callback = "none" /\ Break
    /\ UNCHANGED topicVars

\* A confirmation waits for the callback to return.
NetworkStep == (Deliver \/ (callback = "none" /\ Confirm)) /\ UNCHANGED topicVars
=============================================================================
