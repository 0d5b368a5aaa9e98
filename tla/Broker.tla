------------------------------- MODULE Broker -------------------------------
(***************************************************************************)
(* The MQTT client and the broker as the service uses them: the link, what *)
(* is on its way, the messages the client keeps until they are confirmed,  *)
(* and the retained topics.  None of it is in src/: the client is paho-mqtt *)
(* behind wb_common.mqtt_client, whose network thread connects again by    *)
(* itself; the calls, the QoS and the retain flags are those of mqtt_rpc.py, *)
(* bus_scan_state.py and fw_update_proxy.py.                               *)
(***************************************************************************)
EXTENDS Integers, Sequences, FiniteSets

CONSTANTS Topics,       \* the retained topics of the service
          None,         \* a topic that has no retained message
          MaxSessions   \* bound: connections made

ASSUME BrokerConstants == MaxSessions \in Nat

VARIABLES link,      \* "down", "up", or "stopped": the client has been stopped
          session,   \* the number of connections made
          wire,      \* sent and not yet taken by the broker, oldest first
          kept,      \* every message of QoS 1, at its message id
          retained   \* what the broker retains on each topic

brokerVars == <<link, session, wire, kept, retained>>

BrokerInit ==
    /\ link = "down"
    /\ session = 0
    /\ wire = <<>>
    /\ kept = <<>>
    /\ retained = [t \in Topics |-> None]

Message(topic, value, mid) == [topic |-> topic, value |-> value, mid |-> mid]

\* publish() of QoS 0: lost if there is no connection.
Publish0(topic, value) ==
    /\ wire' = IF link = "up" THEN Append(wire, Message(topic, value, 0)) ELSE wire
    /\ UNCHANGED <<link, session, kept, retained>>

\* publish() of QoS 1: kept until it is confirmed, and sent if there is a
\* connection.
Publish1(topic, value) ==
    LET mid == Len(kept) + 1
    IN  /\ kept' = Append(kept, [topic |-> topic, value |-> value,
                                 at |-> IF link = "up" THEN "sent" ELSE "queued"])
        /\ wire' = IF link = "up" THEN Append(wire, Message(topic, value, mid)) ELSE wire
        /\ UNCHANGED <<link, session, retained>>

\* The members of a finite set of numbers, the least one first
InOrder(S) ==
    LET Rank(m) == Cardinality({k \in S : k <= m})
    IN  [i \in 1 .. Cardinality(S) |-> CHOOSE m \in S : Rank(m) = i]

Unsent == {mid \in 1 .. Len(kept) : kept[mid].at = "queued"}

\* After on_connect the client sends again what it keeps, in the order of the ids.
Resend ==
    LET mids == InOrder(Unsent)
        Again(mid) == Message(kept[mid].topic, kept[mid].value, mid)
    IN  /\ wire' = IF link = "up"
                   THEN wire \o [i \in 1 .. Cardinality(Unsent) |-> Again(mids[i])] ELSE wire
        /\ kept' = [mid \in 1 .. Len(kept) |->
                       IF mid \in Unsent THEN [kept[mid] EXCEPT !.at = "sent"] ELSE kept[mid]]
        /\ UNCHANGED <<link, session, retained>>

\* The broker takes the oldest message, also one sent before the client stopped.
Deliver ==
    /\ link # "down" /\ wire # <<>>
    /\ retained' = [retained EXCEPT ![Head(wire).topic] = Head(wire).value]
    /\ wire' = Tail(wire)
    /\ UNCHANGED <<link, session, kept>>

\* The confirmation of a message the broker has taken reaches the client.
Confirm ==
    /\ link = "up"
    /\ \E mid \in 1 .. Len(kept) :
           /\ kept[mid].at = "sent"
           /\ \A i \in 1 .. Len(wire) : wire[i].mid # mid
           /\ kept' = [kept EXCEPT ![mid].at = "confirmed"]
    /\ UNCHANGED <<link, session, wire, retained>>

\* CONNACK with rc 0: on_connect is about to run.
Connect ==
    /\ link = "down" /\ session < MaxSessions
    /\ link' = "up"
    /\ session' = session + 1
    /\ UNCHANGED <<wire, kept, retained>>

\* What was on its way is lost; a broker that was restarted may have lost what it
\* retained.  What was not confirmed will be sent again.
Break ==
    /\ link = "up"
    /\ link' = "down"
    /\ wire' = <<>>
    /\ kept' = [mid \in 1 .. Len(kept) |->
                   IF kept[mid].at = "sent" THEN [kept[mid] EXCEPT !.at = "queued"]
                   ELSE kept[mid]]
    /\ \E persistent \in BOOLEAN :
           retained' = IF persistent THEN retained ELSE [t \in Topics |-> None]
    /\ UNCHANGED session

\* MQTTClient.stop: the network thread ends, the connection is closed.
StopClient ==
    /\ link' = "stopped"
    /\ UNCHANGED <<session, wire, kept, retained>>
=============================================================================
