--------------------------- MODULE Lifecycle_proofs ---------------------------
(***************************************************************************)
(* The retained topics are removed when the service stops without an error *)
(* and in the session it had, for any number of connections, events,       *)
(* signals and rejected logins.                                            *)
(*                                                                         *)
(* BrokerInv is the part of the invariant every operation of Broker keeps; *)
(* Holding is its heart: what is cleared stays cleared in the session.     *)
(***************************************************************************)
EXTENDS Lifecycle, FiniteSetTheorems, SequenceTheorems, WellFoundedInduction, TLAPS

Sent == [topic : Topics, value : Values, mid : Nat]
Keeps == [topic : Topics, value : Values, at : {"queued", "sent", "confirmed"}]

BrokerInv ==
    /\ link \in {"down", "up", "stopped"}
    /\ session \in Nat
    /\ wire \in Seq(Sent) /\ kept \in Seq(Keeps)
    /\ retained \in [Topics -> Values]
    /\ \A q \in 1 .. Len(wire) :
           wire[q].mid = 0 \/ (wire[q].mid \in 1 .. Len(kept) /\ kept[wire[q].mid].at # "confirmed")

TopicInv ==
    /\ state \in States /\ seen \in States
    /\ consumer \in {"new", "idle", "half", "set", "cancelled"}
    /\ callback \in {"none", "begun", "half", "read", "published", "subscribed"}

RunInv ==
    /\ phase \in Phases
    /\ stopping \in BOOLEAN /\ logged \in BOOLEAN
    /\ signals \in Nat /\ rejections \in Nat /\ exit_code \in {0, 1, 2}
    /\ clears \in Seq([mid : Nat, failed : BOOLEAN])
    /\ since \in Nat /\ since <= session
    /\ link = "up" \/ Closing \/ Unlogged => session > 0

Holding ==
    (Closing \/ Unlogged) /\ since = session =>
        /\ callback = "none"
        /\ \A i \in 1 .. Len(clears) :
               kept[clears[i].mid].at # "queued" => ClearHolds(Cleared[i], clears[i].mid)

\* The invariant in its parts, before a step and after.
LEMMA Parts == /\ IInv <=> BrokerInv /\ TopicInv /\ RunInv /\ ClearsInOrder /\ Holding
               /\ IInv' <=> BrokerInv' /\ TopicInv' /\ RunInv' /\ ClearsInOrder' /\ Holding'
  BY DEF IInv, TypeOK, BrokerInv, TopicInv, RunInv, Holding, Sent, Keeps

\* No step forgets a message of QoS 1, or that it was confirmed.
Remembered ==
    /\ Len(kept) <= Len(kept')
    /\ \A mid \in 1 .. Len(kept) :
           /\ kept'[mid].topic = kept[mid].topic /\ kept'[mid].value = kept[mid].value
           /\ kept[mid].at = "confirmed" => kept'[mid].at = "confirmed"

\* The topics cleared are the topics of the service.
LEMMA ClearedTopics ==
    /\ Len(Cleared) = 3
    /\ \A i \in 1 .. 3 : Cleared[i] \in Topics
    /\ \A t \in Topics : \E i \in 1 .. 3 : Cleared[i] = t
    /\ "state" \in Topics /\ "rpc" \in Topics
  <1>1. Len(Cleared) = 3 /\ Cleared[1] = "state" /\ Cleared[2] = "fw" /\ Cleared[3] = "rpc"
    BY DEF Cleared
  <1>2. \A t \in Topics : t = Cleared[1] \/ t = Cleared[2] \/ t = Cleared[3]
    BY <1>1, LifecycleTopics
  <1>3. Cleared[1] \in Topics /\ Cleared[2] \in Topics /\ Cleared[3] \in Topics
    BY <1>1, LifecycleTopics
  <1>4. 1 .. 3 = {1, 2, 3}
    OBVIOUS
  <1> QED BY <1>1, <1>2, <1>3, <1>4
-----------------------------------------------------------------------------
(* Sets of numbers in order                                                *)

\* A set of natural numbers that is not empty has a least member.
LEMMA Least ==
    ASSUME NEW S \in SUBSET Nat, S # {}
    PROVE  \E x \in S : \A y \in S : x <= y
  <1> DEFINE R == OpToRel(<, Nat)
  <1>1. IsWellFoundedOn(R, Nat)
    BY NatLessThanWellFounded
  <1>2. \A x, y \in Nat : x < y => <<x, y>> \in R
    BY DEF OpToRel
  <1> HIDE DEF R
  <1>3. PICK x \in S : \A y \in S : ~ (<<y, x>> \in R)
    BY <1>1, WFMin
  <1>4. \A y \in S : ~ (y < x) /\ y \in Nat /\ x \in Nat
    BY <1>2, <1>3
  <1> QED BY <1>4

Rank(S, m) == Cardinality({k \in S : k <= m})
Ranked(S) == \A i \in 1 .. Cardinality(S) : \E m \in S : Rank(S, m) = i

\* If the set without its least member has a member of every rank, so has the set.
LEMMA RankStep ==
    ASSUME NEW S \in SUBSET Nat, IsFiniteSet(S), NEW x \in S, \A y \in S : x <= y,
           Ranked(S \ {x})
    PROVE  Ranked(S)
  <1> DEFINE P == S \ {x}
  <1>1. /\ Cardinality(S) \in Nat /\ Cardinality(P) = Cardinality(S) - 1
        /\ IsFiniteSet(P) /\ Cardinality(P) \in Nat
    BY FS_RemoveElement, FS_CardinalityType
  <1>2. Rank(S, x) = 1
    <2>1. {k \in S : k <= x} = {x}
      <3>1. \A k \in S : k \in Nat /\ x \in Nat /\ x <= k
        OBVIOUS
      <3>2. \A k \in S : k <= x <=> k = x
        BY <3>1
      <3> QED BY <3>2
    <2>2. Cardinality({x}) = 1
      BY FS_Singleton
    <2> QED BY <2>1, <2>2 DEF Rank
  <1>3. \A m \in P : Rank(S, m) = Rank(P, m) + 1
    <2> SUFFICES ASSUME NEW m \in P PROVE Rank(S, m) = Rank(P, m) + 1
      OBVIOUS
    <2> DEFINE Below == {k \in P : k <= m}
    <2>1. {k \in S : k <= m} = Below \cup {x} /\ x \notin Below
      OBVIOUS
    <2>2. IsFiniteSet(Below)
      BY <1>1, FS_Subset
    <2> HIDE DEF Below
    <2>3. Cardinality(Below \cup {x}) = Cardinality(Below) + 1
      BY <2>1, <2>2, FS_AddElement
    <2> QED BY <2>1, <2>3 DEF Rank, Below
  <1> SUFFICES ASSUME NEW i \in 1 .. Cardinality(S) PROVE \E m \in S : Rank(S, m) = i
    BY DEF Ranked
  <1>4. CASE i = 1
    BY <1>2, <1>4
  <1>5. CASE i # 1
    <2>1. i - 1 \in 1 .. Cardinality(P)
      BY <1>1, <1>5
    <2>2. PICK m \in P : Rank(P, m) = i - 1
      BY <2>1 DEF Ranked
    <2> QED BY <1>3, <2>2
  <1> QED BY <1>4, <1>5

\* A finite set of natural numbers has a member of every rank.
LEMMA RanksExist ==
    ASSUME NEW S \in SUBSET Nat, IsFiniteSet(S)
    PROVE  Ranked(S)
  <1> DEFINE Bad == {n \in Nat : \E Q \in SUBSET Nat :
                        IsFiniteSet(Q) /\ Cardinality(Q) = n /\ ~Ranked(Q)}
  <1>1. CASE Bad = {}
    <2>1. Cardinality(S) \in Nat
      BY FS_CardinalityType
    <2> QED BY <1>1, <2>1
  <1>2. CASE Bad # {}
    <2>1. PICK n \in Bad : \A k \in Bad : n <= k
      BY <1>2, Least
    <2>2. PICK Q \in SUBSET Nat : IsFiniteSet(Q) /\ Cardinality(Q) = n /\ ~Ranked(Q)
      BY <2>1
    <2>3. Q # {}
      BY <2>2, FS_EmptySet DEF Ranked
    <2>4. PICK x \in Q : \A y \in Q : x <= y
      BY <2>3, Least
    <2>5. /\ IsFiniteSet(Q \ {x}) /\ Cardinality(Q \ {x}) = n - 1
          /\ Cardinality(Q \ {x}) \in Nat
      BY <2>2, FS_RemoveElement, FS_CardinalityType
    <2>6. Ranked(Q \ {x})
      <3>1. n - 1 \notin Bad
        BY <2>1
      <3> QED BY <2>5, <3>1
    <2> QED BY <2>2, <2>4, <2>6, RankStep
  <1> QED BY <1>1, <1>2

\* InOrder gives members of the set.
LEMMA InOrderType ==
    ASSUME NEW S \in SUBSET Nat, IsFiniteSet(S)
    PROVE  /\ Cardinality(S) \in Nat
           /\ \A i \in 1 .. Cardinality(S) : InOrder(S)[i] \in S
  <1>1. Cardinality(S) \in Nat
    BY FS_CardinalityType
  <1>2. ASSUME NEW i \in 1 .. Cardinality(S) PROVE InOrder(S)[i] \in S
    <2>1. \E m \in S : Rank(S, m) = i
      BY RanksExist DEF Ranked
    <2>2. InOrder(S)[i] = CHOOSE m \in S : Rank(S, m) = i
      BY DEF InOrder, Rank
    <2> QED BY <2>1, <2>2
  <1> QED BY <1>1, <1>2
-----------------------------------------------------------------------------
(* The operations of Broker                                                *)

\* A step that changes nothing of the broker.
LEMMA BrokerUnchanged ==
    ASSUME BrokerInv, UNCHANGED brokerVars
    PROVE  BrokerInv' /\ Remembered
  <1>1. Len(kept) \in Nat
    BY DEF BrokerInv
  <1> QED BY <1>1 DEF BrokerInv, brokerVars, Remembered

\* A message put at the end of what is on its way.
LEMMA WireGrows ==
    ASSUME BrokerInv, NEW m \in Sent
    PROVE  /\ Append(wire, m) \in Seq(Sent) /\ Len(Append(wire, m)) = Len(wire) + 1
           /\ \A q \in 1 .. Len(wire) : Append(wire, m)[q] = wire[q]
           /\ Append(wire, m)[Len(wire) + 1] = m
           /\ Len(wire) \in Nat
  BY AppendProperties DEF BrokerInv

\* A publication of QoS 0.
LEMMA Publish0Keeps ==
    ASSUME BrokerInv, NEW topic \in Topics, NEW value \in Values, Publish0(topic, value)
    PROVE  BrokerInv' /\ Remembered /\ UNCHANGED <<link, session>>
  <1> DEFINE m == Message(topic, value, 0)
  <1>1. m \in Sent /\ m.mid = 0
    BY DEF Message, Sent
  <1>2. wire' = Append(wire, m) \/ wire' = wire
    BY DEF Publish0
  <1> HIDE DEF m
  <1>3. UNCHANGED <<link, session, kept, retained>> /\ Len(kept) \in Nat
    BY DEF Publish0, BrokerInv
  <1>4. /\ wire' \in Seq(Sent)
        /\ \A q \in 1 .. Len(wire') : wire'[q].mid = 0 \/ (q \in 1 .. Len(wire) /\ wire'[q] = wire[q])
    <2>1. CASE wire' = wire
      BY <2>1 DEF BrokerInv
    <2>2. CASE wire' = Append(wire, m)
      BY <1>1, <2>2, WireGrows
    <2> QED BY <1>2, <2>1, <2>2
  <1>5. BrokerInv'
    BY <1>3, <1>4 DEF BrokerInv
  <1>6. Remembered
    BY <1>3 DEF Remembered
  <1> QED BY <1>3, <1>5, <1>6

\* A publication of QoS 1 is kept at a new id, and put on its way if there is a link.
LEMMA Publish1Keeps ==
    ASSUME BrokerInv, NEW topic \in Topics, NEW value \in Values, Publish1(topic, value)
    PROVE  /\ BrokerInv' /\ Remembered /\ UNCHANGED <<link, session, retained>>
           /\ Len(kept') = Len(kept) + 1 /\ Len(kept) \in Nat
           /\ \A mid \in 1 .. Len(kept) : kept'[mid] = kept[mid]
           /\ kept'[Len(kept')].topic = topic /\ kept'[Len(kept')].value = value
           /\ IF link = "up" THEN wire' = Append(wire, Message(topic, value, Len(kept')))
              ELSE wire' = wire /\ kept'[Len(kept')].at = "queued"
  <1> DEFINE m == Message(topic, value, Len(kept) + 1)
             k == [topic |-> topic, value |-> value, at |-> IF link = "up" THEN "sent" ELSE "queued"]
  <1>1. Len(kept) \in Nat /\ kept \in Seq(Keeps)
    BY DEF BrokerInv
  <1>2. m \in Sent /\ m.mid = Len(kept) + 1
    BY <1>1 DEF Message, Sent
  <1>3. /\ k \in Keeps /\ k.topic = topic /\ k.value = value /\ k.at # "confirmed"
        /\ link # "up" => k.at = "queued"
    BY DEF Keeps
  <1>4. /\ kept' = Append(kept, k) /\ UNCHANGED <<link, session, retained>>
        /\ wire' = IF link = "up" THEN Append(wire, m) ELSE wire
    BY DEF Publish1
  <1> HIDE DEF k
  <1>5. /\ kept' \in Seq(Keeps) /\ Len(kept') = Len(kept) + 1
        /\ \A mid \in 1 .. Len(kept) : kept'[mid] = kept[mid]
        /\ kept'[Len(kept) + 1] = k
    BY <1>1, <1>3, <1>4, AppendProperties
  <1>6. IF link = "up" THEN wire' = Append(wire, Message(topic, value, Len(kept')))
        ELSE wire' = wire /\ kept'[Len(kept')].at = "queued"
    BY <1>3, <1>4, <1>5
  <1> HIDE DEF m
  <1>7. /\ wire' \in Seq(Sent)
        /\ \A q \in 1 .. Len(wire') :
               wire'[q].mid = Len(kept) + 1 \/ (q \in 1 .. Len(wire) /\ wire'[q] = wire[q])
    <2>1. CASE wire' = wire
      BY <2>1 DEF BrokerInv
    <2>2. CASE wire' = Append(wire, m)
      BY <1>2, <2>2, WireGrows
    <2> QED BY <1>4, <2>1, <2>2
  <1>8. \A q \in 1 .. Len(wire') :
            wire'[q].mid = 0
            \/ (wire'[q].mid \in 1 .. Len(kept') /\ kept'[wire'[q].mid].at # "confirmed")
    <2> SUFFICES ASSUME NEW q \in 1 .. Len(wire')
                 PROVE  wire'[q].mid = 0
                        \/ (wire'[q].mid \in 1 .. Len(kept') /\ kept'[wire'[q].mid].at # "confirmed")
      OBVIOUS
    <2>1. CASE wire'[q].mid = Len(kept) + 1
      BY <1>1, <1>3, <1>5, <2>1
    <2>2. CASE q \in 1 .. Len(wire) /\ wire'[q] = wire[q]
      BY <1>1, <1>5, <2>2 DEF BrokerInv
    <2> QED BY <1>7, <2>1, <2>2
  <1>9. BrokerInv'
    BY <1>4, <1>5, <1>7, <1>8 DEF BrokerInv
  <1>10. Remembered
    BY <1>1, <1>5 DEF Remembered
  <1> QED BY <1>1, <1>3, <1>4, <1>5, <1>6, <1>9, <1>10

\* A message kept, with another "at"
IsKept(new, old, at) ==
    new \in Keeps /\ new.topic = old.topic /\ new.value = old.value /\ new.at = at

\* A kept message may change its "at" or stay.
LEMMA KeptExcept ==
    ASSUME NEW k \in Keeps
    PROVE  /\ IsKept(k, k, k.at)
           /\ \A at \in {"queued", "sent", "confirmed"} : IsKept([k EXCEPT !.at = at], k, at)
  BY DEF Keeps, IsKept

\* What is kept is sent again, in the order of the ids.
LEMMA ResendKeeps ==
    ASSUME BrokerInv, Resend
    PROVE  BrokerInv' /\ Remembered /\ UNCHANGED <<link, session>>
  <1> DEFINE n == Cardinality(Unsent)
             mids == InOrder(Unsent)
             again == [i \in 1 .. n |-> Message(kept[mids[i]].topic, kept[mids[i]].value, mids[i])]
  <1>1. Len(kept) \in Nat /\ kept \in Seq(Keeps) /\ wire \in Seq(Sent)
    BY DEF BrokerInv
  <1>2. Unsent \in SUBSET Nat /\ IsFiniteSet(Unsent) /\ Unsent \subseteq 1 .. Len(kept)
    <2>1. IsFiniteSet(1 .. Len(kept))
      BY <1>1, FS_Interval
    <2> QED BY <1>1, <2>1, FS_Subset DEF Unsent
  <1>3. n \in Nat /\ \A i \in 1 .. n : mids[i] \in Unsent
    BY <1>2, InOrderType
  <1>4. UNCHANGED <<link, session, retained>>
        /\ wire' = (IF link = "up" THEN wire \o again ELSE wire)
    BY DEF Resend
  <1>5. kept' = [mid \in 1 .. Len(kept) |->
                    IF mid \in Unsent THEN [kept[mid] EXCEPT !.at = "sent"] ELSE kept[mid]]
    BY DEF Resend
  <1> HIDE DEF n, mids
  <1>6. \A i \in 1 .. n : again[i] \in Sent /\ again[i].mid \in Unsent
    <2> SUFFICES ASSUME NEW i \in 1 .. n PROVE again[i] \in Sent /\ again[i].mid \in Unsent
      OBVIOUS
    <2>1. mids[i] \in 1 .. Len(kept) /\ mids[i] \in Unsent /\ mids[i] \in Nat
      BY <1>2, <1>3
    <2>2. kept[mids[i]] \in Keeps
      BY <1>1, <2>1
    <2> QED BY <2>1, <2>2 DEF Message, Sent, Keeps
  <1>7. again \in Seq(Sent) /\ Len(again) = n
    BY <1>3, <1>6
  <1> HIDE DEF again
  <1>8. /\ kept' \in Seq(Keeps) /\ Len(kept') = Len(kept)
        /\ \A mid \in 1 .. Len(kept) :
               /\ kept'[mid].topic = kept[mid].topic /\ kept'[mid].value = kept[mid].value
               /\ kept'[mid].at = IF mid \in Unsent THEN "sent" ELSE kept[mid].at
    <2>1. \A mid \in 1 .. Len(kept) : kept[mid] \in Keeps
      BY <1>1
    <2>2. \A mid \in 1 .. Len(kept) : IsKept(kept'[mid], kept[mid],
                                             IF mid \in Unsent THEN "sent" ELSE kept[mid].at)
      BY <1>5, <2>1, KeptExcept
    <2>3. kept' \in [1 .. Len(kept) -> Keeps]
      BY <1>5, <2>2 DEF IsKept
    <2>4. kept' \in Seq(Keeps) /\ Len(kept') = Len(kept)
      BY <1>1, <2>3
    <2> QED BY <2>2, <2>4 DEF IsKept
  <1>9. /\ wire' \in Seq(Sent)
        /\ \A q \in 1 .. Len(wire') :
               wire'[q].mid \in Unsent \/ (q \in 1 .. Len(wire) /\ wire'[q] = wire[q])
    <2>1. CASE wire' = wire
      BY <1>1, <2>1
    <2>2. CASE wire' = wire \o again
      <3>1. /\ wire \o again \in Seq(Sent)
            /\ Len(wire \o again) = Len(wire) + Len(again)
            /\ \A q \in 1 .. Len(wire) + Len(again) :
                   (wire \o again)[q] = IF q <= Len(wire) THEN wire[q] ELSE again[q - Len(wire)]
        BY <1>1, <1>7, ConcatProperties
      <3>2. Len(wire) \in Nat /\ Len(again) \in Nat
        BY <1>1, <1>3, <1>7
      <3> QED BY <1>6, <1>7, <2>2, <3>1, <3>2
    <2> QED BY <1>4, <2>1, <2>2
  <1>10. \A q \in 1 .. Len(wire') :
            wire'[q].mid = 0
            \/ (wire'[q].mid \in 1 .. Len(kept') /\ kept'[wire'[q].mid].at # "confirmed")
    <2> SUFFICES ASSUME NEW q \in 1 .. Len(wire')
                 PROVE  wire'[q].mid = 0
                        \/ (wire'[q].mid \in 1 .. Len(kept') /\ kept'[wire'[q].mid].at # "confirmed")
      OBVIOUS
    <2>1. CASE wire'[q].mid \in Unsent
      BY <1>2, <1>8, <2>1
    <2>2. CASE q \in 1 .. Len(wire) /\ wire'[q] = wire[q]
      BY <1>1, <1>8, <2>2 DEF BrokerInv
    <2> QED BY <1>9, <2>1, <2>2
  <1>11. BrokerInv'
    BY <1>4, <1>8, <1>9, <1>10 DEF BrokerInv
  <1>12. Remembered
    BY <1>1, <1>8 DEF Remembered, Unsent
  <1> QED BY <1>4, <1>11, <1>12

\* The broker takes the oldest message.
LEMMA DeliverKeeps ==
    ASSUME BrokerInv, Deliver
    PROVE  /\ BrokerInv' /\ Remembered /\ UNCHANGED <<link, session, kept>>
           /\ Len(wire) \in Nat /\ Len(wire') = Len(wire) - 1 /\ wire[1].topic \in Topics
           /\ \A q \in 1 .. Len(wire') : wire'[q] = wire[q + 1]
           /\ Len(wire) > 0
           /\ \A t \in Topics :
                  retained'[t] = IF t = wire[1].topic THEN wire[1].value ELSE retained[t]
  <1>1. wire # <<>> /\ wire \in Seq(Sent) /\ wire' = Tail(wire)
        /\ UNCHANGED <<link, session, kept>>
    BY DEF Deliver, BrokerInv
  <1>2. /\ wire' \in Seq(Sent) /\ Len(wire') = Len(wire) - 1
        /\ \A q \in 1 .. Len(wire') : wire'[q] = wire[q + 1]
    BY <1>1, HeadTailProperties
  <1>3. Len(wire) \in Nat /\ Len(wire) > 0 /\ Head(wire) = wire[1] /\ wire[1] \in Sent
    BY <1>1
  <1>4. /\ retained' \in [Topics -> Values] /\ wire[1].topic \in Topics
        /\ \A t \in Topics :
               retained'[t] = IF t = wire[1].topic THEN wire[1].value ELSE retained[t]
    BY <1>3 DEF Deliver, BrokerInv, Sent
  <1>5. BrokerInv'
    BY <1>1, <1>2, <1>3, <1>4 DEF BrokerInv
  <1>6. Remembered
    BY <1>1 DEF Remembered, BrokerInv
  <1> QED BY <1>1, <1>2, <1>3, <1>4, <1>5, <1>6

\* A message is confirmed when it is not on its way any more.
LEMMA ConfirmKeeps ==
    ASSUME BrokerInv, Confirm
    PROVE  /\ BrokerInv' /\ Remembered /\ UNCHANGED <<link, session, wire, retained>>
           /\ \A mid \in 1 .. Len(kept) : kept'[mid].at # "queued" => kept[mid].at # "queued"
  <1>1. PICK c \in 1 .. Len(kept) :
            /\ kept[c].at = "sent"
            /\ \A i \in 1 .. Len(wire) : wire[i].mid # c
            /\ kept' = [kept EXCEPT ![c].at = "confirmed"]
    BY DEF Confirm
  <1> DEFINE k == [kept[c] EXCEPT !.at = "confirmed"]
  <1>2. kept \in Seq(Keeps) /\ kept[c] \in Keeps /\ Len(kept) \in Nat
    BY DEF BrokerInv
  <1>3. /\ k \in Keeps /\ k.topic = kept[c].topic /\ k.value = kept[c].value
        /\ k.at = "confirmed" /\ kept' = [kept EXCEPT ![c] = k]
    BY <1>1, <1>2 DEF Keeps
  <1> HIDE DEF k
  <1>4. /\ kept' \in Seq(Keeps) /\ Len(kept') = Len(kept) /\ kept'[c] = k
        /\ \A mid \in 1 .. Len(kept) : mid # c => kept'[mid] = kept[mid]
    BY <1>2, <1>3, ExceptSeq
  <1>5. UNCHANGED <<link, session, wire, retained>>
    BY DEF Confirm
  <1>6. BrokerInv'
    BY <1>1, <1>4, <1>5 DEF BrokerInv
  <1>7. Remembered
    BY <1>2, <1>3, <1>4 DEF Remembered
  <1> QED BY <1>1, <1>4, <1>5, <1>6, <1>7

\* A link that breaks loses what is on its way.
LEMMA BreakKeeps ==
    ASSUME BrokerInv, Break
    PROVE  /\ BrokerInv' /\ Remembered /\ UNCHANGED session
           /\ link' = "down" /\ wire' = <<>> /\ Len(wire') = 0
           /\ \A mid \in 1 .. Len(kept) :
                  kept'[mid].at # "queued" => kept[mid].at = "confirmed"
           /\ retained' = retained \/ \A t \in Topics : retained'[t] = None
  <1>1. kept \in Seq(Keeps) /\ Len(kept) \in Nat
    BY DEF BrokerInv
  <1>2. kept' = [mid \in 1 .. Len(kept) |->
                    IF kept[mid].at = "sent" THEN [kept[mid] EXCEPT !.at = "queued"]
                    ELSE kept[mid]]
    BY DEF Break
  <1>3. /\ kept' \in Seq(Keeps) /\ Len(kept') = Len(kept)
        /\ \A mid \in 1 .. Len(kept) :
               /\ kept'[mid].topic = kept[mid].topic /\ kept'[mid].value = kept[mid].value
               /\ kept'[mid].at = IF kept[mid].at = "sent" THEN "queued" ELSE kept[mid].at
               /\ kept[mid].at \in {"queued", "sent", "confirmed"}
    <2>1. \A mid \in 1 .. Len(kept) : kept[mid] \in Keeps
      BY <1>1
    <2>2. \A mid \in 1 .. Len(kept) :
              IsKept(kept'[mid], kept[mid],
                     IF kept[mid].at = "sent" THEN "queued" ELSE kept[mid].at)
      BY <1>2, <2>1, KeptExcept
    <2>3. kept' \in [1 .. Len(kept) -> Keeps]
      BY <1>2, <2>2 DEF IsKept
    <2>4. kept' \in Seq(Keeps) /\ Len(kept') = Len(kept)
      BY <1>1, <2>3
    <2>5. \A mid \in 1 .. Len(kept) : kept[mid].at \in {"queued", "sent", "confirmed"}
      BY <2>1 DEF Keeps
    <2> QED BY <2>2, <2>4, <2>5 DEF IsKept
  <1>4. link' = "down" /\ wire' = <<>> /\ Len(wire') = 0 /\ wire' \in Seq(Sent)
        /\ UNCHANGED session
    BY DEF Break
  <1>5. /\ retained' = retained \/ \A t \in Topics : retained'[t] = None
        /\ retained' \in [Topics -> Values]
    BY DEF Break, BrokerInv, Values
  <1>6. BrokerInv'
    BY <1>3, <1>4, <1>5 DEF BrokerInv
  <1>7. Remembered
    BY <1>1, <1>3 DEF Remembered
  <1> QED BY <1>3, <1>4, <1>5, <1>6, <1>7
-----------------------------------------------------------------------------
(* A clear and what follows it                                             *)

\* Another clear does not undo one.
LEMMA HoldsAfterClear ==
    ASSUME BrokerInv, NEW topic, NEW mid, NEW m \in Sent, m.value = None,
           wire' = Append(wire, m), UNCHANGED retained, ClearHolds(topic, mid)
    PROVE  ClearHolds(topic, mid)'
  <1>1. /\ Len(wire') = Len(wire) + 1 /\ Len(wire) \in Nat
        /\ \A q \in 1 .. Len(wire) : wire'[q] = wire[q]
        /\ wire'[Len(wire) + 1] = m
    BY WireGrows
  <1>2. \A p \in 1 .. Len(wire) + 1 : Quiet(topic, p) => Quiet(topic, p)'
    BY <1>1 DEF Quiet
  <1>3. CASE retained[topic] = None /\ Quiet(topic, 1)
    BY <1>1, <1>2, <1>3 DEF ClearHolds
  <1>4. CASE \E p \in 1 .. Len(wire) :
                 wire[p].mid = mid /\ wire[p].topic = topic /\ Quiet(topic, p)
    BY <1>1, <1>2, <1>4 DEF ClearHolds
  <1> QED BY <1>3, <1>4 DEF ClearHolds

\* A clear that is delivered empties the topic; so does nothing else meanwhile.
LEMMA HoldsAfterDeliver ==
    ASSUME BrokerInv, NEW topic \in Topics, NEW mid, Deliver, ClearHolds(topic, mid)
    PROVE  ClearHolds(topic, mid)'
  <1>1. /\ Len(wire) \in Nat /\ Len(wire') = Len(wire) - 1 /\ Len(wire) > 0
        /\ \A q \in 1 .. Len(wire') : wire'[q] = wire[q + 1]
        /\ retained'[topic] = IF topic = wire[1].topic THEN wire[1].value ELSE retained[topic]
    BY DeliverKeeps
  <1>2. ASSUME Quiet(topic, 1), retained[topic] = None \/ wire[1].topic = topic
        PROVE  retained'[topic] = None /\ Quiet(topic, 1)'
    <2>1. retained'[topic] = None
      BY <1>1, <1>2 DEF Quiet
    <2>2. Quiet(topic, 1)'
      BY <1>1, <1>2 DEF Quiet
    <2> QED BY <2>1, <2>2
  <1>3. CASE retained[topic] = None /\ Quiet(topic, 1)
    BY <1>2, <1>3 DEF ClearHolds
  <1>4. CASE \E p \in 1 .. Len(wire) :
                 wire[p].mid = mid /\ wire[p].topic = topic /\ Quiet(topic, p)
    <2>1. PICK p \in 1 .. Len(wire) :
              wire[p].mid = mid /\ wire[p].topic = topic /\ Quiet(topic, p)
      BY <1>4
    <2>2. CASE p = 1
      BY <1>2, <2>1, <2>2 DEF ClearHolds
    <2>3. CASE p # 1
      <3>1. p - 1 \in 1 .. Len(wire') /\ wire'[p - 1] = wire[p]
        BY <1>1, <2>3
      <3>2. Quiet(topic, p - 1)'
        BY <1>1, <2>1, <3>1 DEF Quiet
      <3> QED BY <2>1, <3>1, <3>2 DEF ClearHolds
    <2> QED BY <2>2, <2>3
  <1> QED BY <1>3, <1>4 DEF ClearHolds

\* A clear that is confirmed has arrived.
LEMMA HoldsConfirmed ==
    ASSUME BrokerInv, NEW topic, NEW mid \in 1 .. Len(kept), kept[mid].at = "confirmed",
           ClearHolds(topic, mid)
    PROVE  retained[topic] = None /\ Quiet(topic, 1)
  BY DEF BrokerInv, ClearHolds

\* The order of the clears survives whatever remembers them.
LEMMA OrderKept ==
    ASSUME BrokerInv, BrokerInv', ClearsInOrder, Remembered, UNCHANGED <<clears, phase, logged>>
    PROVE  ClearsInOrder'
  <1>1. Len(kept) \in Nat /\ Len(kept') \in Nat
    BY DEF BrokerInv
  <1>2. \A i \in 1 .. Len(clears) :
            LET mid == clears[i].mid
            IN  mid \in 1 .. Len(kept') /\ kept'[mid].topic = Cleared[i] /\ kept'[mid].value = None
    BY <1>1 DEF ClearsInOrder, Remembered
  <1>3. AllPublished => AllPublished'
    BY <1>1 DEF AllPublished, IsPublished, ClearsInOrder, Remembered
  <1> QED BY <1>2, <1>3 DEF ClearsInOrder, Unlogged

\* Only topics are cleared.
LEMMA ClearsAreTopics ==
    ASSUME BrokerInv, ClearsInOrder, NEW i \in 1 .. Len(clears)
    PROVE  Cleared[i] \in Topics
  <1> DEFINE mid == clears[i].mid
  <1>1. mid \in 1 .. Len(kept) /\ kept[mid].topic = Cleared[i]
    BY DEF ClearsInOrder
  <1> HIDE DEF mid
  <1>2. kept[mid] \in Keeps
    BY <1>1 DEF BrokerInv
  <1> QED BY <1>1, <1>2 DEF Keeps

\* The counters and flags of the main thread stay.
LEMMA RunKept ==
    ASSUME RunInv, UNCHANGED runVars, session \in Nat, session' \in Nat, session <= session',
           link' = "up" => session' > 0
    PROVE  RunInv'
  BY DEF RunInv, runVars, Closing, Unlogged
-----------------------------------------------------------------------------
(* The steps                                                               *)

\* Initially nothing is sent and nothing is cleared.
LEMMA InitHolds == Init => IInv
  <1> SUFFICES ASSUME Init PROVE BrokerInv /\ TopicInv /\ RunInv /\ ClearsInOrder /\ Holding
    BY Parts
  <1>1. BrokerInv
    BY DEF Init, BrokerInit, BrokerInv, Values
  <1>2. TopicInv
    BY DEF Init, TopicInit, Nothing, TopicInv, States
  <1>3. RunInv
    <2>1. ~(link = "up") /\ ~Closing /\ ~Unlogged /\ clears = <<>>
      BY DEF Init, BrokerInit, Closing, Unlogged
    <2>2. phase \in Phases
      BY DEF Init, Phases
    <2>3. clears \in Seq([mid : Nat, failed : BOOLEAN])
      BY <2>1
    <2>4. stopping \in BOOLEAN /\ logged \in BOOLEAN
      BY DEF Init
    <2>5. /\ signals \in Nat /\ rejections \in Nat /\ exit_code \in {0, 1, 2}
          /\ since \in Nat /\ since <= session
      BY DEF Init, BrokerInit
    <2> QED BY <2>1, <2>2, <2>3, <2>4, <2>5 DEF RunInv
  <1>4. ClearsInOrder
    BY DEF Init, ClearsInOrder, Unlogged
  <1>5. Holding
    BY DEF Init, Holding, Closing, Unlogged
  <1> QED BY <1>1, <1>2, <1>3, <1>4, <1>5

\* What the state topic is given is a value of it.
LEMMA JsonType ==
    ASSUME NEW s \in States, NEW by \in {"consumer", "on_connect"}
    PROVE  Json(s, by) \in Values
  BY DEF Json, States, Values

\* The consumer works only while the service serves.
LEMMA ConsumerKeeps ==
    ASSUME IInv, phase = "serving", ConsumerStep, UNCHANGED runVars
    PROVE  IInv'
  <1>1. BrokerInv /\ TopicInv /\ RunInv /\ ClearsInOrder
    BY Parts
  <1>2. Json(state, "consumer") \in Values /\ "state" \in Topics
    BY <1>1, JsonType, ClearedTopics DEF TopicInv
  <1>3. BrokerInv' /\ Remembered /\ UNCHANGED <<link, session>>
    <2>1. CASE Publish0("state", Json(state, "consumer"))
      BY <1>1, <1>2, <2>1, Publish0Keeps
    <2>2. CASE UNCHANGED brokerVars
      BY <1>1, <2>2, BrokerUnchanged DEF brokerVars
    <2> QED BY <2>1, <2>2 DEF ConsumerStep, ConsumerStarts, SetProgress, SetRest, PublishState
  <1>4. TopicInv'
    BY <1>1 DEF TopicInv, States, ConsumerStep, ConsumerStarts, SetProgress, SetRest, PublishState
  <1>5. RunInv'
    BY <1>1, <1>3, RunKept DEF BrokerInv, RunInv
  <1>6. ClearsInOrder'
    BY <1>1, <1>3, OrderKept DEF runVars
  <1>7. Holding'
    BY DEF Holding, runVars, Closing, Unlogged
  <1> QED BY <1>3, <1>4, <1>5, <1>6, <1>7, Parts

\* A connection begins a session that is not the one of the clears.
LEMMA OnConnectKeeps ==
    ASSUME IInv, OnConnect, UNCHANGED runVars
    PROVE  IInv'
  <1>1. BrokerInv /\ TopicInv /\ RunInv /\ ClearsInOrder
    BY Parts
  <1>2. session' = session + 1 /\ session \in Nat
    BY <1>1 DEF OnConnect, Connect, BrokerInv
  <1>3. BrokerInv' /\ Remembered
    BY <1>1, <1>2 DEF OnConnect, Connect, BrokerInv, Remembered
  <1>4. TopicInv'
    BY <1>1 DEF TopicInv, OnConnect
  <1>5. RunInv'
    BY <1>1, <1>2, RunKept
  <1>6. ClearsInOrder'
    BY <1>1, <1>3, OrderKept DEF runVars
  <1>7. since' # session'
    BY <1>1, <1>2 DEF RunInv, runVars
  <1> QED BY <1>3, <1>4, <1>5, <1>6, <1>7, Parts DEF Holding

\* While on_connect runs nothing holds but the types.
LEMMA CallbackKeeps ==
    ASSUME IInv, CallbackStep, UNCHANGED runVars
    PROVE  IInv'
  <1>1. BrokerInv /\ TopicInv /\ RunInv /\ ClearsInOrder /\ Holding
    BY Parts
  <1>2. callback # "none"
    BY DEF CallbackStep, ReadProgress, ReadRest, PublishSeen, Subscribe, OnConnectReturns
  <1>3. BrokerInv' /\ Remembered /\ UNCHANGED <<link, session>>
    <2>1. CASE ReadProgress \/ ReadRest
      BY <1>1, <2>1, BrokerUnchanged DEF ReadProgress, ReadRest, brokerVars
    <2>2. CASE PublishSeen
      BY <1>1, <2>2, JsonType, ClearedTopics, Publish0Keeps DEF PublishSeen, TopicInv
    <2>3. CASE Subscribe
      BY <1>1, <2>3, ClearedTopics, Publish1Keeps DEF Subscribe, Values
    <2>4. CASE OnConnectReturns
      BY <1>1, <2>4, ResendKeeps DEF OnConnectReturns
    <2> QED BY <2>1, <2>2, <2>3, <2>4 DEF CallbackStep
  <1>4. TopicInv'
    BY <1>1 DEF TopicInv, States, Nothing, CallbackStep, ReadProgress, ReadRest, PublishSeen,
                Subscribe, OnConnectReturns
  <1>5. RunInv'
    BY <1>1, <1>3, RunKept DEF BrokerInv, RunInv
  <1>6. ClearsInOrder'
    BY <1>1, <1>3, OrderKept DEF runVars
  <1>7. Holding'
    BY <1>1, <1>2, <1>3 DEF Holding, runVars, Closing, Unlogged
  <1> QED BY <1>3, <1>4, <1>5, <1>6, <1>7, Parts

\* A link that breaks takes nothing back that was confirmed.
LEMMA LinkBreaksKeeps ==
    ASSUME IInv, LinkBreaks, UNCHANGED runVars
    PROVE  IInv'
  <1>1. BrokerInv /\ TopicInv /\ RunInv /\ ClearsInOrder /\ Holding
    BY Parts
  <1>2. /\ BrokerInv' /\ Remembered /\ UNCHANGED session
        /\ link' = "down" /\ Len(wire') = 0
        /\ \A mid \in 1 .. Len(kept) :
               kept'[mid].at # "queued" => kept[mid].at = "confirmed"
        /\ retained' = retained \/ \A t \in Topics : retained'[t] = None
    BY <1>1, BreakKeeps DEF LinkBreaks
  <1>3. TopicInv'
    BY <1>1 DEF TopicInv, LinkBreaks, topicVars
  <1>4. RunInv'
    BY <1>1, <1>2, RunKept DEF BrokerInv, RunInv
  <1>5. ClearsInOrder'
    BY <1>1, <1>2, OrderKept DEF runVars
  <1>6. Holding'
    <2> SUFFICES ASSUME Closing \/ Unlogged, since = session, NEW i \in 1 .. Len(clears),
                        kept'[clears[i].mid].at # "queued"
                 PROVE  ClearHolds(Cleared[i], clears[i].mid)'
      BY <1>2 DEF Holding, runVars, Closing, Unlogged, LinkBreaks, topicVars
    <2> DEFINE mid == clears[i].mid
    <2>1. mid \in 1 .. Len(kept) /\ kept[mid].topic = Cleared[i]
      BY <1>1 DEF ClearsInOrder
    <2>2. kept[mid].at = "confirmed"
      BY <1>2, <2>1
    <2>3. ClearHolds(Cleared[i], mid)
      BY <1>1, <2>2 DEF Holding
    <2>4. retained[Cleared[i]] = None
      BY <1>1, <2>1, <2>2, <2>3, HoldsConfirmed
    <2>5. Cleared[i] \in Topics
      BY <1>1, ClearsAreTopics
    <2>6. retained'[Cleared[i]] = None
      BY <1>2, <2>4, <2>5
    <2>7. Quiet(Cleared[i], 1)'
      BY <1>2 DEF Quiet
    <2> QED BY <2>6, <2>7 DEF ClearHolds, runVars
  <1> QED BY <1>2, <1>3, <1>4, <1>5, <1>6, Parts

\* The network delivers and confirms.
LEMMA NetworkKeeps ==
    ASSUME IInv, NetworkStep, UNCHANGED runVars
    PROVE  IInv'
  <1>1. BrokerInv /\ TopicInv /\ RunInv /\ ClearsInOrder /\ Holding
    BY Parts
  <1>2. UNCHANGED topicVars
    BY DEF NetworkStep
  <1>3. CASE Deliver
    <2>1. BrokerInv' /\ Remembered /\ UNCHANGED <<link, session, kept>>
      BY <1>1, <1>3, DeliverKeeps
    <2>2. TopicInv' /\ RunInv' /\ ClearsInOrder'
      BY <1>1, <1>2, <2>1, RunKept, OrderKept DEF TopicInv, topicVars, runVars, BrokerInv, RunInv
    <2>3. Holding'
      <3> SUFFICES ASSUME Closing \/ Unlogged, since = session, NEW i \in 1 .. Len(clears),
                          kept[clears[i].mid].at # "queued"
                   PROVE  ClearHolds(Cleared[i], clears[i].mid)'
        BY <1>1, <1>2, <2>1 DEF Holding, runVars, Closing, Unlogged, topicVars
      <3>1. ClearHolds(Cleared[i], clears[i].mid)
        BY <1>1 DEF Holding
      <3>2. Cleared[i] \in Topics
        BY <1>1, ClearsAreTopics
      <3>3. UNCHANGED clears
        BY DEF runVars
      <3> DEFINE topic == Cleared[i]
                 mid == clears[i].mid
      <3>4. (ClearHolds(topic, mid))' <=> ClearHolds(Cleared[i], clears[i].mid)'
        BY <3>3
      <3> QED BY <1>1, <1>3, <3>1, <3>2, <3>3, HoldsAfterDeliver DEF ClearHolds
    <2> QED BY <2>1, <2>2, <2>3, Parts
  <1>4. CASE callback = "none" /\ Confirm
    <2>1. /\ BrokerInv' /\ Remembered /\ UNCHANGED <<link, session, wire, retained>>
          /\ \A mid \in 1 .. Len(kept) : kept'[mid].at # "queued" => kept[mid].at # "queued"
      BY <1>1, <1>4, ConfirmKeeps
    <2>2. TopicInv' /\ RunInv' /\ ClearsInOrder'
      BY <1>1, <1>2, <2>1, RunKept, OrderKept DEF TopicInv, topicVars, runVars, BrokerInv, RunInv
    <2>3. Holding'
      <3> SUFFICES ASSUME Closing \/ Unlogged, since = session, NEW i \in 1 .. Len(clears),
                          kept'[clears[i].mid].at # "queued"
                   PROVE  ClearHolds(Cleared[i], clears[i].mid)'
        BY <1>1, <1>2, <2>1 DEF Holding, runVars, Closing, Unlogged, topicVars
      <3>1. clears[i].mid \in 1 .. Len(kept)
        BY <1>1 DEF ClearsInOrder
      <3>2. ClearHolds(Cleared[i], clears[i].mid)
        BY <1>1, <2>1, <3>1 DEF Holding
      <3> QED BY <2>1, <3>2 DEF ClearHolds, Quiet, runVars
    <2> QED BY <2>1, <2>2, <2>3, Parts
  <1> QED BY <1>3, <1>4 DEF NetworkStep

\* A signal or a rejected login only sets flags.
LEMMA StopRequestKeeps ==
    ASSUME IInv, Signal \/ LoginRejected
    PROVE  IInv'
  <1>1. BrokerInv /\ TopicInv /\ RunInv /\ ClearsInOrder /\ Holding
    BY Parts
  <1>2. UNCHANGED <<brokerVars, topicVars, phase, logged, clears, since>>
    BY DEF Signal, LoginRejected
  <1>3. stopping' \in BOOLEAN
    BY DEF Signal, LoginRejected
  <1>7. signals' \in Nat /\ rejections' \in Nat /\ exit_code' \in {0, 1, 2}
    BY <1>1 DEF Signal, LoginRejected, RunInv
  <1>4. TopicInv' /\ RunInv'
    BY <1>1, <1>2, <1>3, <1>7 DEF TopicInv, topicVars, RunInv, brokerVars, Closing, Unlogged
  <1>5. BrokerInv' /\ ClearsInOrder'
    BY <1>1, <1>2, BrokerUnchanged, OrderKept
  <1>6. Holding'
    BY <1>1, <1>2 DEF Holding, brokerVars, topicVars, Closing, Unlogged, ClearHolds, Quiet
  <1> QED BY <1>4, <1>5, <1>6, Parts

\* The steps up to the closing of the connection.
LEMMA StopKeeps ==
    ASSUME IInv, LoopStops \/ TasksEnd \/ Crash
    PROVE  IInv'
  <1>1. BrokerInv /\ TopicInv /\ RunInv /\ ClearsInOrder
    BY Parts
  <1>2. /\ UNCHANGED <<brokerVars, clears, since, signals, rejections, state, callback, seen>>
        /\ phase \in {"serving", "cancelling"}
        /\ phase' \in {"cancelling", "closing", "crashed"}
    BY DEF LoopStops, TasksEnd, Crash, topicVars
  <1>3. BrokerInv'
    BY <1>1, <1>2, BrokerUnchanged
  <1>4. TopicInv'
    BY <1>1, <1>2 DEF TopicInv, LoopStops, TasksEnd, Crash, topicVars
  <1>5. ~Closing' /\ ~Unlogged'
    BY <1>2 DEF Closing, Unlogged
  <1>6. RunInv'
    <2>1. phase' \in Phases
      BY <1>2 DEF Phases
    <2>2. stopping' \in BOOLEAN /\ logged' \in BOOLEAN /\ exit_code' \in {0, 1, 2}
      BY <1>1 DEF LoopStops, TasksEnd, Crash, RunInv
    <2> QED BY <1>1, <1>2, <1>5, <2>1, <2>2 DEF RunInv, brokerVars
  <1>7. ClearsInOrder'
    <2>1. clears = <<>> /\ Len(clears) = 0
      BY <1>1, <1>2 DEF ClearsInOrder
    <2> QED BY <1>2, <1>5, <2>1 DEF ClearsInOrder, Unlogged
  <1>8. Holding'
    BY <1>5 DEF Holding
  <1> QED BY <1>3, <1>4, <1>6, <1>7, <1>8, Parts

\* The clearing begins with the connection it finds.
LEMMA CheckConnectedKeeps ==
    ASSUME IInv, CheckConnected
    PROVE  IInv'
  <1>1. BrokerInv /\ TopicInv /\ RunInv /\ ClearsInOrder
    BY Parts
  <1>2. /\ UNCHANGED <<brokerVars, topicVars, stopping, signals, rejections, exit_code, clears>>
        /\ phase = "closing"
        /\ IF link = "up" THEN phase' = "clearing" /\ logged' = FALSE
           ELSE phase' = "quitting" /\ logged' = TRUE
        /\ since' = IF callback = "none" THEN session ELSE 0
    BY DEF CheckConnected
  <1>3. clears = <<>> /\ Len(clears) = 0
    BY <1>1, <1>2 DEF ClearsInOrder
  <1>4. BrokerInv' /\ TopicInv'
    BY <1>1, <1>2, BrokerUnchanged DEF TopicInv, topicVars
  <1>5. session \in Nat /\ (link = "up" => session > 0) /\ UNCHANGED <<link, session>>
    BY <1>1, <1>2 DEF BrokerInv, RunInv, brokerVars
  <1>6. RunInv'
    <2>1. phase' \in Phases /\ logged' \in BOOLEAN
      BY <1>2 DEF Phases
    <2>2. since' \in Nat /\ since' <= session'
      BY <1>2, <1>5
    <2>3. (link = "up" \/ Closing \/ Unlogged)' => session' > 0
      BY <1>2, <1>5 DEF Closing, Unlogged
    <2> QED BY <1>1, <1>2, <2>1, <2>2, <2>3 DEF RunInv
  <1>7. ClearsInOrder'
    <2>1. Len(Cleared) = 3
      BY ClearedTopics
    <2> QED BY <1>2, <1>3, <2>1 DEF ClearsInOrder, Unlogged
  <1>8. Holding'
    BY <1>2, <1>3, <1>5 DEF Holding, Closing, Unlogged, topicVars
  <1> QED BY <1>4, <1>6, <1>7, <1>8, Parts

\* The next clear is published behind everything else.
LEMMA ClearKeeps ==
    ASSUME IInv, Clear
    PROVE  IInv'
  <1> DEFINE topic == Cleared[Len(clears) + 1]
             c == [mid |-> Len(kept'), failed |-> link # "up"]
             m == Message(topic, None, Len(kept'))
  <1>1. BrokerInv /\ TopicInv /\ RunInv /\ ClearsInOrder /\ Holding
    BY Parts
  <1>2. /\ phase = "clearing" /\ Publish1(topic, None) /\ clears' = Append(clears, c)
        /\ phase' = IF Len(clears') = Len(Cleared) THEN "waiting" ELSE "clearing"
        /\ UNCHANGED <<topicVars, stopping, signals, rejections, exit_code, logged, since>>
    BY DEF Clear
  <1>3. Len(clears) \in Nat /\ Len(clears) < 3 /\ Len(Cleared) = 3
    BY <1>1, <1>2, ClearedTopics DEF ClearsInOrder, RunInv
  <1>4. topic \in Topics /\ None \in Values
    BY <1>3, ClearedTopics DEF Values
  <1> HIDE DEF topic
  <1>5. /\ BrokerInv' /\ Remembered /\ UNCHANGED <<link, session, retained>>
        /\ Len(kept') = Len(kept) + 1 /\ Len(kept) \in Nat
        /\ \A mid \in 1 .. Len(kept) : kept'[mid] = kept[mid]
        /\ kept'[Len(kept')].topic = topic /\ kept'[Len(kept')].value = None
        /\ IF link = "up" THEN wire' = Append(wire, m)
           ELSE wire' = wire /\ kept'[Len(kept')].at = "queued"
    BY <1>1, <1>2, <1>4, Publish1Keeps
  <1>6. c \in [mid : Nat, failed : BOOLEAN] /\ c.mid = Len(kept')
    BY <1>5
  <1> HIDE DEF c
  <1>7. /\ clears' \in Seq([mid : Nat, failed : BOOLEAN]) /\ Len(clears') = Len(clears) + 1
        /\ \A i \in 1 .. Len(clears) : clears'[i] = clears[i]
        /\ clears'[Len(clears) + 1] = c
    BY <1>1, <1>2, <1>6, AppendProperties DEF RunInv
  <1>8. TopicInv'
    BY <1>1, <1>2 DEF TopicInv, topicVars
  <1>9. RunInv'
    <2>1. phase' \in Phases
      BY <1>2 DEF Phases
    <2>2. session > 0
      BY <1>1, <1>2 DEF RunInv, Closing
    <2> QED BY <1>1, <1>2, <1>5, <1>7, <2>1, <2>2 DEF RunInv
  <1>10. ClearsInOrder'
    <2>1. ASSUME NEW i \in 1 .. Len(clears')
          PROVE  /\ clears'[i].mid \in 1 .. Len(kept')
                 /\ kept'[clears'[i].mid].topic = Cleared[i]
                 /\ kept'[clears'[i].mid].value = None
      <3>1. CASE i \in 1 .. Len(clears)
        <4>1. /\ clears[i].mid \in 1 .. Len(kept) /\ kept[clears[i].mid].topic = Cleared[i]
              /\ kept[clears[i].mid].value = None
          BY <1>1, <3>1 DEF ClearsInOrder
        <4>2. kept'[clears[i].mid] = kept[clears[i].mid] /\ clears[i].mid \in 1 .. Len(kept')
          BY <1>5, <4>1
        <4> QED BY <1>7, <3>1, <4>1, <4>2
      <3>2. CASE i = Len(clears) + 1
        BY <1>5, <1>6, <1>7, <3>2 DEF topic
      <3> QED BY <1>3, <1>7, <3>1, <3>2
    <2>2. /\ phase' = "clearing" => Len(clears') < Len(Cleared)
          /\ phase' = "waiting" => Len(clears') = Len(Cleared)
          /\ phase' \in {"clearing", "waiting"}
      BY <1>2, <1>3, <1>7
    <2> QED BY <2>1, <2>2 DEF ClearsInOrder, Unlogged
  <1>11. Holding'
    <2> SUFFICES ASSUME since = session, NEW i \in 1 .. Len(clears'),
                        kept'[clears'[i].mid].at # "queued"
                 PROVE  callback = "none" /\ ClearHolds(Cleared[i], clears[i].mid)'
      <3>1. callback = "none" \/ since # session
        BY <1>1, <1>2 DEF Holding, Closing
      <3> QED BY <1>2, <1>5, <3>1 DEF Holding, topicVars
    <2>1. callback = "none"
      BY <1>1, <1>2 DEF Holding, Closing
    <2>2. CASE i \in 1 .. Len(clears)
      <3>1. clears[i].mid \in 1 .. Len(kept)
        BY <1>1, <2>2 DEF ClearsInOrder
      <3>2. kept[clears[i].mid].at # "queued"
        BY <1>5, <1>7, <2>2, <3>1
      <3>3. ClearHolds(Cleared[i], clears[i].mid)
        BY <1>1, <1>2, <2>2, <3>2 DEF Holding, Closing
      <3>4. CASE link = "up"
        <4>1. m \in Sent /\ m.value = None
          BY <1>4, <1>5 DEF Message, Sent
        <4> HIDE DEF m
        <4> DEFINE t == Cleared[i]
                   mid == clears[i].mid
        <4>2. wire' = Append(wire, m) /\ UNCHANGED retained
          BY <1>5, <3>4
        <4>3. PICK x : x = mid
          OBVIOUS
        <4>4. ClearHolds(t, x)'
          BY <1>1, <3>3, <4>1, <4>2, <4>3, HoldsAfterClear
        <4> QED BY <1>7, <2>1, <2>2, <4>3, <4>4 DEF ClearHolds
      <3>5. CASE link # "up"
        BY <1>5, <1>7, <2>1, <2>2, <3>3, <3>5 DEF ClearHolds, Quiet
      <3> QED BY <3>4, <3>5
    <2>3. CASE i = Len(clears) + 1
      <3>1. link = "up" /\ wire' = Append(wire, m)
        BY <1>5, <1>6, <1>7, <2>3
      <3>2. m \in Sent /\ m.value = None /\ m.topic = topic /\ m.mid = Len(kept')
        BY <1>4, <1>5 DEF Message, Sent
      <3> HIDE DEF m
      <3>3. /\ Len(wire') = Len(wire) + 1 /\ Len(wire) \in Nat
            /\ wire'[Len(wire) + 1] = m
        BY <1>1, <3>1, <3>2, WireGrows
      <3>4. Quiet(topic, Len(wire) + 1)'
        BY <3>2, <3>3 DEF Quiet
      <3>5. \E p \in 1 .. Len(wire') :
                wire'[p].mid = Len(kept') /\ wire'[p].topic = topic
                /\ \A q \in p .. Len(wire') : wire'[q].topic = topic => wire'[q].value = None
        BY <3>2, <3>3
      <3> QED BY <1>6, <1>7, <2>1, <2>3, <3>5 DEF ClearHolds, Quiet, topic
    <2> QED BY <1>3, <1>7, <2>2, <2>3
  <1> QED BY <1>5, <1>8, <1>9, <1>10, <1>11, Parts

\* The wait ends with every clear confirmed, or with an error logged.
LEMMA WaitKeeps ==
    ASSUME IInv, WaitReturns \/ WaitRaises \/ WaitTimesOut
    PROVE  IInv'
  <1>1. BrokerInv /\ TopicInv /\ RunInv /\ ClearsInOrder /\ Holding
    BY Parts
  <1>2. /\ phase = "waiting" /\ phase' = "quitting"
        /\ UNCHANGED <<brokerVars, topicVars, stopping, signals, rejections, exit_code,
                       clears, since>>
        /\ logged' \in BOOLEAN /\ (~logged' => AllPublished)
    BY DEF WaitReturns, WaitRaises, WaitTimesOut, Quits
  <1>3. BrokerInv' /\ TopicInv'
    BY <1>1, <1>2, BrokerUnchanged DEF TopicInv, topicVars
  <1>4. RunInv'
    <2>1. phase' \in Phases
      BY <1>2 DEF Phases
    <2>2. session > 0
      BY <1>1, <1>2 DEF RunInv, Closing
    <2> QED BY <1>1, <1>2, <2>1, <2>2 DEF RunInv, brokerVars
  <1>5. ClearsInOrder'
    <2>1. AllPublished' <=> AllPublished
      BY <1>2 DEF AllPublished, IsPublished, brokerVars
    <2> QED BY <1>1, <1>2, <2>1 DEF ClearsInOrder, Unlogged, brokerVars
  <1>6. Holding'
    BY <1>1, <1>2 DEF Holding, Closing, brokerVars, topicVars, ClearHolds, Quiet
  <1> QED BY <1>3, <1>4, <1>5, <1>6, Parts

\* The end of the network thread.
LEMMA ClientStopsKeeps ==
    ASSUME IInv, ClientStops
    PROVE  IInv'
  <1>1. BrokerInv /\ TopicInv /\ RunInv /\ ClearsInOrder /\ Holding
    BY Parts
  <1>2. /\ phase = "quitting" /\ phase' = "stopped" /\ link' = "stopped"
        /\ UNCHANGED <<session, wire, kept, retained, topicVars, stopping, signals, rejections,
                       exit_code, logged, clears, since>>
    BY DEF ClientStops, StopClient
  <1>3. BrokerInv' /\ TopicInv'
    BY <1>1, <1>2 DEF BrokerInv, TopicInv, topicVars
  <1>4. ~Closing' /\ ~Closing /\ (Unlogged' <=> Unlogged)
    BY <1>2 DEF Closing, Unlogged
  <1>5. RunInv'
    <2>1. phase' \in Phases
      BY <1>2 DEF Phases
    <2> QED BY <1>1, <1>2, <1>4, <2>1 DEF RunInv
  <1>6. ClearsInOrder'
    <2>1. AllPublished' <=> AllPublished
      BY <1>2 DEF AllPublished, IsPublished
    <2> QED BY <1>1, <1>2, <1>4, <2>1 DEF ClearsInOrder
  <1>7. Holding'
    BY <1>1, <1>2, <1>4 DEF Holding, topicVars, ClearHolds, Quiet
  <1> QED BY <1>3, <1>5, <1>6, <1>7, Parts

\* Every step keeps the invariant.
LEMMA NextKeeps == IInv /\ [Next]_vars => IInv'
  <1> SUFFICES ASSUME IInv, [Next]_vars PROVE IInv'
    OBVIOUS
  <1>1. CASE phase = "serving" /\ ConsumerStep /\ UNCHANGED runVars
    BY <1>1, ConsumerKeeps
  <1>2. CASE (OnConnect \/ CallbackStep \/ LinkBreaks) /\ UNCHANGED runVars
    BY <1>2, OnConnectKeeps, CallbackKeeps, LinkBreaksKeeps
  <1>3. CASE NetworkStep /\ UNCHANGED runVars
    BY <1>3, NetworkKeeps
  <1>4. CASE Signal \/ LoginRejected
    BY <1>4, StopRequestKeeps
  <1>5. CASE MainStep
    BY <1>5, StopKeeps, CheckConnectedKeeps, ClearKeeps, WaitKeeps, ClientStopsKeeps DEF MainStep
  <1>6. CASE UNCHANGED vars
    <2>1. BrokerInv /\ TopicInv /\ RunInv /\ ClearsInOrder /\ Holding
      BY Parts
    <2>2. UNCHANGED <<brokerVars, topicVars, runVars>>
      BY <1>6 DEF vars
    <2>3. BrokerInv' /\ TopicInv' /\ RunInv' /\ ClearsInOrder'
      BY <2>1, <2>2, BrokerUnchanged, OrderKept
         DEF TopicInv, topicVars, RunInv, runVars, brokerVars, Closing, Unlogged
    <2>4. Holding'
      BY <2>1, <2>2 DEF Holding, runVars, brokerVars, topicVars, Closing, Unlogged, ClearHolds, Quiet
    <2> QED BY <2>3, <2>4, Parts
  <1> QED BY <1>1, <1>2, <1>3, <1>4, <1>5, <1>6 DEF Next
-----------------------------------------------------------------------------
(* The theorems                                                            *)

\* Every reachable state satisfies the inductive invariant, for any number of
\* connections, events, signals and rejected logins.
THEOREM Invariance == Spec => []IInv
  BY InitHolds, NextKeeps, PTL DEF Spec

\* A service that stops without an error, in the session it had, leaves no retained
\* topic behind.
THEOREM NothingLeftBehind == Spec => []TopicsCleared
  <1>1. IInv => TopicsCleared
    <2> SUFFICES ASSUME IInv, phase = "stopped", ~logged, since = session, NEW t \in Topics
                 PROVE  retained[t] = None
      BY DEF TopicsCleared
    <2>1. BrokerInv /\ ClearsInOrder /\ Holding /\ Unlogged
      BY Parts DEF Unlogged
    <2>2. Len(clears) = 3
      BY <2>1, ClearedTopics DEF ClearsInOrder
    <2>3. PICK i \in 1 .. Len(clears) : Cleared[i] = t
      BY <2>2, ClearedTopics
    <2>4. clears[i].mid \in 1 .. Len(kept) /\ kept[clears[i].mid].at = "confirmed"
      BY <2>1 DEF ClearsInOrder, AllPublished, IsPublished
    <2>5. ClearHolds(t, clears[i].mid)
      BY <2>1, <2>3, <2>4 DEF Holding
    <2> QED BY <2>1, <2>4, <2>5, HoldsConfirmed
  <1> QED BY <1>1, Invariance, PTL

\* A service that stops without an error has the confirmation of each clear, whatever
\* the link did meanwhile.
THEOREM EachConfirmed == Spec => []ClearsConfirmed
  <1>1. IInv => ClearsConfirmed
    <2> SUFFICES ASSUME IInv, phase = "stopped", ~logged, NEW i \in 1 .. Len(Cleared)
                 PROVE  \E mid \in 1 .. Len(kept) :
                            /\ kept[mid].topic = Cleared[i] /\ kept[mid].value = None
                            /\ kept[mid].at = "confirmed"
      BY DEF ClearsConfirmed
    <2>1. ClearsInOrder /\ Unlogged
      BY Parts DEF Unlogged
    <2>2. i \in 1 .. Len(clears)
      BY <2>1 DEF ClearsInOrder
    <2> QED BY <2>1, <2>2 DEF ClearsInOrder, AllPublished, IsPublished
  <1> QED BY <1>1, Invariance, PTL
-----------------------------------------------------------------------------
(* The last word on the state topic                                        *)

\* The state as it is, if it is the consumer that says it
Agrees(v) == v # None /\ v.by = "consumer" => v.progress = state.progress /\ v.rest = state.rest

\* Behind the p-th message nothing is on its way to the state topic.
LastOnWire(p) == \A q \in p + 1 .. Len(wire) : wire[q].topic # "state"

\* What the state topic will show once everything on its way has arrived
LastWord ==
    /\ \A p \in 1 .. Len(wire) :
           wire[p].topic = "state" /\ LastOnWire(p) => Agrees(wire[p].value)
    /\ LastOnWire(0) => Agrees(retained["state"])

\* A resting consumer of a connected service has said what it knows, or on_connect
\* has spoken after it.  Between the connection and the publication of on_connect the
\* topic may show what was true before the link broke.
Speaking ==
    /\ phase = "serving" /\ consumer = "idle" /\ link = "up"
    /\ callback \in {"none", "published", "subscribed"}

\* What the client keeps and sends again never is a state, only a clear of its topic.
KeptClears ==
    \A mid \in 1 .. Len(kept) : kept[mid].topic = "state" => kept[mid].value = None

SInv == IInv /\ KeptClears /\ (Speaking => LastWord)

\* A message that says the state, or says nothing of it, is a last word.
LEMMA LastWordAppended ==
    ASSUME BrokerInv, NEW m \in Sent, wire' = Append(wire, m), UNCHANGED <<retained, state>>,
           m.topic = "state" => Agrees(m.value),
           m.topic # "state" => LastWord
    PROVE  LastWord'
  <1>1. /\ Len(wire') = Len(wire) + 1 /\ Len(wire) \in Nat
        /\ \A q \in 1 .. Len(wire) : wire'[q] = wire[q]
        /\ wire'[Len(wire) + 1] = m
    BY WireGrows
  <1>2. \A v : Agrees(v)' <=> Agrees(v)
    BY DEF Agrees
  <1>3. ASSUME NEW p \in 0 .. Len(wire), LastOnWire(p)' PROVE LastOnWire(p) /\ m.topic # "state"
    BY <1>1, <1>3 DEF LastOnWire
  <1>4. ASSUME NEW p \in 1 .. Len(wire'), wire'[p].topic = "state", LastOnWire(p)'
        PROVE  Agrees(wire'[p].value)
    <2>1. CASE p = Len(wire) + 1
      BY <1>1, <1>4, <2>1
    <2>2. CASE p \in 1 .. Len(wire)
      BY <1>1, <1>3, <1>4, <2>2 DEF LastWord
    <2> QED BY <1>1, <2>1, <2>2
  <1>5. LastOnWire(0)' => Agrees(retained["state"])
    BY <1>1, <1>3 DEF LastWord
  <1>6. (LastWord)' <=> /\ \A p \in 1 .. Len(wire') :
                               wire'[p].topic = "state" /\ LastOnWire(p)' => Agrees(wire'[p].value)
                        /\ LastOnWire(0)' => Agrees(retained'["state"])
    BY DEF LastWord, LastOnWire, Agrees
  <1> QED BY <1>2, <1>4, <1>5, <1>6

\* What only clears the topic and other topics leave the last word to what was there.
LEMMA LastWordExtended ==
    ASSUME BrokerInv, NEW s \in Seq(Sent), wire' = wire \o s, UNCHANGED <<retained, state>>,
           \A i \in 1 .. Len(s) : s[i].topic = "state" => s[i].value = None,
           LastWord
    PROVE  LastWord'
  <1>1. wire \in Seq(Sent) /\ Len(wire) \in Nat /\ Len(s) \in Nat
    BY DEF BrokerInv
  <1>2. /\ Len(wire') = Len(wire) + Len(s)
        /\ \A q \in 1 .. Len(wire') :
               wire'[q] = IF q <= Len(wire) THEN wire[q] ELSE s[q - Len(wire)]
    BY <1>1, ConcatProperties
  <1>3. ASSUME NEW p \in 0 .. Len(wire), LastOnWire(p)' PROVE LastOnWire(p)
    BY <1>1, <1>2, <1>3 DEF LastOnWire
  <1>4. ASSUME NEW p \in 1 .. Len(wire'), wire'[p].topic = "state", LastOnWire(p)'
        PROVE  Agrees(wire'[p].value)
    <2>1. CASE p <= Len(wire)
      BY <1>1, <1>2, <1>3, <1>4, <2>1 DEF LastWord
    <2>2. CASE p > Len(wire)
      <3>1. wire'[p].value = None
        BY <1>1, <1>2, <1>4, <2>2
      <3> QED BY <3>1 DEF Agrees
    <2> QED BY <1>1, <1>2, <2>1, <2>2
  <1>5. LastOnWire(0)' => Agrees(retained["state"])
    BY <1>1, <1>3 DEF LastWord
  <1>6. (LastWord)' <=> /\ \A p \in 1 .. Len(wire') :
                               wire'[p].topic = "state" /\ LastOnWire(p)' => Agrees(wire'[p].value)
                        /\ LastOnWire(0)' => Agrees(retained'["state"])
    BY DEF LastWord, LastOnWire, Agrees
  <1>7. \A v : Agrees(v)' <=> Agrees(v)
    BY DEF Agrees
  <1> QED BY <1>4, <1>5, <1>6, <1>7

\* The last word is delivered as it was said.
LEMMA LastWordDelivered ==
    ASSUME BrokerInv, Deliver, UNCHANGED state, LastWord
    PROVE  LastWord'
  <1>1. /\ Len(wire) \in Nat /\ Len(wire') = Len(wire) - 1 /\ Len(wire) > 0
        /\ \A q \in 1 .. Len(wire') : wire'[q] = wire[q + 1]
        /\ retained'["state"] = IF "state" = wire[1].topic THEN wire[1].value
                                ELSE retained["state"]
    BY DeliverKeeps, ClearedTopics
  <1>2. ASSUME NEW p \in 0 .. Len(wire'), LastOnWire(p)' PROVE LastOnWire(p + 1)
    <2> SUFFICES ASSUME NEW q \in p + 2 .. Len(wire) PROVE wire[q].topic # "state"
      BY DEF LastOnWire
    <2>1. q - 1 \in p + 1 .. Len(wire') /\ wire'[q - 1] = wire[q]
      BY <1>1
    <2> QED BY <1>2, <2>1 DEF LastOnWire
  <1>3. ASSUME NEW p \in 1 .. Len(wire'), wire'[p].topic = "state", LastOnWire(p)'
        PROVE  Agrees(wire'[p].value)
    <2>1. p + 1 \in 1 .. Len(wire) /\ wire'[p] = wire[p + 1] /\ p \in 0 .. Len(wire')
      BY <1>1
    <2> QED BY <1>2, <1>3, <2>1 DEF LastWord
  <1>4. ASSUME LastOnWire(0)' PROVE Agrees(retained'["state"])
    <2>1. LastOnWire(1)
      BY <1>1, <1>2, <1>4
    <2>2. CASE wire[1].topic = "state"
      BY <1>1, <2>1, <2>2 DEF LastWord
    <2>3. CASE wire[1].topic # "state"
      <3>1. LastOnWire(0)
        BY <1>1, <2>1, <2>3 DEF LastOnWire
      <3> QED BY <1>1, <2>3, <3>1 DEF LastWord
    <2> QED BY <2>2, <2>3
  <1>5. (LastWord)' <=> /\ \A p \in 1 .. Len(wire') :
                               wire'[p].topic = "state" /\ LastOnWire(p)' => Agrees(wire'[p].value)
                        /\ LastOnWire(0)' => Agrees(retained'["state"])
    BY DEF LastWord, LastOnWire, Agrees
  <1>6. \A v : Agrees(v)' <=> Agrees(v)
    BY DEF Agrees
  <1> QED BY <1>3, <1>4, <1>5, <1>6

\* A consumer that publishes has the last word.
LEMMA ConsumerSpeaks ==
    ASSUME BrokerInv, TopicInv, Publish0("state", Json(state, "consumer")), UNCHANGED state,
           link = "up"
    PROVE  LastWord'
  <1> DEFINE m == Message("state", Json(state, "consumer"), 0)
  <1>1. Json(state, "consumer") \in Values /\ "state" \in Topics
    BY JsonType, ClearedTopics DEF TopicInv
  <1>2. m \in Sent /\ m.topic = "state" /\ Agrees(m.value)
    BY <1>1 DEF Message, Sent, Json, Agrees
  <1>3. wire' = Append(wire, m) /\ UNCHANGED retained
    BY DEF Publish0
  <1> HIDE DEF m
  <1> QED BY <1>2, <1>3, LastWordAppended

\* What on_connect says is not the consumer's.
LEMMA CallbackSpeaks ==
    ASSUME BrokerInv, TopicInv, PublishSeen, link = "up"
    PROVE  LastWord'
  <1> DEFINE m == Message("state", Json(seen, "on_connect"), 0)
  <1>1. Json(seen, "on_connect") \in Values /\ "state" \in Topics
    BY JsonType, ClearedTopics DEF TopicInv
  <1>2. m \in Sent /\ m.topic = "state" /\ Agrees(m.value)
    BY <1>1 DEF Message, Sent, Json, Agrees
  <1>3. wire' = Append(wire, m) /\ UNCHANGED <<retained, state>>
    BY DEF PublishSeen, Publish0
  <1> HIDE DEF m
  <1> QED BY <1>2, <1>3, LastWordAppended

\* What is sent again is what is kept.
LEMMA ResentClears ==
    ASSUME BrokerInv, KeptClears, Resend, link = "up"
    PROVE  \E s \in Seq(Sent) :
               /\ wire' = wire \o s
               /\ \A i \in 1 .. Len(s) : s[i].topic = "state" => s[i].value = None
  <1> DEFINE n == Cardinality(Unsent)
             mids == InOrder(Unsent)
             again == [i \in 1 .. n |-> Message(kept[mids[i]].topic, kept[mids[i]].value, mids[i])]
  <1>1. Len(kept) \in Nat /\ kept \in Seq(Keeps)
    BY DEF BrokerInv
  <1>2. Unsent \in SUBSET Nat /\ IsFiniteSet(Unsent) /\ Unsent \subseteq 1 .. Len(kept)
    <2>1. IsFiniteSet(1 .. Len(kept))
      BY <1>1, FS_Interval
    <2> QED BY <1>1, <2>1, FS_Subset DEF Unsent
  <1>3. n \in Nat /\ \A i \in 1 .. n : mids[i] \in Unsent
    BY <1>2, InOrderType
  <1>4. wire' = wire \o again
    BY DEF Resend
  <1> HIDE DEF n, mids
  <1>5. \A i \in 1 .. n : /\ again[i] \in Sent
                          /\ again[i].topic = "state" => again[i].value = None
    <2> SUFFICES ASSUME NEW i \in 1 .. n
                 PROVE  /\ again[i] \in Sent
                        /\ again[i].topic = "state" => again[i].value = None
      OBVIOUS
    <2>1. mids[i] \in 1 .. Len(kept) /\ mids[i] \in Nat
      BY <1>2, <1>3
    <2>2. kept[mids[i]] \in Keeps
      BY <1>1, <2>1
    <2> QED BY <2>1, <2>2 DEF Message, Sent, Keeps, KeptClears
  <1>6. again \in Seq(Sent) /\ Len(again) = n
    BY <1>3, <1>5
  <1> HIDE DEF again
  <1> QED BY <1>4, <1>5, <1>6

\* The messages kept are as many as before if they are numbered as before.
LEMMA SameLength ==
    ASSUME BrokerInv, BrokerInv', OnConnectReturns \/ LinkBreaks \/ Confirm
    PROVE  Len(kept') = Len(kept)
  <1>1. kept \in Seq(Keeps) /\ kept' \in Seq(Keeps)
    BY DEF BrokerInv
  <1>2. DOMAIN kept = 1 .. Len(kept) /\ DOMAIN kept' = 1 .. Len(kept')
        /\ Len(kept) \in Nat /\ Len(kept') \in Nat
    BY <1>1
  <1>3. DOMAIN kept' = 1 .. Len(kept)
    <2>1. CASE Confirm
      BY <1>2, <2>1 DEF Confirm
    <2>2. CASE OnConnectReturns \/ LinkBreaks
      BY <2>2 DEF OnConnectReturns, Resend, LinkBreaks, Break
    <2> QED BY <2>1, <2>2
  <1>4. \A a, b \in Nat : 1 .. a = 1 .. b => a = b
    <2> SUFFICES ASSUME NEW a \in Nat, NEW b \in Nat, 1 .. a = 1 .. b PROVE a = b
      OBVIOUS
    <2>1. (a \in 1 .. a <=> a \in 1 .. b) /\ (b \in 1 .. b <=> b \in 1 .. a)
      OBVIOUS
    <2> QED BY <2>1
  <1>5. 1 .. Len(kept') = 1 .. Len(kept)
    BY <1>2, <1>3
  <1> QED BY <1>2, <1>4, <1>5

\* What is kept is a clear or goes to another topic, and so is what is sent again.
LEMMA KeptClearsKept ==
    ASSUME SInv, [Next]_vars
    PROVE  KeptClears'
  <1>1. BrokerInv /\ TopicInv /\ RunInv /\ ClearsInOrder /\ Len(kept) \in Nat
    BY Parts DEF SInv, BrokerInv
  <1>2. ASSUME Remembered, Len(kept') = Len(kept) PROVE KeptClears'
    BY <1>1, <1>2 DEF Remembered, SInv, KeptClears
  <1>3. ASSUME NEW topic \in Topics, NEW value \in Values, Publish1(topic, value),
               topic = "state" => value = None
        PROVE  KeptClears'
    <2>1. /\ Len(kept') = Len(kept) + 1
          /\ \A mid \in 1 .. Len(kept) : kept'[mid] = kept[mid]
          /\ kept'[Len(kept')].topic = topic /\ kept'[Len(kept')].value = value
      BY <1>1, <1>3, Publish1Keeps
    <2> QED BY <1>1, <1>3, <2>1 DEF SInv, KeptClears
  <1>4. CASE UNCHANGED kept
    BY <1>1, <1>4 DEF SInv, KeptClears
  <1>5. CASE OnConnectReturns \/ LinkBreaks \/ Confirm
    <2>1. Remembered /\ Len(kept') = Len(kept)
      <3>1. CASE OnConnectReturns
        BY <1>1, <3>1, ResendKeeps, SameLength DEF OnConnectReturns
      <3>2. CASE LinkBreaks
        BY <1>1, <3>2, BreakKeeps, SameLength DEF LinkBreaks
      <3>3. CASE Confirm
        BY <1>1, <3>3, ConfirmKeeps, SameLength
      <3> QED BY <1>5, <3>1, <3>2, <3>3
    <2> QED BY <1>2, <2>1
  <1>6. CASE Subscribe
    BY <1>3, <1>6, ClearedTopics DEF Subscribe, Values
  <1>7. CASE Clear
    <2>1. Len(clears) \in Nat /\ Len(clears) < 3
      BY <1>1, <1>7, ClearedTopics DEF Clear, ClearsInOrder, RunInv
    <2>2. Cleared[Len(clears) + 1] \in Topics /\ None \in Values
      BY <2>1, ClearedTopics DEF Values
    <2>3. Publish1(Cleared[Len(clears) + 1], None)
      BY <1>7 DEF Clear
    <2> QED BY <1>3, <2>2, <2>3
  <1> QED
    BY <1>4, <1>5, <1>6, <1>7
       DEF Next, vars, brokerVars, ConsumerStep, ConsumerStarts, SetProgress, SetRest,
           PublishState, Publish0, OnConnect, Connect, CallbackStep, ReadProgress, ReadRest,
           PublishSeen, NetworkStep, Deliver, Signal, LoginRejected, MainStep, LoopStops,
           TasksEnd, Crash, CheckConnected, WaitReturns, WaitRaises, WaitTimesOut, Quits,
           ClientStops, StopClient

\* Whoever changes the state or the topic keeps the last word.
LEMMA LastWordKept ==
    ASSUME SInv, [Next]_vars, Speaking'
    PROVE  LastWord'
  <1>1. BrokerInv /\ TopicInv
    BY Parts DEF SInv
  <1>2. phase = "serving"
    BY DEF Next, vars, runVars, Speaking, Signal, LoginRejected, MainStep, LoopStops, TasksEnd,
           Crash, CheckConnected, Clear, WaitReturns, WaitRaises, WaitTimesOut, Quits,
           ClientStops
  <1>3. CASE ConsumerStep
    <2>1. ConsumerStarts \/ PublishState
      BY <1>3 DEF ConsumerStep, SetProgress, SetRest, Speaking
    <2>2. Publish0("state", Json(state, "consumer")) /\ UNCHANGED <<state, link>>
      BY <2>1 DEF ConsumerStarts, PublishState, Publish0
    <2> QED BY <1>1, <2>2, ConsumerSpeaks DEF Speaking
  <1>4. CASE PublishSeen
    BY <1>1, <1>4, CallbackSpeaks DEF Speaking, PublishSeen, Publish0
  <1>5. ASSUME UNCHANGED <<link, state, consumer>>,
               callback \in {"none", "published", "subscribed"}
        PROVE  LastWord
    BY <1>5, <1>2 DEF SInv, Speaking
  <1>6. CASE Subscribe
    <2> DEFINE m == Message("rpc", Available, Len(kept'))
    <2>1. "rpc" \in Topics /\ Available \in Values
      BY ClearedTopics DEF Values
    <2>2. /\ UNCHANGED <<retained, link, state, consumer>> /\ Len(kept') \in Nat
          /\ link = "up" => wire' = Append(wire, m)
      BY <1>1, <1>6, <2>1, Publish1Keeps DEF Subscribe
    <2>3. m \in Sent /\ m.topic # "state"
      BY <2>1, <2>2 DEF Message, Sent
    <2>4. LastWord /\ link = "up"
      BY <1>5, <1>6, <2>2 DEF Subscribe, Speaking
    <2> HIDE DEF m
    <2> QED BY <1>1, <2>2, <2>3, <2>4, LastWordAppended
  <1>7. CASE OnConnectReturns
    <2>1. Resend /\ UNCHANGED <<state, consumer, link, retained>> /\ callback = "subscribed"
      BY <1>7 DEF OnConnectReturns, Resend
    <2>2. LastWord /\ link = "up"
      BY <1>5, <2>1 DEF Speaking
    <2>3. PICK s \in Seq(Sent) : /\ wire' = wire \o s
                                 /\ \A i \in 1 .. Len(s) : s[i].topic = "state" => s[i].value = None
      BY <1>1, <2>1, <2>2, ResentClears DEF SInv
    <2> QED BY <1>1, <2>1, <2>2, <2>3, LastWordExtended
  <1>8. CASE Deliver /\ UNCHANGED topicVars
    <2>1. LastWord
      BY <1>5, <1>8 DEF topicVars, Deliver, Speaking
    <2> QED BY <1>1, <1>8, <2>1, LastWordDelivered DEF topicVars
  <1>9. CASE UNCHANGED <<link, wire, retained, state, consumer, callback>>
    <2>1. LastWord
      BY <1>5, <1>9 DEF Speaking
    <2> QED BY <1>9, <2>1 DEF LastWord, LastOnWire, Agrees
  <1> QED
    BY <1>3, <1>4, <1>6, <1>7, <1>8, <1>9
       DEF Next, vars, brokerVars, topicVars, OnConnect, CallbackStep, ReadProgress, ReadRest,
           LinkBreaks, Break, NetworkStep, Confirm, Signal, LoginRejected, MainStep, LoopStops,
           TasksEnd, Crash, CheckConnected, Clear, WaitReturns, WaitRaises, WaitTimesOut, Quits,
           ClientStops, StopClient, Speaking

\* Every reachable state of a connected service has the last word right.
THEOREM LastWordInvariance == Spec => []SInv
  <1>1. Init => SInv
    BY InitHolds DEF SInv, Init, BrokerInit, TopicInit, KeptClears, Speaking
  <1>2. SInv /\ [Next]_vars => SInv'
    BY NextKeeps, KeptClearsKept, LastWordKept DEF SInv
  <1> QED BY <1>1, <1>2, PTL DEF Spec

\* Once everything sent has arrived, the state topic of a connected service shows the
\* state as the last event left it, unless on_connect published after the consumer: for
\* any number of events and of connections, and wherever between the two halves of a
\* change and of a reading the threads are.
THEOREM TopicAgrees == Spec => []ConsumerHasLastWord
  <1>1. SInv => ConsumerHasLastWord
    <2> SUFFICES ASSUME SInv, Speaking, wire = <<>> PROVE Agrees(retained["state"])
      BY DEF ConsumerHasLastWord, Speaking, Agrees
    <2> QED BY DEF SInv, LastWord, LastOnWire
  <1> QED BY <1>1, LastWordInvariance, PTL
=============================================================================
