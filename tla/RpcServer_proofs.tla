--------------------------- MODULE RpcServer_proofs ---------------------------
(***************************************************************************)
(* The inductive invariant of RpcServer holds for any sets of methods and  *)
(* requests and any bounds.  It falls apart into what concerns the client  *)
(* (ClientInv), the server (ServerInv) and the answers (AnswersInv).       *)
(***************************************************************************)
EXTENDS RpcServer, FiniteSetTheorems, SequenceTheorems, TLAPS

ClientInv ==
    /\ ClientTypeOK
    /\ DeafOnlyIfCalledOffline
    /\ link = "down" => \A m \in subscribes : CalledOffline(m)

Distinct(list) == \A i, k \in 1 .. Len(list) : list[i] = list[k] => i = k

\* The tasks that owe a reply
Owing == {n \in Unfinished : tasks[n].pc # "replied"}

ServerInv ==
    /\ received \in Nat /\ processing \in Seq(Requests) /\ tasks \in Seq(Tasks)
    /\ NeverTwice
    /\ ProcessingMatches
    /\ Distinct(processing)

AnswersInv ==
    /\ answers \in Seq(Answers)
    /\ AnsweredOnce
    /\ CallsMade

\* The invariant is the conjunction of the three parts, before a step and after.
LEMMA Parts == /\ IInv <=> ClientInv /\ ServerInv /\ AnswersInv
               /\ IInv' <=> ClientInv' /\ ServerInv' /\ AnswersInv'
  BY DEF IInv, TypeOK, ClientInv, ServerInv, AnswersInv, Distinct
-----------------------------------------------------------------------------
(* The client                                                              *)

\* A step that changes nothing of the client keeps its part.
LEMMA ClientUnchanged ==
    ASSUME ClientInv, UNCHANGED clientVars
    PROVE  ClientInv'
  BY DEF ClientInv, ClientTypeOK, clientVars, DeafOnlyIfCalledOffline, CalledOffline

Posted(n) == [id : 1 .. n, outcome : {"result", "error"}]

\* A call keeps the client's part, whatever the link does.
LEMMA CallKeeps ==
    ASSUME ClientInv, NEW method \in Methods, Call(method)
    PROVE  ClientInv' /\ Len(calls') = Len(calls) + 1
  <1> DEFINE c == [method |-> method, made |-> link, future |-> "pending",
                   end |-> "none"]
  <1>0. c \in Calls /\ calls \in Seq(Calls)
    BY DEF ClientInv, ClientTypeOK, Calls
  <1>2. /\ calls' \in Seq(Calls)
        /\ Len(calls') = Len(calls) + 1
        /\ \A id \in 1 .. Len(calls) : calls'[id] = calls[id]
        /\ calls'[Len(calls) + 1] = c
    <2> HIDE DEF c
    <2>1. calls' = Append(calls, c)
      BY DEF Call, c
    <2> QED BY <1>0, <2>1, AppendProperties
  <1>1. ClientTypeOK'
    <2>0. Len(calls) \in Nat
      BY <1>0
    <2>1. posted' \in Seq(Posted(Len(calls')))
      <3>1. Posted(Len(calls)) \subseteq Posted(Len(calls'))
        BY <1>2, <2>0 DEF Posted
      <3>2. posted' \in Seq(Posted(Len(calls)))
        BY DEF ClientInv, ClientTypeOK, Call, Posted
      <3> QED BY <3>1, <3>2, SeqMonotonic
    <2>2. replies' \subseteq [id : 1 .. Len(calls'), outcome : Outcomes]
      BY <1>2 DEF ClientInv, ClientTypeOK, Call
    <2>3. requests' \subseteq 1 .. Len(calls')
      <3>1. requests \subseteq 1 .. Len(calls)
        BY DEF ClientInv, ClientTypeOK
      <3>2. requests' \subseteq requests \cup {Len(calls) + 1}
        BY DEF Call
      <3>3. Len(calls') = Len(calls) + 1
        BY <1>2
      <3> QED BY <2>0, <3>1, <3>2, <3>3
    <2>4. link' \in {"up", "closed", "down"} /\ session' \in Nat
      BY DEF ClientInv, ClientTypeOK, Call
    <2>5. subscribes' \subseteq Methods /\ subscribed' \subseteq Methods
      BY DEF ClientInv, ClientTypeOK, Call
    <2> HIDE DEF c
    <2> QED BY <1>2, <2>1, <2>2, <2>3, <2>4, <2>5 DEF ClientTypeOK, Posted
  <1>3. \A m : CalledOffline(m) => CalledOffline(m)'
    BY <1>2 DEF CalledOffline, ClientInv, ClientTypeOK
  <1>4. link = "down" => CalledOffline(method)'
    <2>1. Len(calls) + 1 \in 1 .. Len(calls')
      BY <1>0, <1>2
    <2> QED BY <1>2, <2>1 DEF CalledOffline
  <1>5. DeafOnlyIfCalledOffline'
    <2> SUFFICES ASSUME link = "up", NEW m \in subscribes' \ subscribed'
                 PROVE CalledOffline(m)'
      BY DEF DeafOnlyIfCalledOffline, Call
    <2>1. m \in subscribes \ subscribed
      BY DEF Call
    <2> QED BY <1>3, <2>1 DEF ClientInv, DeafOnlyIfCalledOffline
  <1>6. (link = "down" => \A m \in subscribes : CalledOffline(m))'
    <2> SUFFICES ASSUME link = "down", NEW m \in subscribes' PROVE CalledOffline(m)'
      BY DEF Call
    <2>1. m = method \/ m \in subscribes
      BY DEF Call
    <2> QED BY <1>3, <1>4, <2>1 DEF ClientInv
  <1> QED BY <1>1, <1>2, <1>5, <1>6 DEF ClientInv

\* The end of an await: the call keeps what the future has, or has timed out.
LEMMA CallEndKeeps ==
    ASSUME ClientInv, NEW id \in 1 .. Len(calls), CallReturns(id) \/ CallTimesOut(id),
           UNCHANGED <<link, session, subscribes, subscribed, requests, replies, posted>>
    PROVE  /\ ClientInv'
           /\ Len(calls') = Len(calls)
           /\ calls'[id].end \in {"result", "error", "timeout"}
  <1>1. calls \in Seq(Calls) /\ calls[id] \in Calls
    BY DEF ClientInv, ClientTypeOK
  <1>2. PICK c \in Calls :
            /\ calls' = [calls EXCEPT ![id] = c]
            /\ c.method = calls[id].method /\ c.made = calls[id].made
            /\ c.end \in {"result", "error", "timeout"}
    <2>1. CASE CallReturns(id)
      <3> DEFINE c == [calls[id] EXCEPT !.end = calls[id].future]
      <3>1. c \in Calls /\ calls' = [calls EXCEPT ![id] = c]
        BY <1>1, <2>1 DEF CallReturns, Calls
      <3> QED BY <1>1, <2>1, <3>1 DEF CallReturns, Calls
    <2>2. CASE CallTimesOut(id)
      <3> DEFINE c == [calls[id] EXCEPT !.end = "timeout",
                                        !.future = IF @ = "pending" THEN "cancelled" ELSE @]
      <3>1. c \in Calls /\ calls' = [calls EXCEPT ![id] = c]
        BY <1>1, <2>2 DEF CallTimesOut, Calls
      <3> QED BY <1>1, <2>2, <3>1 DEF CallTimesOut, Calls
    <2> QED BY <2>1, <2>2
  <1>3. /\ calls' \in Seq(Calls) /\ Len(calls') = Len(calls)
        /\ calls'[id] = c
        /\ \A k \in 1 .. Len(calls) : k # id => calls'[k] = calls[k]
    BY <1>1, <1>2
  <1>4. \A m : CalledOffline(m) => CalledOffline(m)'
    BY <1>2, <1>3 DEF CalledOffline
  <1>5. ClientTypeOK'
    BY <1>3 DEF ClientInv, ClientTypeOK
  <1>6. DeafOnlyIfCalledOffline' /\ (link = "down" => \A m \in subscribes : CalledOffline(m))'
    BY <1>4 DEF ClientInv, DeafOnlyIfCalledOffline
  <1> QED BY <1>2, <1>3, <1>5, <1>6 DEF ClientInv

\* A result that arrives in the loop goes to a future that still waits, or nowhere.
LEMMA RunPostedKeeps ==
    ASSUME ClientInv, RunPosted
    PROVE  ClientInv' /\ Len(calls') = Len(calls)
  <1> DEFINE p == Head(posted)
  <1>0. posted # <<>> /\ posted' = Tail(posted) /\ posted \in Seq(Posted(Len(calls)))
    BY DEF ClientInv, ClientTypeOK, RunPosted, Posted
  <1>1. p \in Posted(Len(calls)) /\ posted' \in Seq(Posted(Len(calls)))
    BY <1>0, HeadTailProperties
  <1>2. /\ calls' \in Seq(Calls) /\ Len(calls') = Len(calls)
        /\ \A k \in 1 .. Len(calls) :
              /\ calls'[k].method = calls[k].method /\ calls'[k].made = calls[k].made
    <2>0. p.id \in 1 .. Len(calls)
      <3> HIDE DEF p
      <3> QED BY <1>1 DEF Posted
    <2>1. calls \in Seq(Calls) /\ calls[p.id] \in Calls
      BY <2>0 DEF ClientInv, ClientTypeOK
    <2>2. CASE calls[p.id].future = "pending"
      <3> DEFINE c == [calls[p.id] EXCEPT !.future = p.outcome]
      <3>1. calls' = [calls EXCEPT ![p.id] = c]
        BY <2>1, <2>2 DEF RunPosted
      <3>2. c \in Calls /\ c.method = calls[p.id].method /\ c.made = calls[p.id].made
        <4> HIDE DEF p
        <4>1. p.id \in Nat /\ p.outcome \in {"result", "error"}
          BY <1>1 DEF Posted
        <4> QED BY <1>1, <2>1, <4>1 DEF Calls
      <3> HIDE DEF c, p
      <3> QED BY <2>0, <2>1, <3>1, <3>2, ExceptSeq DEF ClientInv
    <2>3. CASE calls[p.id].future # "pending"
      BY <2>1, <2>3 DEF RunPosted, ClientInv
    <2> QED BY <2>2, <2>3
  <1>3. \A m : CalledOffline(m) => CalledOffline(m)'
    BY <1>2 DEF CalledOffline
  <1>4. ClientTypeOK'
    BY <1>1, <1>2 DEF ClientInv, ClientTypeOK, RunPosted, Posted
  <1>6. DeafOnlyIfCalledOffline' /\ (link = "down" => \A m \in subscribes : CalledOffline(m))'
    BY <1>3 DEF ClientInv, DeafOnlyIfCalledOffline, RunPosted
  <1> QED BY <1>1, <1>2, <1>4, <1>6 DEF ClientInv

\* wb-mqtt-serial and the network thread do not touch the calls.
LEMMA NetworkKeeps ==
    ASSUME ClientInv,
           \/ \E id \in requests : Serve(id)
           \/ \E reply \in replies : OnReply(reply)
           \/ LinkBreaks \/ OnDisconnect \/ OnConnect
    PROVE  ClientInv' /\ Len(calls') = Len(calls)
  <1>1. UNCHANGED calls
    BY DEF Serve, OnReply, LinkBreaks, OnDisconnect, OnConnect
  <1>2. \A m : CalledOffline(m)' <=> CalledOffline(m)
    BY <1>1 DEF CalledOffline
  <1>3. CASE \E id \in requests : Serve(id)
    <2>1. PICK id \in requests : Serve(id)
      BY <1>3
    <2> QED BY <1>1, <1>2, <2>1 DEF ClientInv, ClientTypeOK, DeafOnlyIfCalledOffline, Serve
  <1>4. CASE \E reply \in replies : OnReply(reply)
    <2>1. PICK reply \in replies : OnReply(reply)
      BY <1>4
    <2>2. reply \in [id : 1 .. Len(calls), outcome : Outcomes]
      BY DEF ClientInv, ClientTypeOK
    <2> DEFINE p == [id |-> reply.id, outcome |-> reply.outcome]
    <2>3. /\ posted' = posted \/ posted' = Append(posted, p)
          /\ posted' # posted => p \in Posted(Len(calls))
      BY <2>1, <2>2 DEF OnReply, Outcomes, Posted
    <2>4. posted \in Seq(Posted(Len(calls)))
      BY DEF ClientInv, ClientTypeOK, Posted
    <2>5. posted' \in Seq(Posted(Len(calls)))
      <3> HIDE DEF p
      <3> QED BY <2>3, <2>4, AppendProperties
    <2> QED BY <1>1, <1>2, <2>1, <2>5
            DEF Posted, ClientInv, ClientTypeOK, DeafOnlyIfCalledOffline, OnReply
  <1>5. CASE LinkBreaks
    BY <1>1, <1>2, <1>5 DEF ClientInv, ClientTypeOK, DeafOnlyIfCalledOffline, LinkBreaks
  <1>6. CASE OnDisconnect
    BY <1>1, <1>2, <1>6 DEF ClientInv, ClientTypeOK, DeafOnlyIfCalledOffline, OnDisconnect
  <1>7. CASE OnConnect
    BY <1>1, <1>2, <1>7 DEF ClientInv, ClientTypeOK, DeafOnlyIfCalledOffline, OnConnect
  <1> QED BY <1>3, <1>4, <1>5, <1>6, <1>7
-----------------------------------------------------------------------------
(* The list of requests in processing and the tasks                        *)

Held(list, r) == \E i \in 1 .. Len(list) : list[i] = r

\* remove() leaves a list without duplicates as it was, but for the one request.
LEMMA WithoutRemoves ==
    ASSUME NEW S, NEW list \in Seq(S), NEW r, Distinct(list), Held(list, r)
    PROVE  /\ Without(list, r) \in Seq(S)
           /\ Distinct(Without(list, r))
           /\ \A x : Held(Without(list, r), x) <=> Held(list, x) /\ x # r
  <1> DEFINE first == CHOOSE i \in 1 .. Len(list) :
                          list[i] = r /\ \A k \in 1 .. i - 1 : list[k] # r
             short == [i \in 1 .. Len(list) - 1 |->
                          IF i < first THEN list[i] ELSE list[i + 1]]
  <1>1. Len(list) \in Nat /\ \A i \in 1 .. Len(list) : list[i] \in S
    OBVIOUS
  <1>2. first \in 1 .. Len(list) /\ list[first] = r
    <2>1. PICK i \in 1 .. Len(list) : list[i] = r
      BY DEF Held
    <2>2. \A k \in 1 .. i - 1 : list[k] # r
      BY <1>1, <2>1 DEF Distinct
    <2> QED BY <2>1, <2>2
  <1> HIDE DEF first
  <1>3. short \in Seq(S) /\ Len(short) = Len(list) - 1
        /\ \A i \in 1 .. Len(list) - 1 : short[i] = IF i < first THEN list[i] ELSE list[i + 1]
    BY <1>1, <1>2
  <1>4. Without(list, r) = short
    BY DEF Without, first
  <1> HIDE DEF short
  <1>5. Distinct(short)
    BY <1>1, <1>2, <1>3 DEF Distinct
  <1>6. \A x : Held(short, x) => Held(list, x) /\ x # r
    <2> SUFFICES ASSUME NEW x, Held(short, x) PROVE Held(list, x) /\ x # r
      OBVIOUS
    <2>1. PICK i \in 1 .. Len(list) - 1 : short[i] = x
      BY <1>3 DEF Held
    <2>2. PICK k \in 1 .. Len(list) : k # first /\ list[k] = x
      BY <1>1, <1>2, <1>3, <2>1
    <2> QED BY <1>2, <2>2 DEF Held, Distinct
  <1>7. \A x : Held(list, x) /\ x # r => Held(short, x)
    <2> SUFFICES ASSUME NEW x, Held(list, x), x # r PROVE Held(short, x)
      OBVIOUS
    <2>1. PICK k \in 1 .. Len(list) : list[k] = x
      BY DEF Held
    <2>2. CASE k < first
      <3>1. k \in 1 .. Len(short) /\ short[k] = x
        BY <1>1, <1>2, <1>3, <2>1, <2>2
      <3> QED BY <3>1 DEF Held
    <2>3. CASE k > first
      <3>1. k - 1 \in 1 .. Len(short) /\ short[k - 1] = x
        BY <1>1, <1>2, <1>3, <2>1, <2>3
      <3> QED BY <3>1 DEF Held
    <2> QED BY <1>1, <1>2, <2>1, <2>2, <2>3
  <1> QED BY <1>3, <1>4, <1>5, <1>6, <1>7

\* Steps that leave the requests of the tasks, and which of them are done, alone.
LEMMA TasksRelabelled ==
    ASSUME ServerInv, UNCHANGED processing, received' \in Nat, tasks' \in Seq(Tasks),
           Len(tasks') = Len(tasks),
           \A n \in 1 .. Len(tasks) : /\ tasks'[n].request = tasks[n].request
                                      /\ tasks'[n].pc = "done" <=> tasks[n].pc = "done"
    PROVE  ServerInv'
  <1>1. Unfinished' = Unfinished
    BY DEF Unfinished
  <1>2. Unfinished \subseteq 1 .. Len(tasks)
    BY DEF Unfinished
  <1>3. NeverTwice'
    BY <1>1, <1>2 DEF ServerInv, NeverTwice
  <1>4. ProcessingMatches'
    BY <1>1, <1>2 DEF ServerInv, ProcessingMatches, IsProcessing
  <1> QED BY <1>3, <1>4 DEF ServerInv, Distinct

\* A task that replies keeps its request.
LEMMA RepliedKeepsServer ==
    ASSUME ServerInv, NEW n \in 1 .. Len(tasks), tasks[n].pc # "done",
           tasks' = [tasks EXCEPT ![n].pc = "replied"], UNCHANGED <<received, processing>>
    PROVE  ServerInv'
  <1> DEFINE t == [tasks[n] EXCEPT !.pc = "replied"]
  <1>1. tasks \in Seq(Tasks) /\ tasks[n] \in Tasks /\ received \in Nat
    BY DEF ServerInv
  <1>2. /\ t \in Tasks /\ t.request = tasks[n].request /\ t.pc = "replied"
        /\ tasks' = [tasks EXCEPT ![n] = t]
    BY <1>1 DEF Tasks
  <1> HIDE DEF t
  <1>3. /\ tasks' \in Seq(Tasks) /\ Len(tasks') = Len(tasks) /\ tasks'[n] = t
        /\ \A k \in 1 .. Len(tasks) : k # n => tasks'[k] = tasks[k]
    BY <1>1, <1>2, ExceptSeq
  <1> QED BY <1>1, <1>2, <1>3, TasksRelabelled

\* A request is accepted at the end of the list only if it is not there.
LEMMA AcceptKeepsServer ==
    ASSUME ServerInv, NEW r \in Requests, Accept(r)
    PROVE  ServerInv'
  <1> DEFINE t == [request |-> r, pc |-> "posted", call |-> 0]
  <1>1. /\ processing \in Seq(Requests) /\ tasks \in Seq(Tasks) /\ t \in Tasks
        /\ Len(processing) \in Nat /\ Len(tasks) \in Nat
        /\ processing' = Append(processing, r) /\ tasks' = Append(tasks, t)
    BY DEF ServerInv, Accept, Tasks
  <1> HIDE DEF t
  <1>2. /\ processing' \in Seq(Requests) /\ Len(processing') = Len(processing) + 1
        /\ \A i \in 1 .. Len(processing) : processing'[i] = processing[i]
        /\ processing'[Len(processing) + 1] = r
    BY <1>1, AppendProperties
  <1>3. /\ tasks' \in Seq(Tasks) /\ Len(tasks') = Len(tasks) + 1
        /\ \A n \in 1 .. Len(tasks) : tasks'[n] = tasks[n]
        /\ tasks'[Len(tasks) + 1] = t
    BY <1>1, AppendProperties
  <1>4. t.request = r /\ t.pc = "posted"
    BY DEF t
  <1>5. Unfinished' = Unfinished \cup {Len(tasks) + 1}
    BY <1>1, <1>3, <1>4 DEF Unfinished
  <1>6. \A n \in Unfinished : n \in 1 .. Len(tasks) /\ tasks[n].request # r
    BY DEF Unfinished, ServerInv, ProcessingMatches, Accept
  <1>7. NeverTwice'
    <2> SUFFICES ASSUME NEW n \in Unfinished', NEW k \in Unfinished',
                        tasks'[n].request = tasks'[k].request
                 PROVE n = k
      BY DEF NeverTwice
    <2> QED BY <1>3, <1>4, <1>5, <1>6 DEF ServerInv, NeverTwice
  <1>8. ProcessingMatches'
    <2> SUFFICES ASSUME NEW q \in Requests
                 PROVE IsProcessing(q)' <=> \E n \in Unfinished' : tasks'[n].request = q
      BY DEF ProcessingMatches
    <2>1. IsProcessing(q)' <=> IsProcessing(q) \/ q = r
      BY <1>1, <1>2 DEF IsProcessing
    <2>2. (\E n \in Unfinished' : tasks'[n].request = q)
              <=> (\E n \in Unfinished : tasks[n].request = q) \/ q = r
      BY <1>3, <1>4, <1>5, <1>6
    <2> QED BY <2>1, <2>2 DEF ServerInv, ProcessingMatches
  <1>9. Distinct(processing)'
    BY <1>1, <1>2 DEF ServerInv, Distinct, Accept, IsProcessing
  <1>10. received' \in Nat
    BY DEF ServerInv, Accept, Receives
  <1> QED BY <1>2, <1>3, <1>7, <1>8, <1>9, <1>10 DEF ServerInv

\* A task that ends takes its own request off the list, and no other.
LEMMA RemoveKeepsServer ==
    ASSUME ServerInv, NEW n \in 1 .. Len(tasks), Remove(n)
    PROVE  ServerInv'
  <1> DEFINE r == tasks[n].request
             t == [tasks[n] EXCEPT !.pc = "done"]
  <1>0. tasks \in Seq(Tasks) /\ tasks[n] \in Tasks /\ tasks[n].pc = "replied"
    BY DEF ServerInv, Remove
  <1>1. r \in Requests /\ t \in Tasks /\ t.request = r /\ t.pc = "done"
    BY <1>0 DEF Tasks
  <1>2. tasks' = [tasks EXCEPT ![n] = t]
    BY <1>0 DEF Remove
  <1> HIDE DEF t
  <1>3. /\ tasks' \in Seq(Tasks) /\ Len(tasks') = Len(tasks) /\ tasks'[n] = t
        /\ \A k \in 1 .. Len(tasks) : k # n => tasks'[k] = tasks[k]
    BY <1>0, <1>1, <1>2, ExceptSeq
  <1>4. Unfinished' = Unfinished \ {n} /\ n \in Unfinished
    BY <1>0, <1>1, <1>3 DEF Unfinished
  <1>5. Unfinished \subseteq 1 .. Len(tasks)
    BY DEF Unfinished
  <1>6. \A q : Held(processing, q) <=> IsProcessing(q)
    BY DEF Held, IsProcessing
  <1>7. Held(processing, r)
    BY <1>1, <1>4, <1>6 DEF ServerInv, ProcessingMatches
  <1>8. /\ processing' \in Seq(Requests) /\ Distinct(processing')
        /\ \A q : Held(processing', q) <=> Held(processing, q) /\ q # r
    <2>1. processing' = Without(processing, r) /\ processing \in Seq(Requests)
          /\ Distinct(processing)
      BY DEF Remove, ServerInv
    <2> HIDE DEF r
    <2> QED BY <1>7, <2>1, WithoutRemoves
  <1>9. NeverTwice'
    BY <1>3, <1>4, <1>5 DEF ServerInv, NeverTwice
  <1>10. ProcessingMatches'
    <2> SUFFICES ASSUME NEW q \in Requests
                 PROVE IsProcessing(q)' <=> \E k \in Unfinished' : tasks'[k].request = q
      BY DEF ProcessingMatches
    <2>1. IsProcessing(q)' <=> IsProcessing(q) /\ q # r
      BY <1>6, <1>8 DEF Held, IsProcessing
    <2>2. (\E k \in Unfinished' : tasks'[k].request = q)
              <=> (\E k \in Unfinished : tasks[k].request = q) /\ q # r
      BY <1>1, <1>3, <1>4, <1>5 DEF ServerInv, NeverTwice
    <2> QED BY <2>1, <2>2 DEF ServerInv, ProcessingMatches
  <1> QED BY <1>3, <1>8, <1>9, <1>10 DEF ServerInv, Remove, Distinct
-----------------------------------------------------------------------------
(* The answers                                                             *)

\* There are finitely many tasks.
LEMMA OwingFinite ==
    ASSUME tasks \in Seq(Tasks)
    PROVE  IsFiniteSet(Owing) /\ Cardinality(Owing) \in Nat
  <1>1. Len(tasks) \in Nat
    OBVIOUS
  <1>2. IsFiniteSet(1 .. Len(tasks))
    BY <1>1, FS_Interval
  <1>3. Owing \subseteq 1 .. Len(tasks)
    BY DEF Owing, Unfinished
  <1> QED BY <1>2, <1>3, FS_Subset, FS_CardinalityType

\* What is received is replied to or owed a reply.
LEMMA OnceByOwing == /\ AnsweredOnce <=> received = Len(answers) + Cardinality(Owing)
                     /\ AnsweredOnce' <=> received' = Len(answers') + Cardinality(Owing')
  BY DEF AnsweredOnce, Owing

\* A change of one task that is not done, and what it means for the replies owed.
LEMMA OneTaskChanges ==
    ASSUME tasks \in Seq(Tasks), NEW n \in 1 .. Len(tasks), NEW t \in Tasks,
           tasks[n].pc # "done", tasks' = [tasks EXCEPT ![n] = t]
    PROVE  /\ tasks' \in Seq(Tasks) /\ Len(tasks') = Len(tasks) /\ tasks'[n] = t
           /\ \A k \in 1 .. Len(tasks) : k # n => tasks'[k] = tasks[k]
           /\ t.pc \in {"replied", "done"} => Owing' = Owing \ {n}
           /\ t.pc \notin {"replied", "done"} => Owing' = Owing \cup {n}
           /\ n \in Owing <=> tasks[n].pc # "replied"
  <1>1. /\ tasks' \in Seq(Tasks) /\ Len(tasks') = Len(tasks) /\ tasks'[n] = t
        /\ \A k \in 1 .. Len(tasks) : k # n => tasks'[k] = tasks[k]
    BY ExceptSeq
  <1>2. t.pc \in {"replied", "done"} => Owing' = Owing \ {n}
    BY <1>1 DEF Owing, Unfinished
  <1>3. t.pc \notin {"replied", "done"} => Owing' = Owing \cup {n}
    BY <1>1 DEF Owing, Unfinished
  <1>4. n \in Owing <=> tasks[n].pc # "replied"
    BY DEF Owing, Unfinished
  <1> QED BY <1>1, <1>2, <1>3, <1>4

\* One more reply.
LEMMA OneMoreReply ==
    ASSUME AnswersInv, NEW request \in Requests,
           NEW kind \in {"result", "error", "timeout", "busy"}, Reply(request, kind)
    PROVE  /\ answers' \in Seq(Answers) /\ Len(answers') = Len(answers) + 1
           /\ Len(answers) \in Nat
  <1> DEFINE a == [request |-> request, kind |-> kind]
  <1>1. a \in Answers /\ answers \in Seq(Answers)
    BY DEF Answers, AnswersInv
  <1>2. answers' = Append(answers, a)
    BY DEF Reply
  <1> HIDE DEF a
  <1> QED BY <1>1, <1>2, AppendProperties

\* A request accepted owes one reply more.
LEMMA AcceptKeepsAnswers ==
    ASSUME ServerInv, AnswersInv, NEW r \in Requests, Accept(r)
    PROVE  AnswersInv'
  <1> DEFINE t == [request |-> r, pc |-> "posted", call |-> 0]
  <1>1. /\ tasks \in Seq(Tasks) /\ t \in Tasks /\ Len(tasks) \in Nat
        /\ tasks' = Append(tasks, t) /\ t.pc = "posted"
    BY DEF ServerInv, Accept, Tasks
  <1> HIDE DEF t
  <1>2. /\ tasks' \in Seq(Tasks) /\ Len(tasks') = Len(tasks) + 1
        /\ \A n \in 1 .. Len(tasks) : tasks'[n] = tasks[n]
        /\ tasks'[Len(tasks) + 1] = t
    BY <1>1, AppendProperties
  <1>3. Owing' = Owing \cup {Len(tasks) + 1} /\ Len(tasks) + 1 \notin Owing
    BY <1>1, <1>2 DEF Owing, Unfinished
  <1>4. Cardinality(Owing') = Cardinality(Owing) + 1 /\ Cardinality(Owing) \in Nat
    BY <1>1, <1>3, OwingFinite, FS_AddElement
  <1>5. received' = received + 1 /\ received \in Nat /\ UNCHANGED <<answers, calls>>
    BY DEF ServerInv, Accept, Receives, clientVars
  <1>6. Len(answers) \in Nat
    BY DEF AnswersInv
  <1>7. AnsweredOnce'
    BY <1>4, <1>5, <1>6 DEF AnswersInv, AnsweredOnce, Owing
  <1>8. CallsMade'
    BY <1>1, <1>2, <1>5 DEF AnswersInv, CallsMade
  <1> QED BY <1>5, <1>7, <1>8 DEF AnswersInv

\* A repeated request is answered at once.
LEMMA RefuseKeepsAnswers ==
    ASSUME ServerInv, AnswersInv, NEW r \in Requests, Refuse(r)
    PROVE  AnswersInv'
  <1>1. Reply(r, "busy") /\ received' = received + 1 /\ received \in Nat
        /\ UNCHANGED <<tasks, calls>>
    BY DEF Refuse, Receives, ServerInv, clientVars
  <1>2. /\ answers' \in Seq(Answers) /\ Len(answers') = Len(answers) + 1
        /\ Len(answers) \in Nat
    BY <1>1, OneMoreReply
  <1>3. Owing' = Owing /\ Cardinality(Owing) \in Nat
    BY <1>1, OwingFinite DEF Owing, Unfinished, ServerInv
  <1>4. AnsweredOnce'
    BY <1>1, <1>2, <1>3, OnceByOwing DEF AnswersInv
  <1> QED BY <1>1, <1>2, <1>4 DEF AnswersInv, CallsMade

\* A task that replies owes one reply less.
LEMMA ReplyKeepsAnswers ==
    ASSUME ServerInv, AnswersInv, NEW n \in 1 .. Len(tasks),
           tasks[n].pc \in {"posted", "calling"},
           tasks' = [tasks EXCEPT ![n].pc = "replied"],
           NEW kind \in {"result", "error", "timeout", "busy"},
           Reply(tasks[n].request, kind),
           UNCHANGED received, Len(calls') = Len(calls)
    PROVE  AnswersInv'
  <1> DEFINE t == [tasks[n] EXCEPT !.pc = "replied"]
  <1>1. tasks \in Seq(Tasks) /\ tasks[n] \in Tasks
    BY DEF ServerInv
  <1>2. t \in Tasks /\ t.pc = "replied" /\ tasks[n].request \in Requests
        /\ tasks' = [tasks EXCEPT ![n] = t]
    BY <1>1 DEF Tasks
  <1> HIDE DEF t
  <1>3. /\ tasks' \in Seq(Tasks) /\ Len(tasks') = Len(tasks) /\ tasks'[n] = t
        /\ \A k \in 1 .. Len(tasks) : k # n => tasks'[k] = tasks[k]
        /\ Owing' = Owing \ {n} /\ n \in Owing
    BY <1>1, <1>2, OneTaskChanges
  <1>4. Cardinality(Owing') = Cardinality(Owing) - 1 /\ Cardinality(Owing) \in Nat
    BY <1>1, <1>3, OwingFinite, FS_RemoveElement
  <1>5. /\ answers' \in Seq(Answers) /\ Len(answers') = Len(answers) + 1
        /\ Len(answers) \in Nat
    BY <1>2, OneMoreReply
  <1>6. AnsweredOnce'
    BY <1>4, <1>5 DEF AnswersInv, AnsweredOnce, Owing
  <1>7. CallsMade'
    BY <1>2, <1>3 DEF AnswersInv, CallsMade
  <1> QED BY <1>5, <1>6, <1>7 DEF AnswersInv

\* Steps that owe neither more nor less.
LEMMA NoReplyKeepsAnswers ==
    ASSUME AnswersInv, UNCHANGED <<received, answers>>, Owing' = Owing,
           \A n \in 1 .. Len(tasks') :
               tasks'[n].pc = "calling" => tasks'[n].call \in 1 .. Len(calls')
    PROVE  AnswersInv'
  BY DEF AnswersInv, AnsweredOnce, CallsMade, Owing
-----------------------------------------------------------------------------
(* The steps                                                               *)

\* Initially there is nothing.
LEMMA InitHolds ==
    Init => IInv
  <1> SUFFICES ASSUME Init PROVE ClientInv /\ ServerInv /\ AnswersInv
    BY Parts
  <1>1. ClientInv
    BY DEF Init, ClientInit, ClientInv, ClientTypeOK, DeafOnlyIfCalledOffline
  <1>2. ServerInv
    BY DEF Init, ServerInv, NeverTwice, ProcessingMatches, IsProcessing, Unfinished, Distinct
  <1>3. Owing = {} /\ Cardinality(Owing) = 0
    BY FS_EmptySet DEF Init, Owing, Unfinished
  <1>4. AnsweredOnce
    BY <1>3 DEF Init, AnsweredOnce, Owing
  <1>5. AnswersInv
    BY <1>4 DEF Init, AnswersInv, CallsMade
  <1> QED BY <1>1, <1>2, <1>5

\* A request that comes is accepted or refused.
LEMMA RequestKeeps ==
    ASSUME IInv, NEW r \in Requests, Accept(r) \/ Refuse(r)
    PROVE  IInv'
  <1>1. ClientInv /\ ServerInv /\ AnswersInv
    BY Parts
  <1>2. ClientInv'
    BY <1>1, ClientUnchanged DEF Accept, Refuse
  <1>3. CASE Accept(r)
    BY <1>1, <1>2, <1>3, AcceptKeepsServer, AcceptKeepsAnswers, Parts
  <1>4. CASE Refuse(r)
    <2>1. ServerInv'
      <3>1. UNCHANGED <<processing, tasks>> /\ received' \in Nat /\ tasks \in Seq(Tasks)
        BY <1>1, <1>4 DEF Refuse, Receives, ServerInv
      <3> QED BY <1>1, <3>1, TasksRelabelled
    <2> QED BY <1>1, <1>2, <1>4, <2>1, RefuseKeepsAnswers, Parts
  <1> QED BY <1>3, <1>4

\* A handler that does not wait replies in its first step.
LEMMA BeginLocalKeeps ==
    ASSUME IInv, NEW n \in 1 .. Len(tasks), BeginLocal(n)
    PROVE  IInv'
  <1>1. ClientInv /\ ServerInv /\ AnswersInv
    BY Parts
  <1>2. ClientInv' /\ UNCHANGED calls
    BY <1>1, ClientUnchanged DEF BeginLocal, clientVars
  <1>3. /\ tasks[n].pc = "posted" /\ tasks' = [tasks EXCEPT ![n].pc = "replied"]
        /\ Reply(tasks[n].request, "result") /\ UNCHANGED <<received, processing>>
    BY DEF BeginLocal, Begins
  <1>4. AnswersInv'
    BY <1>1, <1>2, <1>3, ReplyKeepsAnswers
  <1>5. ServerInv'
    BY <1>1, <1>3, RepliedKeepsServer
  <1> QED BY <1>2, <1>4, <1>5, Parts

\* A proxied request makes one call.
LEMMA BeginProxiedKeeps ==
    ASSUME IInv, NEW n \in 1 .. Len(tasks), BeginProxied(n)
    PROVE  IInv'
  <1> DEFINE t == [tasks[n] EXCEPT !.pc = "calling", !.call = Len(calls) + 1]
  <1>1. ClientInv /\ ServerInv /\ AnswersInv
    BY Parts
  <1>2. tasks \in Seq(Tasks) /\ tasks[n] \in Tasks /\ tasks[n].pc = "posted"
    BY <1>1 DEF ServerInv, BeginProxied, Begins
  <1>3. tasks[n].request.method \in Methods
    BY <1>2, ServerConstants DEF Tasks, BeginProxied
  <1>4. ClientInv' /\ Len(calls') = Len(calls) + 1 /\ Len(calls) \in Nat
    BY <1>1, <1>3, CallKeeps DEF BeginProxied, ClientInv, ClientTypeOK
  <1>5. /\ t \in Tasks /\ t.request = tasks[n].request /\ t.pc = "calling"
        /\ t.call = Len(calls) + 1 /\ tasks' = [tasks EXCEPT ![n] = t]
    <2>1. Len(calls) + 1 \in Nat
      BY <1>4
    <2>2. /\ t \in Tasks /\ t.request = tasks[n].request /\ t.pc = "calling"
          /\ t.call = Len(calls) + 1
      BY <1>2, <2>1 DEF Tasks
    <2>3. tasks' = [tasks EXCEPT ![n].pc = "calling", ![n].call = Len(calls) + 1]
      BY DEF BeginProxied
    <2>4. tasks' = [tasks EXCEPT ![n] = t]
      BY <1>2, <2>3 DEF Tasks
    <2> QED BY <2>2, <2>4
  <1> HIDE DEF t
  <1>6. /\ tasks' \in Seq(Tasks) /\ Len(tasks') = Len(tasks) /\ tasks'[n] = t
        /\ \A k \in 1 .. Len(tasks) : k # n => tasks'[k] = tasks[k]
        /\ Owing' = Owing
    <2>1. n \in Owing /\ Owing' = Owing \cup {n}
      BY <1>2, <1>5, OneTaskChanges
    <2>2. Owing' = Owing
      BY <2>1
    <2> QED BY <1>2, <1>5, <2>2, OneTaskChanges
  <1>7. AnswersInv'
    <2>1. \A k \in 1 .. Len(tasks') :
              tasks'[k].pc = "calling" => tasks'[k].call \in 1 .. Len(calls')
      BY <1>1, <1>4, <1>5, <1>6 DEF AnswersInv, CallsMade
    <2> QED BY <1>1, <1>6, <2>1, NoReplyKeepsAnswers DEF BeginProxied
  <1>8. ServerInv'
    <2>1. UNCHANGED <<received, processing>> /\ received \in Nat
      BY <1>1 DEF BeginProxied, ServerInv
    <2> QED BY <1>1, <1>2, <1>5, <1>6, <2>1, TasksRelabelled
  <1> QED BY <1>4, <1>7, <1>8, Parts

\* A proxied request ends with its call, and replies what the call ended with.
LEMMA EndProxiedKeeps ==
    ASSUME IInv, NEW n \in 1 .. Len(tasks), EndProxied(n)
    PROVE  IInv'
  <1> DEFINE id == tasks[n].call
  <1>1. ClientInv /\ ServerInv /\ AnswersInv
    BY Parts
  <1>2. /\ tasks[n].pc = "calling" /\ tasks' = [tasks EXCEPT ![n].pc = "replied"]
        /\ CallReturns(id) \/ CallTimesOut(id)
        /\ Reply(tasks[n].request, calls'[id].end)
        /\ UNCHANGED <<link, session, subscribes, subscribed, requests, replies, posted>>
        /\ UNCHANGED <<received, processing>>
    BY DEF EndProxied
  <1>3. id \in 1 .. Len(calls)
    BY <1>1, <1>2 DEF AnswersInv, CallsMade
  <1> HIDE DEF id
  <1>4. /\ ClientInv' /\ Len(calls') = Len(calls)
        /\ calls'[id].end \in {"result", "error", "timeout"}
    BY <1>1, <1>2, <1>3, CallEndKeeps
  <1>5. AnswersInv'
    <2>1. tasks[n].pc \in {"posted", "calling"} /\ UNCHANGED received
      BY <1>2
    <2> QED BY <1>1, <1>2, <1>4, <2>1, ReplyKeepsAnswers
  <1>6. ServerInv'
    BY <1>1, <1>2, RepliedKeepsServer
  <1> QED BY <1>4, <1>5, <1>6, Parts

\* A request leaves the list after its reply.
LEMMA RemoveKeeps ==
    ASSUME IInv, NEW n \in 1 .. Len(tasks), Remove(n)
    PROVE  IInv'
  <1> DEFINE t == [tasks[n] EXCEPT !.pc = "done"]
  <1>1. ClientInv /\ ServerInv /\ AnswersInv
    BY Parts
  <1>2. ClientInv' /\ UNCHANGED calls
    BY <1>1, ClientUnchanged DEF Remove, clientVars
  <1>3. tasks \in Seq(Tasks) /\ tasks[n] \in Tasks /\ tasks[n].pc = "replied"
    BY <1>1 DEF ServerInv, Remove
  <1>4. t \in Tasks /\ t.pc = "done" /\ tasks' = [tasks EXCEPT ![n] = t]
    BY <1>3 DEF Tasks, Remove
  <1> HIDE DEF t
  <1>5. /\ Len(tasks') = Len(tasks) /\ tasks'[n] = t
        /\ \A k \in 1 .. Len(tasks) : k # n => tasks'[k] = tasks[k]
        /\ Owing' = Owing
    <2>1. n \notin Owing /\ Owing' = Owing \ {n}
      BY <1>3, <1>4, OneTaskChanges
    <2>2. Owing' = Owing
      BY <2>1
    <2> QED BY <1>3, <1>4, <2>2, OneTaskChanges
  <1>6. AnswersInv'
    <2>1. \A k \in 1 .. Len(tasks') :
              tasks'[k].pc = "calling" => tasks'[k].call \in 1 .. Len(calls')
      BY <1>1, <1>2, <1>4, <1>5 DEF AnswersInv, CallsMade
    <2> QED BY <1>1, <1>5, <2>1, NoReplyKeepsAnswers DEF Remove
  <1> QED BY <1>1, <1>2, <1>6, RemoveKeepsServer, Parts

\* Every step keeps the invariant.
LEMMA NextKeeps ==
    IInv /\ [Next]_vars => IInv'
  <1> SUFFICES ASSUME IInv, [Next]_vars PROVE IInv'
    OBVIOUS
  <1>0. ClientInv /\ ServerInv /\ AnswersInv
    BY Parts
  <1>1. ASSUME UNCHANGED serverVars, ClientInv', Len(calls') = Len(calls) PROVE IInv'
    <2>1. ServerInv'
      BY <1>0, <1>1 DEF serverVars, ServerInv, NeverTwice, ProcessingMatches, IsProcessing,
                        Unfinished, Distinct
    <2>2. AnswersInv'
      BY <1>0, <1>1 DEF serverVars, AnswersInv, AnsweredOnce, CallsMade, Unfinished
    <2> QED BY <1>1, <2>1, <2>2, Parts
  <1>2. CASE \E r \in Requests : Accept(r) \/ Refuse(r)
    BY <1>2, RequestKeeps
  <1>3. CASE TaskStep
    BY <1>3, BeginLocalKeeps, BeginProxiedKeeps, EndProxiedKeeps, RemoveKeeps DEF TaskStep
  <1>4. CASE LoopFree /\ RunPosted /\ UNCHANGED serverVars
    BY <1>0, <1>1, <1>4, RunPostedKeeps
  <1>5. CASE \/ \E id \in requests : Serve(id) /\ UNCHANGED serverVars
             \/ \E reply \in replies : OnReply(reply) /\ UNCHANGED serverVars
             \/ (LinkBreaks \/ OnDisconnect \/ OnConnect) /\ UNCHANGED serverVars
    BY <1>0, <1>1, <1>5, NetworkKeeps
  <1>6. CASE UNCHANGED vars
    BY <1>0, <1>1, <1>6, ClientUnchanged DEF vars, clientVars
  <1> QED BY <1>2, <1>3, <1>4, <1>5, <1>6 DEF Next
-----------------------------------------------------------------------------
(* The theorems                                                            *)

\* Every reachable state satisfies the inductive invariant, for any methods,
\* requests and bounds.
THEOREM Invariance == Spec => []IInv
  BY InitHolds, NextKeeps, PTL DEF Spec

\* AsyncMQTTServer executes no request twice at a time.
THEOREM OneAtATime == Spec => []NeverTwice
  <1>1. IInv => NeverTwice
    BY DEF IInv
  <1> QED BY <1>1, Invariance, PTL

\* The list of requests in processing holds exactly the requests whose tasks have
\* not ended.
THEOREM ListMatches == Spec => []ProcessingMatches
  <1>1. IInv => ProcessingMatches
    BY DEF IInv
  <1> QED BY <1>1, Invariance, PTL

\* Each request received is replied to once, or owed one reply.
THEOREM OneReply == Spec => []AnsweredOnce
  <1>1. IInv => AnsweredOnce
    BY DEF IInv
  <1> QED BY <1>1, Invariance, PTL

\* While connected, only a method called without a connection can be deaf.
THEOREM DeafOnly == Spec => []DeafOnlyIfCalledOffline
  <1>1. IInv => DeafOnlyIfCalledOffline
    BY DEF IInv
  <1> QED BY <1>1, Invariance, PTL
-----------------------------------------------------------------------------
(* RpcServer implements RequestService.                                    *)

Opened == {r \in Requests : IsProcessing(r)}
Log == [i \in 1 .. Len(answers) |-> Told(answers[i])]

Entries == [request : Requests, busy : BOOLEAN]

\* A reply more is one more in the log.
LEMMA LogGrows ==
    ASSUME answers \in Seq(Answers), NEW request \in Requests, NEW kind,
           Reply(request, kind)
    PROVE  Log' = Append(Log, [request |-> request, busy |-> kind = "busy"])
<1> DEFINE a == [request |-> request, kind |-> kind]
           b == [request |-> request, busy |-> kind = "busy"]
           n == Len(answers)
<1>1. answers' = Append(answers, a) /\ n \in Nat
  BY DEF Reply
<1>2. Told(a) = b /\ b \in Entries
  BY DEF Told, Entries
<1>3. \A i \in 1 .. n : Told(answers[i]) \in Entries
  <2>. TAKE i \in 1 .. n
  <2>1. answers[i] \in Answers
    OBVIOUS
  <2>2. answers[i].request \in Requests
    BY <2>1 DEF Answers
  <2>. QED
    BY <2>2 DEF Told, Entries
<1> HIDE DEF a, b
<1>4. /\ Len(answers') = n + 1 /\ answers'[n + 1] = a
      /\ \A i \in 1 .. n : answers'[i] = answers[i]
  BY <1>1
<1>5. Log \in Seq(Entries) /\ Len(Log) = n /\ \A i \in 1 .. n : Log[i] = Told(answers[i])
  BY <1>1, <1>3 DEF Log
<1>6. Log' = [i \in 1 .. n + 1 |-> Told(answers'[i])]
  BY <1>4 DEF Log, Told
<1>7. \A i \in 1 .. n + 1 : Told(answers'[i]) \in Entries
  <2>. TAKE i \in 1 .. n + 1
  <2>1. i \in 1 .. n \/ i = n + 1
    BY <1>1
  <2>. QED
    BY <1>2, <1>3, <1>4, <2>1
<1>8. Log' \in Seq(Entries) /\ Len(Log') = n + 1
  BY <1>1, <1>6, <1>7
<1>9. /\ Log'[n + 1] = b
      /\ \A i \in 1 .. n : Log'[i] = Log[i]
  BY <1>1, <1>2, <1>4, <1>5, <1>6
<1>10. /\ Append(Log, b) \in Seq(Entries) /\ Len(Append(Log, b)) = n + 1
       /\ Append(Log, b)[n + 1] = b
       /\ \A i \in 1 .. n : Append(Log, b)[i] = Log[i]
  BY <1>2, <1>5, AppendProperties
<1>11. \A i \in 1 .. n + 1 : Log'[i] = Append(Log, b)[i]
  <2>. TAKE i \in 1 .. n + 1
  <2>1. i \in 1 .. n \/ i = n + 1
    BY <1>1
  <2>. QED
    BY <1>9, <1>10, <2>1
<1>12. Log' = Append(Log, b)
  BY <1>8, <1>10, <1>11, SeqEqual
<1>. QED
  BY <1>12 DEF b

\* The request of a task that has not ended is open, and of those tasks only one is its.
LEMMA OpenByTask ==
    ASSUME ServerInv, NEW n \in Unfinished
    PROVE  /\ tasks[n].request \in Requests /\ tasks[n].request \in Opened
           /\ tasks[n].request \in Replied <=> tasks[n].pc = "replied"
<1>1. tasks[n] \in Tasks /\ n \in 1 .. Len(tasks)
  BY DEF ServerInv, Unfinished
<1>2. tasks[n].request \in Requests
  BY <1>1 DEF Tasks
<1>3. tasks[n].request \in Opened
  BY <1>2 DEF ServerInv, ProcessingMatches, Opened
<1>4. ASSUME tasks[n].request \in Replied
      PROVE  tasks[n].pc = "replied"
  <2>1. PICK k \in Unfinished : tasks[k].pc = "replied" /\ tasks[k].request = tasks[n].request
    BY <1>4 DEF Replied
  <2>2. k = n
    BY <2>1 DEF ServerInv, NeverTwice
  <2>. QED
    BY <2>1, <2>2
<1>. QED
  BY <1>2, <1>3, <1>4 DEF Replied

\* A task replies: its request is answered, which was open and not answered.
LEMMA ReplyRefines ==
    ASSUME ServerInv, answers \in Seq(Answers), NEW n \in 1 .. Len(tasks),
           tasks[n].pc \in {"posted", "calling"},
           tasks' = [tasks EXCEPT ![n].pc = "replied"], UNCHANGED processing,
           NEW kind, kind # "busy", Reply(tasks[n].request, kind)
    PROVE  Service!Answer(tasks[n].request)
<1> DEFINE r == tasks[n].request
<1>1. n \in Unfinished
  BY DEF Unfinished
<1>2. r \in Opened /\ r \notin Replied
  BY <1>1, OpenByTask
<1>3. /\ Len(tasks') = Len(tasks) /\ tasks'[n].request = r /\ tasks'[n].pc = "replied"
      /\ \A k \in 1 .. Len(tasks) : k # n => tasks'[k] = tasks[k]
  <2> DEFINE t == [tasks[n] EXCEPT !.pc = "replied"]
  <2>1. tasks \in Seq(Tasks) /\ tasks[n] \in Tasks
    BY DEF ServerInv
  <2>2. t \in Tasks /\ t.request = r /\ t.pc = "replied"
    BY <2>1 DEF Tasks
  <2>3. tasks' = [tasks EXCEPT ![n] = t]
    OBVIOUS
  <2> HIDE DEF t
  <2>. QED
    BY <2>1, <2>2, <2>3, ExceptSeq
<1>4. Unfinished' = Unfinished
  BY <1>1, <1>3 DEF Unfinished
<1>5. Replied' = Replied \cup {r}
  <2>1. \A k \in Unfinished : /\ k \in 1 .. Len(tasks)
                              /\ tasks'[k].request = tasks[k].request
                              /\ tasks'[k].pc = "replied" <=> tasks[k].pc = "replied" \/ k = n
    BY <1>3 DEF Unfinished
  <2>2. ASSUME NEW x
        PROVE  x \in Replied' <=> x \in Replied \cup {r}
    <3>1. x \in Replied' <=> \E k \in Unfinished : tasks'[k].pc = "replied" /\ tasks'[k].request = x
      BY <1>4 DEF Replied
    <3>2. x \in Replied <=> \E k \in Unfinished : tasks[k].pc = "replied" /\ tasks[k].request = x
      BY DEF Replied
    <3>3. x \in Replied' => x \in Replied \cup {r}
      BY <2>1, <3>1, <3>2
    <3>4. x \in Replied \cup {r} => x \in Replied'
      BY <1>1, <2>1, <3>1, <3>2
    <3>. QED
      BY <3>3, <3>4
  <2>. QED
    BY <2>2
<1>6. Opened' = Opened
  BY DEF Opened, IsProcessing
<1>7. Log' = Append(Log, [request |-> r, busy |-> FALSE])
  <2>1. (kind = "busy") = FALSE
    OBVIOUS
  <2>2. r \in Requests
    BY <1>1, OpenByTask
  <2>3. Log' = Append(Log, [request |-> r, busy |-> kind = "busy"])
    BY <2>2, LogGrows
  <2>. QED
    BY <2>1, <2>3
<1> HIDE DEF r
<1>. QED
  BY <1>2, <1>5, <1>6, <1>7 DEF Service!Answer, Service!Tells, Opened, Log, r

LEMMA AcceptRefines ==
    ASSUME ServerInv, NEW r \in Requests, Accept(r)
    PROVE  Service!Take(r)
<1> DEFINE t == [request |-> r, pc |-> "posted", call |-> 0]
<1>1. /\ ~IsProcessing(r) /\ processing' = Append(processing, r)
      /\ tasks' = Append(tasks, t) /\ UNCHANGED answers
      /\ processing \in Seq(Requests) /\ tasks \in Seq(Tasks)
  BY DEF Accept, ServerInv
<1>2. t.pc = "posted"
  OBVIOUS
<1> HIDE DEF t
<1>3. /\ Len(tasks) \in Nat /\ Len(tasks') = Len(tasks) + 1 /\ tasks'[Len(tasks) + 1] = t
      /\ \A k \in 1 .. Len(tasks) : tasks'[k] = tasks[k]
  BY <1>1
<1>4. Replied' = Replied
  <2>1. \A k \in 1 .. Len(tasks) + 1 :
            k \in Unfinished' /\ tasks'[k].pc = "replied"
                <=> k \in Unfinished /\ tasks[k].pc = "replied"
    <3>. TAKE k \in 1 .. Len(tasks) + 1
    <3>1. CASE k = Len(tasks) + 1
      BY <1>2, <1>3, <3>1 DEF Unfinished
    <3>2. CASE k # Len(tasks) + 1
      BY <1>3, <3>2 DEF Unfinished
    <3>. QED
      BY <3>1, <3>2
  <2>2. \A k \in Unfinished : k \in 1 .. Len(tasks)
    BY DEF Unfinished
  <2>3. \A k \in Unfinished' : k \in 1 .. Len(tasks) + 1
    BY <1>3 DEF Unfinished
  <2>4. {k \in Unfinished : tasks[k].pc = "replied"}
            = {k \in Unfinished' : tasks'[k].pc = "replied"}
    BY <1>3, <2>1, <2>2, <2>3
  <2>. QED
    BY <1>3, <2>2, <2>4 DEF Replied
<1>5. Opened' = Opened \cup {r}
  <2>0. /\ Len(processing) \in Nat /\ Len(processing') = Len(processing) + 1
        /\ processing'[Len(processing) + 1] = r
        /\ \A i \in 1 .. Len(processing) : processing'[i] = processing[i]
    BY <1>1
  <2>1. \A x : IsProcessing(x)' <=> IsProcessing(x) \/ x = r
    BY <2>0 DEF IsProcessing
  <2>. QED
    BY <2>1 DEF Opened
<1>6. Log' = Log
  BY <1>1 DEF Log
<1>. QED
  BY <1>1, <1>4, <1>5, <1>6 DEF Service!Take, Opened, Log

LEMMA RefuseRefines ==
    ASSUME answers \in Seq(Answers), NEW r \in Requests, Refuse(r)
    PROVE  Service!Refuse(r)
<1>1. IsProcessing(r) /\ Reply(r, "busy") /\ UNCHANGED <<processing, tasks>>
  BY DEF Refuse
<1>2. Log' = Append(Log, [request |-> r, busy |-> TRUE])
  BY <1>1, LogGrows
<1>3. Opened' = Opened /\ Replied' = Replied
  BY <1>1 DEF Opened, IsProcessing, Replied, Unfinished
<1>. QED
  BY <1>1, <1>2, <1>3 DEF Service!Refuse, Service!Tells, Opened, Log

LEMMA RemoveRefines ==
    ASSUME ServerInv, NEW n \in 1 .. Len(tasks), Remove(n)
    PROVE  Service!Close(tasks[n].request)
<1> DEFINE r == tasks[n].request
<1>1. /\ tasks[n].pc = "replied" /\ tasks' = [tasks EXCEPT ![n].pc = "done"]
      /\ processing' = Without(processing, r) /\ UNCHANGED answers
      /\ tasks \in Seq(Tasks) /\ tasks[n] \in Tasks /\ processing \in Seq(Requests)
  BY DEF Remove, ServerInv
<1>2. n \in Unfinished
  BY <1>1 DEF Unfinished
<1>3. r \in Opened /\ r \in Replied /\ r \in Requests
  BY <1>1, <1>2, OpenByTask
<1>4. /\ Len(tasks') = Len(tasks) /\ tasks'[n].pc = "done"
      /\ \A k \in 1 .. Len(tasks) : k # n => tasks'[k] = tasks[k]
  BY <1>1 DEF Tasks
<1>5. Unfinished' = Unfinished \ {n}
  BY <1>4 DEF Unfinished
<1>6. Replied' = Replied \ {r}
  <2>1. \A k \in Unfinished \ {n} : tasks'[k] = tasks[k] /\ tasks[k].request # r
    BY <1>2, <1>4 DEF Unfinished, ServerInv, NeverTwice
  <2>2. Replied' = {tasks'[k].request : k \in {j \in Unfinished \ {n} : tasks'[j].pc = "replied"}}
    BY <1>5 DEF Replied
  <2>3. Replied' = {tasks[k].request : k \in {j \in Unfinished \ {n} : tasks[j].pc = "replied"}}
    BY <2>1, <2>2
  <2>. QED
    BY <1>2, <2>1, <2>3 DEF Replied
<1>7. Opened' = Opened \ {r}
  <2>1. Held(processing, r) /\ Distinct(processing)
    BY <1>3 DEF Opened, IsProcessing, Held, ServerInv
  <2>2. \A x : Held(Without(processing, r), x) <=> Held(processing, x) /\ x # r
    <3> HIDE DEF r
    <3>. QED
      BY <1>1, <2>1, WithoutRemoves
  <2>3. \A x : IsProcessing(x)' <=> IsProcessing(x) /\ x # r
    BY <1>1, <2>2 DEF IsProcessing, Held
  <2>. QED
    BY <2>3 DEF Opened
<1>8. Log' = Log
  BY <1>1 DEF Log
<1> HIDE DEF r
<1>. QED
  BY <1>3, <1>6, <1>7, <1>8 DEF Service!Close, Opened, Log, r

\* What the service does not see: the client, the link, and a call that begins.
LEMMA UnseenStep ==
    ASSUME UNCHANGED <<processing, answers>>, Replied' = Replied
    PROVE  UNCHANGED Service!vars
  BY DEF Service!vars, IsProcessing

LEMMA NextRefines ==
    ASSUME IInv, [Next]_vars
    PROVE  [Service!Next]_(Service!vars)
<1>0. ServerInv /\ AnswersInv /\ ClientInv
  BY Parts
<1>1. /\ ServerInv /\ answers \in Seq(Answers) /\ ClientInv
      /\ \A n \in 1 .. Len(tasks) : tasks[n] \in Tasks /\ tasks[n].request \in Requests
  <2>1. \A n \in 1 .. Len(tasks) : tasks[n] \in Tasks
    BY <1>0 DEF ServerInv
  <2>2. \A task \in Tasks : task.request \in Requests
    BY DEF Tasks
  <2>. QED
    BY <1>0, <2>1, <2>2 DEF AnswersInv
<1>2. ASSUME UNCHANGED serverVars
      PROVE  UNCHANGED Service!vars
  BY <1>2, UnseenStep DEF serverVars, Replied, Unfinished
<1>3. ASSUME NEW r \in Requests, Accept(r) \/ Refuse(r)
      PROVE  Service!Next
  BY <1>1, <1>3, AcceptRefines, RefuseRefines DEF Service!Next
<1>4. ASSUME NEW n \in 1 .. Len(tasks), BeginLocal(n)
      PROVE  Service!Next
  <2>1. Service!Answer(tasks[n].request)
    BY <1>1, <1>4, ReplyRefines DEF BeginLocal, Begins
  <2>. QED
    BY <1>1, <2>1 DEF Service!Next
<1>5. ASSUME NEW n \in 1 .. Len(tasks), BeginProxied(n)
      PROVE  UNCHANGED Service!vars
  <2>1. /\ tasks[n].pc = "posted" /\ UNCHANGED <<processing, answers>>
        /\ tasks' = [tasks EXCEPT ![n].pc = "calling", ![n].call = Len(calls) + 1]
        /\ tasks \in Seq(Tasks)
    BY <1>1, <1>5 DEF BeginProxied, Begins, ServerInv
  <2>2. /\ Len(tasks') = Len(tasks)
        /\ \A k \in 1 .. Len(tasks) :
               /\ tasks'[k].request = tasks[k].request
               /\ tasks'[k].pc = "replied" <=> tasks[k].pc = "replied"
               /\ tasks'[k].pc = "done" <=> tasks[k].pc = "done"
    BY <1>1, <2>1 DEF Tasks
  <2>3. Unfinished' = Unfinished /\ \A k \in Unfinished : k \in 1 .. Len(tasks)
    BY <2>2 DEF Unfinished
  <2>4. Replied' = Replied
    <3>1. Replied' = {tasks'[k].request : k \in {j \in Unfinished : tasks'[j].pc = "replied"}}
      BY <2>3 DEF Replied
    <3>2. {j \in Unfinished : tasks'[j].pc = "replied"}
              = {j \in Unfinished : tasks[j].pc = "replied"}
      BY <2>2, <2>3
    <3>. QED
      BY <2>2, <2>3, <3>1, <3>2 DEF Replied
  <2>. QED
    BY <2>1, <2>4, UnseenStep
<1>6. ASSUME NEW n \in 1 .. Len(tasks), EndProxied(n)
      PROVE  Service!Next
  <2> DEFINE id == tasks[n].call
  <2>1. /\ tasks[n].pc = "calling" /\ tasks' = [tasks EXCEPT ![n].pc = "replied"]
        /\ UNCHANGED processing
        /\ CallReturns(id) \/ CallTimesOut(id)
        /\ UNCHANGED <<link, session, subscribes, subscribed, requests, replies, posted>>
        /\ Reply(tasks[n].request, calls'[id].end)
    BY <1>6 DEF EndProxied
  <2>2. id \in 1 .. Len(calls)
    BY <1>0, <2>1 DEF AnswersInv, CallsMade
  <2> HIDE DEF id
  <2>3. calls'[id].end \in {"result", "error", "timeout"}
    BY <1>1, <2>1, <2>2, CallEndKeeps
  <2>4. Service!Answer(tasks[n].request)
    BY <1>1, <2>1, <2>3, ReplyRefines
  <2>. QED
    BY <1>1, <2>4 DEF Service!Next
<1>7. ASSUME NEW n \in 1 .. Len(tasks), Remove(n)
      PROVE  Service!Next
  BY <1>1, <1>7, RemoveRefines DEF Service!Next
<1>8. CASE TaskStep
  BY <1>4, <1>5, <1>6, <1>7, <1>8 DEF TaskStep
<1>9. CASE UNCHANGED vars
  BY <1>2, <1>9 DEF vars
<1>. QED
  BY <1>2, <1>3, <1>8, <1>9 DEF Next

\* Every behaviour of the RPC server is one of RequestService: what a client may count on
\* without knowing of threads, tasks, calls and the link.
THEOREM Refinement == Spec => ServiceKept
<1>1. Init => Service!Init
  BY DEF Init, Service!Init, IsProcessing, Replied, Unfinished
<1>2. IInv /\ [Next]_vars => [Service!Next]_(Service!vars)
  BY NextRefines
<1>. QED
  BY <1>1, <1>2, Invariance, PTL DEF Spec, ServiceKept, Service!Spec
=============================================================================
