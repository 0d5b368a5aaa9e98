---------------------------- MODULE BusScan_queue ----------------------------
(***************************************************************************)
(* Theorems about what BusScan publishes, for any ports, clients, scan     *)
(* types and bounds: they follow the events from the tasks that queue them *)
(* to the consumer.                                                        *)
(*                                                                         *)
(* The state to come, when all of the queue will have been applied, is     *)
(* known at any time: "Leads" says that the queue goes there from the      *)
(* state there is, and that each event on the way leaves a state that may  *)
(* be shown.                                                               *)
(***************************************************************************)
EXTENDS BusScan_proofs, ScanFailures

\* No fast scan is asked for: only the others look a device up first.
NoFast == ScanTypes \subseteq {"standard", "bootloader"}

Distinct(list) == \A i, j \in 1 .. Len(list) : list[i] = list[j] => i = j

Fine(s) == NoFast => Distinct(s.devices)
Shows(s, t) == s.scanning /\ t.scanning => t.progress >= s.progress

\* D is the way from s to t through the events of q.
Path(D, q, s, t) ==
    /\ D[0] = s /\ D[Len(q)] = t
    /\ \A i \in 0 .. Len(q) : Fine(D[i])
    /\ \A i \in 1 .. Len(q) : D[i] = Applied(D[i - 1], q[i]) /\ Shows(D[i - 1], D[i])

Leads(q, s, t) == \E D \in [0 .. Len(q) -> States] : Path(D, q, s, t)
-----------------------------------------------------------------------------
\* An empty queue leads nowhere else.
LEMMA LeadsNil ==
    ASSUME NEW s \in States
    PROVE  /\ Fine(s) => Leads(<<>>, s, s)
           /\ \A t \in States : Leads(<<>>, s, t) => t = s /\ Fine(s)
<1>1. Len(<<>>) = 0
  OBVIOUS
<1>2. ASSUME Fine(s)
      PROVE  Leads(<<>>, s, s)
  <2> DEFINE D == [i \in 0 .. 0 |-> s]
  <2>1. D \in [0 .. 0 -> States] /\ D[0] = s
    OBVIOUS
  <2>2. \A i \in 0 .. 0 : Fine(D[i])
    BY <1>2
  <2> HIDE DEF D
  <2>3. Path(D, <<>>, s, s)
    BY <1>1, <2>1, <2>2 DEF Path
  <2>. QED
    BY <1>1, <2>1, <2>3 DEF Leads
<1>3. ASSUME NEW t \in States, Leads(<<>>, s, t)
      PROVE  t = s /\ Fine(s)
  <2>1. PICK D \in [0 .. Len(<<>>) -> States] : Path(D, <<>>, s, t)
    BY <1>3 DEF Leads
  <2>. QED
    BY <1>1, <2>1 DEF Path
<1>. QED
  BY <1>2, <1>3

\* One event more
LEMMA LeadsPut ==
    ASSUME NEW q \in Seq(Events), NEW event \in Events, NEW s \in States, NEW t \in States,
           Leads(q, s, t), Fine(Applied(t, event)), Shows(t, Applied(t, event))
    PROVE  Leads(Append(q, event), s, Applied(t, event))
<1> DEFINE n == Len(q)
           r == Append(q, event)
           u == Applied(t, event)
<1>1. PICK D \in [0 .. n -> States] : Path(D, q, s, t)
  BY DEF Leads
<1>2. u \in States
  BY AppliedType
<1>3. n \in Nat /\ Len(r) = n + 1 /\ r[n + 1] = event /\ \A i \in 1 .. n : r[i] = q[i]
  OBVIOUS
<1> HIDE DEF n, r, u
<1> DEFINE E == [i \in 0 .. n + 1 |-> IF i <= n THEN D[i] ELSE u]
<1>4. E \in [0 .. n + 1 -> States]
  BY <1>2, <1>3
<1>5. E[n + 1] = u /\ \A i \in 0 .. n : E[i] = D[i]
  BY <1>3
<1> HIDE DEF E
<1>6. D[0] = s /\ D[n] = t
  BY <1>1 DEF Path, n
<1>7. E[0] = s /\ E[n + 1] = u
  BY <1>3, <1>5, <1>6
<1>8. \A i \in 0 .. n + 1 : Fine(E[i])
  <2>. TAKE i \in 0 .. n + 1
  <2>1. i \in 0 .. n \/ i = n + 1
    BY <1>3
  <2>. QED
    BY <1>1, <1>5, <2>1 DEF Path, n, u
<1>9. \A i \in 1 .. n + 1 : E[i] = Applied(E[i - 1], r[i]) /\ Shows(E[i - 1], E[i])
  <2>. TAKE i \in 1 .. n + 1
  <2>1. CASE i \in 1 .. n
    <3>1. i - 1 \in 0 .. n /\ i \in 0 .. n
      BY <1>3, <2>1
    <3>2. D[i] = Applied(D[i - 1], q[i]) /\ Shows(D[i - 1], D[i])
      BY <1>1, <2>1 DEF Path, n
    <3>. QED
      BY <1>3, <1>5, <2>1, <3>1, <3>2
  <2>2. CASE i = n + 1
    <3>1. i - 1 = n /\ n \in 0 .. n
      BY <1>3, <2>2
    <3>2. E[i - 1] = t /\ E[i] = u /\ r[i] = event
      BY <1>3, <1>5, <1>6, <2>2, <3>1
    <3>. QED
      BY <3>2 DEF u
  <2>. QED
    BY <1>3, <2>1, <2>2
<1>10. Path(E, r, s, u)
  BY <1>3, <1>7, <1>8, <1>9 DEF Path
<1>. QED
  BY <1>3, <1>4, <1>10 DEF Leads, r, u

\* The consumer takes the first step of the way.
LEMMA LeadsConsume ==
    ASSUME NEW q \in Seq(Events), q # <<>>, NEW s \in States, NEW t \in States, Leads(q, s, t)
    PROVE  /\ Shows(s, Applied(s, Head(q)))
           /\ Leads(Tail(q), Applied(s, Head(q)), t)
<1> DEFINE n == Len(q)
           r == Tail(q)
<1>1. PICK D \in [0 .. n -> States] : Path(D, q, s, t)
  BY DEF Leads
<1>2. /\ n \in Nat \ {0} /\ Len(r) = n - 1 /\ Head(q) = q[1]
      /\ \A i \in 1 .. n - 1 : r[i] = q[i + 1]
  BY EmptySeq, HeadTailProperties
<1>3. D[0] = s /\ D[n] = t
  BY <1>1 DEF Path
<1>4. D[1] = Applied(s, Head(q)) /\ Shows(s, D[1])
  <2>1. 1 \in 1 .. n /\ 1 - 1 = 0
    BY <1>2
  <2>2. D[1] = Applied(D[1 - 1], q[1]) /\ Shows(D[1 - 1], D[1])
    BY <1>1, <2>1 DEF Path
  <2>. QED
    BY <1>2, <1>3, <2>1, <2>2
<1>5. /\ \A i \in 0 .. n : Fine(D[i])
      /\ \A i \in 1 .. n : D[i] = Applied(D[i - 1], q[i]) /\ Shows(D[i - 1], D[i])
  BY <1>1 DEF Path
<1> HIDE DEF n, r
<1> DEFINE E == [i \in 0 .. n - 1 |-> D[i + 1]]
<1>6. \A i \in 0 .. n - 1 : i + 1 \in 0 .. n /\ i + 1 \in 1 .. n
  BY <1>2
<1>7. E \in [0 .. n - 1 -> States]
  BY <1>6
<1>8. \A i \in 0 .. n - 1 : E[i] = D[i + 1]
  OBVIOUS
<1> HIDE DEF E
<1>9. E[0] = D[1] /\ E[n - 1] = t
  <2>1. 0 \in 0 .. n - 1 /\ n - 1 \in 0 .. n - 1 /\ 0 + 1 = 1 /\ (n - 1) + 1 = n
    BY <1>2
  <2>. QED
    BY <1>3, <1>8, <2>1
<1>10. \A i \in 0 .. n - 1 : Fine(E[i])
  BY <1>5, <1>6, <1>8
<1>11. \A i \in 1 .. n - 1 : E[i] = Applied(E[i - 1], r[i]) /\ Shows(E[i - 1], E[i])
  <2>. TAKE i \in 1 .. n - 1
  <2>1. i \in 0 .. n - 1 /\ i - 1 \in 0 .. n - 1 /\ i + 1 \in 1 .. n /\ (i - 1) + 1 = i
        /\ (i + 1) - 1 = i
    BY <1>2
  <2>2. D[i + 1] = Applied(D[i], q[i + 1]) /\ Shows(D[i], D[i + 1])
    BY <1>5, <2>1
  <2>. QED
    BY <1>2, <1>8, <2>1, <2>2
<1>12. Path(E, r, D[1], t)
  BY <1>2, <1>9, <1>10, <1>11 DEF Path
<1>13. Leads(r, D[1], t)
  BY <1>2, <1>7, <1>12 DEF Leads
<1>. QED
  BY <1>4, <1>13 DEF r

\* Both ends of the way may be shown.
LEMMA LeadsFine ==
    ASSUME NEW q \in Seq(Events), NEW s, NEW t, Leads(q, s, t)
    PROVE  Fine(s) /\ Fine(t)
<1>1. PICK D \in [0 .. Len(q) -> States] : Path(D, q, s, t)
  BY DEF Leads
<1>2. Len(q) \in Nat /\ 0 \in 0 .. Len(q) /\ Len(q) \in 0 .. Len(q)
  OBVIOUS
<1>. QED
  BY <1>1, <1>2 DEF Path

LEMMA ConcatAppend ==
    ASSUME NEW a \in Seq(Sns), NEW b \in Seq(Sns), NEW x \in Sns
    PROVE  a \o Append(b, x) = Append(a \o b, x)
<1>1. Append(b, x) = b \o <<x>> /\ <<x>> \in Seq(Sns)
  BY AppendIsConcat
<1>2. a \o b \in Seq(Sns)
  BY ConcatProperties
<1>3. Append(a \o b, x) = (a \o b) \o <<x>>
  BY <1>2, AppendIsConcat
<1>. QED
  BY <1>1, <1>3, ConcatAssociative

\* The state with another list of devices
With(s, list) == [s EXCEPT !.devices = list]

LEMMA WithFacts ==
    ASSUME NEW s \in States
    PROVE  /\ With(s, s.devices) = s
           /\ \A list \in Seq(Sns) : With(s, list) \in States
           /\ \A list : /\ With(s, list).devices = list
                        /\ With(s, list).progress = s.progress
                        /\ With(s, list).scanning = s.scanning
                        /\ With(s, list).error = s.error
           /\ \A x, y : With(With(s, x), y) = With(s, y)
  BY DEF With, States

\* What a device changes
LEMMA AppliedDevice ==
    ASSUME NEW s \in States, NEW sn
    PROVE  Applied(s, [device |-> sn]) = With(s, Append(s.devices, sn))
<1> DEFINE event == [device |-> sn]
<1>1. /\ DOMAIN event = {"device"} /\ event.device = sn
      /\ "device" \in DOMAIN event
      /\ \A field \in {"progress", "scanning", "scanning_ports", "is_ext_scan", "error"} :
             field \notin DOMAIN event
  OBVIOUS
<1> HIDE DEF event
<1>2. Applied(s, event) = [progress |-> s.progress, scanning |-> s.scanning,
                           scanning_ports |-> s.scanning_ports,
                           is_ext_scan |-> s.is_ext_scan, error |-> s.error,
                           devices |-> Append(s.devices, sn)]
  BY <1>1 DEF Applied, NewProgress
<1>3. \A list : With(s, list) = [progress |-> s.progress, scanning |-> s.scanning,
                                 scanning_ports |-> s.scanning_ports,
                                 is_ext_scan |-> s.is_ext_scan, error |-> s.error,
                                 devices |-> list]
  BY DEF With, States
<1>. QED
  BY <1>2, <1>3 DEF event

\* Several devices more: no fast scan is without this lemma, so nothing is asked
\* of the list of devices.
LEMMA LeadsDevices ==
    ASSUME ~NoFast, NEW q \in Seq(Events), NEW s \in States, NEW t \in States,
           Leads(q, s, t), NEW devs \in Seq(Sns)
    PROVE  Leads(q \o [i \in 1 .. Len(devs) |-> [device |-> devs[i]]], s,
                 With(t, t.devices \o devs))
<1> DEFINE n == Len(q)
           k == Len(devs)
           added == [i \in 1 .. k |-> [device |-> devs[i]]]
           r == q \o added
           U(last) == With(t, t.devices \o SubSeq(devs, 1, last))
<1>1. PICK D \in [0 .. n -> States] : Path(D, q, s, t)
  BY DEF Leads
<1>2. n \in Nat /\ k \in Nat /\ t.devices \in Seq(Sns)
  BY DEF States
<1>3. added \in Seq(Events) /\ Len(added) = k /\ \A j \in 1 .. k : added[j] = [device |-> devs[j]]
  <2>1. \A i \in 1 .. k : [device |-> devs[i]] \in Events
    BY DEF Events
  <2>. QED
    BY <1>2, <2>1
<1> HIDE DEF added
<1>4. /\ r \in Seq(Events) /\ Len(r) = n + k
      /\ \A i \in 1 .. n : r[i] = q[i]
      /\ \A j \in 1 .. k : r[n + j] = [device |-> devs[j]]
  <2>1. r \in Seq(Events) /\ Len(r) = n + k
    BY <1>2, <1>3, ConcatProperties
  <2>2. \A i \in 1 .. n + k : r[i] = IF i <= n THEN q[i] ELSE added[i - n]
    BY <1>2, <1>3, ConcatProperties
  <2>3. \A i \in 1 .. n : i \in 1 .. n + k /\ i <= n
    BY <1>2
  <2>4. \A j \in 1 .. k : n + j \in 1 .. n + k /\ ~(n + j <= n) /\ (n + j) - n = j
    BY <1>2
  <2>. QED
    BY <1>3, <2>1, <2>2, <2>3, <2>4
<1>5. \A j \in 0 .. k : SubSeq(devs, 1, j) \in Seq(Sns) /\ U(j) \in States
  <2>. TAKE j \in 0 .. k
  <2>1. SubSeq(devs, 1, j) \in Seq(Sns)
    BY <1>2
  <2>2. t.devices \o SubSeq(devs, 1, j) \in Seq(Sns)
    BY <1>2, <2>1, ConcatProperties
  <2>. QED
    BY <2>1, <2>2, WithFacts
<1>6. U(0) = t /\ U(k) = With(t, t.devices \o devs)
  <2>1. SubSeq(devs, 1, 0) = <<>> /\ SubSeq(devs, 1, k) = devs
    BY <1>2
  <2>2. t.devices \o <<>> = t.devices
    BY <1>2, ConcatEmptySeq
  <2>. QED
    BY <2>1, <2>2, WithFacts
<1>7. \A j \in 1 .. k : U(j) = Applied(U(j - 1), [device |-> devs[j]]) /\ Shows(U(j - 1), U(j))
  <2>. TAKE j \in 1 .. k
  <2> DEFINE a == SubSeq(devs, 1, j - 1)
  <2>1. j - 1 \in 0 .. k /\ j \in 0 .. k
    BY <1>2
  <2>2. a \in Seq(Sns) /\ devs[j] \in Sns /\ U(j - 1) \in States
    BY <1>2, <1>5, <2>1
  <2>3. SubSeq(devs, 1, j) = Append(a, devs[j])
    BY <1>2, <2>1
  <2>4. U(j) = With(t, t.devices \o Append(a, devs[j]))
    BY <2>3
  <2>5. t.devices \o Append(a, devs[j]) = Append(t.devices \o a, devs[j])
    <3> HIDE DEF a
    <3>. QED
      BY <1>2, <2>2, ConcatAppend
  <2> HIDE DEF a
  <2>6. U(j - 1) = With(t, t.devices \o a)
    BY DEF a
  <2> HIDE DEF U
  <2>7. Applied(U(j - 1), [device |-> devs[j]])
          = With(U(j - 1), Append(U(j - 1).devices, devs[j]))
    BY <2>2, AppliedDevice
  <2>8. U(j - 1).devices = t.devices \o a
    <3>1. With(t, t.devices \o a).devices = t.devices \o a
      BY WithFacts
    <3>. QED
      BY <2>6, <3>1
  <2>9. With(U(j - 1), Append(t.devices \o a, devs[j])) = U(j)
    BY <2>4, <2>5, <2>6, WithFacts
  <2>10. Shows(U(j - 1), U(j))
    <3>1. U(j - 1).progress = t.progress /\ U(j).progress = t.progress /\ t.progress \in Nat
      BY <2>4, <2>6, WithFacts DEF States
    <3>. QED
      BY <3>1 DEF Shows
  <2>. QED
    BY <2>7, <2>8, <2>9, <2>10
<1> HIDE DEF n, k, r, U
<1> DEFINE E == [i \in 0 .. n + k |-> IF i <= n THEN D[i] ELSE U(i - n)]
<1>8. D[0] = s /\ D[n] = t
  BY <1>1 DEF Path, n
<1>9. \A i \in 0 .. n : E[i] = D[i]
  BY <1>2
<1>10. \A j \in 0 .. k : n + j \in 0 .. n + k /\ E[n + j] = U(j)
  <2>. TAKE j \in 0 .. k
  <2>1. n + j \in 0 .. n + k /\ (n + j <= n <=> j = 0) /\ (n + j) - n = j /\ n + 0 = n
    BY <1>2
  <2>. QED
    BY <1>6, <1>8, <2>1
<1>11. E \in [0 .. n + k -> States]
  <2>1. \A i \in 0 .. n + k : i \in 0 .. n \/ (i - n \in 0 .. k /\ ~(i <= n))
    BY <1>2
  <2>. QED
    BY <1>5, <2>1
<1> HIDE DEF E
<1>12. E[0] = s /\ E[n + k] = U(k)
  BY <1>2, <1>8, <1>9, <1>10
<1>13. \A i \in 1 .. n + k : E[i] = Applied(E[i - 1], r[i]) /\ Shows(E[i - 1], E[i])
  <2>. TAKE i \in 1 .. n + k
  <2>1. CASE i \in 1 .. n
    <3>1. i - 1 \in 0 .. n /\ i \in 0 .. n
      BY <1>2, <2>1
    <3>2. D[i] = Applied(D[i - 1], q[i]) /\ Shows(D[i - 1], D[i])
      BY <1>1, <2>1 DEF Path, n
    <3>. QED
      BY <1>4, <1>9, <2>1, <3>1, <3>2 DEF n, k, r
  <2>2. CASE i \notin 1 .. n
    <3> DEFINE j == i - n
    <3>1. j \in 1 .. k /\ j \in 0 .. k /\ j - 1 \in 0 .. k /\ n + j = i /\ n + (j - 1) = i - 1
      BY <1>2, <2>2
    <3> HIDE DEF j
    <3>2. E[i] = U(j) /\ E[i - 1] = U(j - 1)
      BY <1>10, <3>1
    <3>3. r[i] = [device |-> devs[j]]
      BY <1>4, <3>1 DEF n, k, r
    <3>. QED
      BY <1>7, <3>1, <3>2, <3>3 DEF k
  <2>. QED
    BY <2>1, <2>2
<1>14. Path(E, r, s, U(k))
  BY <1>4, <1>12, <1>13 DEF Path, Fine, n, k, r
<1>. QED
  BY <1>4, <1>6, <1>11, <1>14 DEF Leads, n, k, r, added
-----------------------------------------------------------------------------
(* What the tasks tell the manager                                         *)

\* l is the state to come: all of the queue leads to it, and it has the devices
\* the manager has found.
Told(m, l) == Leads(m.queue, state, l) /\ l.devices = m.found_devices

\* The failed ports of the scan are shown, and no error of an earlier one.
ErrorFits(m, l) ==
    /\ Errored(m) # {} => l.error = FailedScanError(Len(m.ports_errored))
    /\ Errored(m) = {} /\ ~scan.preserve => l.error = NoError

Idle(l) == l.scanning => l.progress = 0

\* Nothing is queued that has not been published, or something is.
Caught(m) == m.queue = <<>> => published = StateJson(state, m)

\* What the manager is while a scan has its ports
Kept(m) ==
    /\ m \in Managers
    /\ m.total_items # 0
    /\ Caught(m)
    /\ \E l \in States : Told(m, l) /\ ErrorFits(m, l)

\* Something more is told.
LEMMA Tells ==
    ASSUME state \in States, NEW m \in Managers, NEW n \in Managers, NEW event \in Events,
           n.queue = Append(m.queue, event), NEW l \in States, Told(m, l),
           Shows(l, Applied(l, event)), Fine(Applied(l, event)),
           Applied(l, event).devices = n.found_devices
    PROVE  Applied(l, event) \in States /\ Told(n, Applied(l, event)) /\ Caught(n)
<1>1. m.queue \in Seq(Events)
  BY DEF Managers
<1>2. Leads(n.queue, state, Applied(l, event))
  BY <1>1, LeadsPut DEF Told
<1>3. n.queue # <<>>
  BY <1>1, AppendProperties
<1>. QED
  BY <1>2, <1>3, AppliedType DEF Told, Caught

LEMMA ToldFine ==
    ASSUME NEW m \in Managers, NEW l, Told(m, l)
    PROVE  Fine(l)
  BY LeadsFine DEF Told, Managers

\* An item of a count that is not 0 has a percentage that is not 0.
LEMMA ProgressNotZero ==
    ASSUME NEW m \in Managers, m.total_items # 0
    PROVE  Progress(m) # 0
<1> DEFINE done == NextItem(m)
           total == m.total_items
<1>1. m.current_item \in Nat /\ total \in Nat \ {0}
  BY DEF Managers
<1>2. CASE m.current_item >= total
  BY <1>1, <1>2 DEF Progress
<1>3. CASE ~(m.current_item >= total)
  <2>1. done \in Nat /\ done >= 1
    BY <1>1, <1>3 DEF NextItem
  <2>2. \A a \in Nat, b \in Nat \ {0} : a >= b => a \div b >= 1
    OBVIOUS
  <2>3. 100 * done + total - 1 \in Nat /\ 100 * done + total - 1 >= total
    BY <1>1, <2>1
  <2>4. (100 * done + total - 1) \div total >= 1
    BY <1>1, <2>2, <2>3
  <2>5. Progress(m) = (100 * done + total - 1) \div total
    BY <1>1, <1>3 DEF Progress, Percent
  <2>. QED
    BY <2>4, <2>5
<1>. QED
  BY <1>2, <1>3

LEMMA AddScanningPortKept ==
    ASSUME state \in States, NEW m, Kept(m), NEW item \in Items, NEW ext \in BOOLEAN
    PROVE  /\ Kept(AddScanningPort(m, item, ext))
           /\ AddScanningPort(m, item, ext).found_devices = m.found_devices
<1> DEFINE n == AddScanningPort(m, item, ext)
           ref == Len(m.ports_now_scanning)
           event == [scanning_ports |-> ref, is_ext_scan |-> ext]
<1>1. m \in Managers /\ n \in Managers
  BY AddScanningPortType DEF Kept
<1>2. /\ n.queue = Append(m.queue, event) /\ n.found_devices = m.found_devices
      /\ n.total_items = m.total_items /\ n.ports_errored = m.ports_errored
  BY <1>1 DEF AddScanningPort, Put, Managers
<1>3. event \in Events
  BY <1>1, LastObjectReplaced DEF Managers, Events
<1>4. PICK l \in States : Told(m, l) /\ ErrorFits(m, l)
  BY DEF Kept
<1> DEFINE u == Applied(l, event)
<1>5. u.devices = l.devices /\ u.error = l.error /\ u.progress = l.progress
  BY DEF Applied, NewProgress
<1> HIDE DEF n, event, u
<1>6. Shows(l, u) /\ Fine(u)
  BY <1>1, <1>4, <1>5, ToldFine DEF Shows, Fine, States
<1>7. u \in States /\ Told(n, u) /\ Caught(n)
  BY <1>1, <1>2, <1>3, <1>4, <1>5, <1>6, Tells DEF Told, u
<1>8. ErrorFits(n, u)
  BY <1>2, <1>4, <1>5 DEF ErrorFits, Errored
<1>. QED
  BY <1>1, <1>2, <1>7, <1>8 DEF Kept, n

LEMMA RemoveScanningPortKept ==
    ASSUME state \in States, NEW m, Kept(m), NEW item \in Items
    PROVE  /\ Kept(RemoveScanningPort(m, item))
           /\ RemoveScanningPort(m, item).found_devices = m.found_devices
<1> DEFINE n == RemoveScanningPort(m, item)
           ref == Len(m.ports_now_scanning)
           event == [scanning_ports |-> ref, progress |-> Progress(m)]
<1>1. m \in Managers /\ n \in Managers
  BY RemoveScanningPortType DEF Kept
<1>2. /\ n.queue = Append(m.queue, event) /\ n.found_devices = m.found_devices
      /\ n.total_items = m.total_items /\ n.ports_errored = m.ports_errored
  BY <1>1 DEF RemoveScanningPort, Put, Managers
<1>3. event \in Events
  BY <1>1, LastObjectReplaced, ProgressType DEF Managers, Events
<1>4. Progress(m) \in Nat \ {0}
  BY <1>1, ProgressType, ProgressNotZero DEF Kept
<1>5. PICK l \in States : Told(m, l) /\ ErrorFits(m, l)
  BY DEF Kept
<1> DEFINE u == Applied(l, event)
<1>6. u.devices = l.devices /\ u.error = l.error
      /\ u.progress = IF Progress(m) > l.progress THEN Progress(m) ELSE l.progress
  BY <1>4 DEF Applied, NewProgress
<1> HIDE DEF n, event, u
<1>7. Shows(l, u) /\ Fine(u)
  BY <1>1, <1>4, <1>5, <1>6, ToldFine DEF Shows, Fine, States
<1>8. u \in States /\ Told(n, u) /\ Caught(n)
  BY <1>1, <1>2, <1>3, <1>5, <1>6, <1>7, Tells DEF Told, u
<1>9. ErrorFits(n, u)
  BY <1>2, <1>5, <1>6 DEF ErrorFits, Errored
<1>. QED
  BY <1>1, <1>2, <1>8, <1>9 DEF Kept, n

LEMMA AddErrorPortKept ==
    ASSUME state \in States, NEW m, Kept(m), NEW item \in Items
    PROVE  /\ Kept(AddErrorPort(m, item))
           /\ AddErrorPort(m, item).found_devices = m.found_devices
<1> DEFINE n == AddErrorPort(m, item)
           ref == Len(m.ports_errored)
           event == [error |-> FailedScanError(ref)]
<1>1. m \in Managers /\ n \in Managers
  BY AddErrorPortType DEF Kept
<1>2. m.ports_errored \in Objects /\ ref \in Nat \ {0}
  BY <1>1, LastObjectReplaced DEF Managers
<1>3. /\ n.queue = Append(m.queue, event) /\ n.found_devices = m.found_devices
      /\ n.total_items = m.total_items
      /\ n.ports_errored = [m.ports_errored EXCEPT ![ref] = @ \cup {item}]
  BY <1>1 DEF AddErrorPort, Put, Managers
<1>4. Len(n.ports_errored) = ref /\ item \in Errored(n)
  BY <1>2, <1>3 DEF Errored, Objects
<1>5. event \in Events
  BY <1>2 DEF Events, FailedScanError, Errors, ErrorIds
<1>6. PICK l \in States : Told(m, l) /\ ErrorFits(m, l)
  BY DEF Kept
<1> DEFINE u == Applied(l, event)
<1>7. u.devices = l.devices /\ u.error = FailedScanError(ref) /\ u.progress = l.progress
  BY DEF Applied, NewProgress
<1> HIDE DEF n, event, u, ref
<1>8. Shows(l, u) /\ Fine(u)
  BY <1>1, <1>6, <1>7, ToldFine DEF Shows, Fine, States
<1>9. u \in States /\ Told(n, u) /\ Caught(n)
  BY <1>1, <1>3, <1>5, <1>6, <1>7, <1>8, Tells DEF Told, u
<1>10. ErrorFits(n, u)
  BY <1>4, <1>7 DEF ErrorFits
<1>. QED
  BY <1>1, <1>3, <1>9, <1>10 DEF Kept, n

\* A device that the scanner has looked up, or of a fast scan
LEMMA FoundDeviceKept ==
    ASSUME state \in States, NEW m, Kept(m), NEW sn \in Sns, NoFast => ~IsDeviceFound(m, sn)
    PROVE  Kept(FoundDevice(m, sn))
<1> DEFINE n == FoundDevice(m, sn)
           event == [device |-> sn]
<1>1. m \in Managers /\ n \in Managers /\ m.found_devices \in Seq(Sns)
  BY FoundDeviceType DEF Kept, Managers
<1>2. /\ n.queue = Append(m.queue, event) /\ n.found_devices = Append(m.found_devices, sn)
      /\ n.total_items = m.total_items /\ n.ports_errored = m.ports_errored
  BY <1>1 DEF FoundDevice, Put, Managers
<1>3. event \in Events
  BY DEF Events
<1>4. PICK l \in States : Told(m, l) /\ ErrorFits(m, l)
  BY DEF Kept
<1> DEFINE u == Applied(l, event)
<1>5. u = With(l, Append(l.devices, sn))
  BY AppliedDevice
<1>6. /\ u.devices = Append(m.found_devices, sn) /\ u.error = l.error
      /\ u.progress = l.progress /\ l.devices = m.found_devices
  <2> HIDE DEF u
  <2>1. \A list : /\ With(l, list).devices = list /\ With(l, list).error = l.error
                  /\ With(l, list).progress = l.progress
    BY WithFacts
  <2>. QED
    BY <1>4, <1>5, <2>1 DEF Told
<1> HIDE DEF n, event, u
<1>7. Shows(l, u)
  BY <1>6 DEF Shows, States
<1>8. Fine(u)
  <2>. SUFFICES ASSUME NoFast, NEW i \in 1 .. Len(u.devices), NEW j \in 1 .. Len(u.devices),
                       u.devices[i] = u.devices[j]
                PROVE  i = j
    BY DEF Fine, Distinct
  <2>1. /\ \A k \in 1 .. Len(m.found_devices) : m.found_devices[k] # sn
        /\ Distinct(m.found_devices)
    BY <1>1, <1>4, <1>6, ToldFine DEF IsDeviceFound, Fine
  <2>. QED
    BY <1>1, <1>6, <2>1 DEF Distinct
<1>9. u \in States /\ Told(n, u) /\ Caught(n)
  BY <1>1, <1>2, <1>3, <1>4, <1>6, <1>7, <1>8, Tells DEF u
<1>10. ErrorFits(n, u)
  BY <1>2, <1>4, <1>6 DEF ErrorFits, Errored
<1>. QED
  BY <1>1, <1>2, <1>9, <1>10 DEF Kept, n

\* The devices of an answer of a fast scan, looked up or not
LEMMA FoundDevicesKept ==
    ASSUME ~NoFast, state \in States, NEW m, Kept(m), NEW devs \in Seq(Serials)
    PROVE  Kept(FoundDevices(m, devs))
<1> DEFINE n == FoundDevices(m, devs)
           added == [i \in 1 .. Len(devs) |-> [device |-> devs[i]]]
<1>1. m \in Managers /\ n \in Managers /\ m.queue \in Seq(Events)
  BY FoundDevicesType DEF Kept, Managers
<1>2. /\ n.queue = m.queue \o added /\ n.found_devices = m.found_devices \o devs
      /\ n.total_items = m.total_items /\ n.ports_errored = m.ports_errored
      /\ n.ports_now_scanning = m.ports_now_scanning
  BY <1>1 DEF FoundDevices, Managers
<1>3. devs \in Seq(Sns)
  BY DEF Sns
<1>4. PICK l \in States : Told(m, l) /\ ErrorFits(m, l)
  BY DEF Kept
<1> DEFINE u == With(l, l.devices \o devs)
<1>5. Leads(n.queue, state, u)
  BY <1>1, <1>2, <1>3, <1>4, LeadsDevices DEF Told
<1>6. u \in States
  <2>1. l.devices \o devs \in Seq(Sns)
    BY <1>3, ConcatProperties DEF States
  <2>. QED
    BY <2>1, WithFacts
<1>7. u.devices = l.devices \o devs /\ u.error = l.error
  BY WithFacts
<1>8. Caught(n)
  <2>. SUFFICES ASSUME n.queue = <<>> PROVE published = StateJson(state, n)
    BY DEF Caught
  <2>1. added \in Seq(Events)
    <3>1. \A i \in 1 .. Len(devs) : [device |-> devs[i]] \in Events
      BY <1>3 DEF Events
    <3>2. Len(devs) \in Nat
      OBVIOUS
    <3>. QED
      BY <3>1, <3>2
  <2> HIDE DEF added
  <2>2. m.queue = <<>>
    BY <1>1, <1>2, <2>1, ConcatEqualIffEmpty
  <2>3. StateJson(state, n) = StateJson(state, m)
    BY <1>2 DEF StateJson
  <2>. QED
    BY <2>2, <2>3 DEF Kept, Caught
<1> HIDE DEF n, u
<1>9. Told(n, u) /\ ErrorFits(n, u)
  BY <1>2, <1>4, <1>5, <1>7 DEF Told, ErrorFits, Errored
<1>. QED
  BY <1>1, <1>2, <1>6, <1>8, <1>9 DEF Kept, n
-----------------------------------------------------------------------------
(* The step of a port task                                                 *)

\* The device a bootloader scan is about to report is not found yet.
LookedUp(m, t, p) ==
    NoFast /\ t.pc # "done" /\ t.kind = "boot" /\ t.stage = "read_signature"
        => ~IsDeviceFound(m, BootSn(t, p))

TasksFit == \A p \in Ports : Alive(p) => /\ tasks[p].kind = scan.kind
                                         /\ LookedUp(mgr, tasks[p], p)

\* On to another request, not the one for a signature, or to the end
GoodTurn(step, t) ==
    /\ Kept(step.mgr)
    /\ step.task.pc # "done" => /\ step.task.kind = t.kind
                                /\ step.task.stage # "read_signature"

\* What the step of the task of p keeps
FitStep(step, p) ==
    /\ Kept(step.mgr)
    /\ step.task.pc # "done" => step.task.kind = scan.kind
    /\ LookedUp(step.mgr, step.task, p)
    /\ \A q \in Ports : q # p /\ Alive(q) => LookedUp(step.mgr, tasks[q], q)

LEMMA AsksFacts ==
    ASSUME NEW t \in Tasks, NEW turn, NEW stage
    PROVE  /\ Asks(t, turn, stage).kind = t.kind
           /\ Asks(t, turn, stage).stage = stage
           /\ Asks(t, turn, stage).unit = t.unit
           /\ Asks(t, turn, stage).turn = turn
  BY DEF Asks, Tasks

LEMMA FirstStageFacts ==
    ASSUME NEW kind \in Kinds
    PROVE  FirstStage(kind) # "read_signature"
  BY DEF FirstStage, Kinds

LEMMA BeginUnitKept ==
    ASSUME state \in States, NEW m, Kept(m), NEW t \in Tasks, NEW p \in Ports,
           NEW unit \in 1 .. Units(t, p)
    PROVE  /\ GoodTurn(BeginUnit(m, t, p, unit), t)
           /\ BeginUnit(m, t, p, unit).mgr.found_devices = m.found_devices
<1> DEFINE u == [t EXCEPT !.unit = unit]
           added == AddScanningPort(m, Item(u, p), t.kind = "fast")
<1>1. Units(t, p) \in Nat
  BY StateConstants, TaskConstants DEF Units
<1>2. u \in Tasks /\ u.unit = unit /\ u.kind = t.kind /\ u.ooo = t.ooo
  BY <1>1 DEF Tasks
<1>3. u.unit \in 1 .. Units(u, p)
  BY <1>2 DEF Units
<1>4. Item(u, p) \in Items
  BY <1>2, <1>3, UnitFacts
<1>5. Kept(added) /\ added.found_devices = m.found_devices
  BY <1>4, AddScanningPortKept
<1>6. /\ BeginUnit(m, t, p, unit).mgr = added
      /\ BeginUnit(m, t, p, unit).task = Asks(u, FirstTurn(u, p), FirstStage(t.kind))
  BY DEF BeginUnit
<1>7. FirstStage(t.kind) # "read_signature"
  BY FirstStageFacts DEF Tasks
<1> HIDE DEF u, added
<1>. QED
  BY <1>2, <1>5, <1>6, <1>7, AsksFacts DEF GoodTurn

LEMMA EndUnitKept ==
    ASSUME state \in States, NEW m, Kept(m), NEW t \in Tasks, NEW p \in Ports,
           t.unit \in 1 .. Units(t, p)
    PROVE  /\ GoodTurn(EndUnit(m, t, p), t)
           /\ EndUnit(m, t, p).mgr.found_devices = m.found_devices
<1> DEFINE left == RemoveScanningPort(m, Item(t, p))
<1>1. Kept(left) /\ left.found_devices = m.found_devices
  BY UnitFacts, RemoveScanningPortKept
<1>2. Units(t, p) \in Nat
  BY StateConstants, TaskConstants DEF Units
<1>3. CASE t.unit < Units(t, p)
  <2>1. t.unit + 1 \in 1 .. Units(t, p)
    BY <1>2, <1>3
  <2>2. EndUnit(m, t, p) = BeginUnit(left, t, p, t.unit + 1)
    BY <1>3 DEF EndUnit
  <2> HIDE DEF left
  <2>. QED
    BY <1>1, <2>1, <2>2, BeginUnitKept
<1>4. CASE ~(t.unit < Units(t, p))
  BY <1>1, <1>4, DoneTaskGood DEF EndUnit, GoodTurn
<1>. QED
  BY <1>3, <1>4

LEMMA NextTurnKept ==
    ASSUME state \in States, NEW m, Kept(m), NEW t \in Tasks, NEW p \in Ports,
           t.unit \in 1 .. Units(t, p)
    PROVE  /\ GoodTurn(NextTurn(m, t, p), t)
           /\ NextTurn(m, t, p).mgr.found_devices = m.found_devices
<1>1. CASE t.turn < LastTurn(t, p)
  <2>1. /\ NextTurn(m, t, p).mgr = m
        /\ NextTurn(m, t, p).task = Asks(t, t.turn + 1, FirstStage(t.kind))
    BY <1>1 DEF NextTurn
  <2>2. FirstStage(t.kind) # "read_signature"
    BY FirstStageFacts DEF Tasks
  <2>. QED
    BY <2>1, <2>2, AsksFacts DEF GoodTurn
<1>2. CASE ~(t.turn < LastTurn(t, p))
  BY <1>2, EndUnitKept DEF NextTurn
<1>. QED
  BY <1>1, <1>2

\* A step that finds nothing new to a bootloader scan
LEMMA GoodTurnFits ==
    ASSUME NEW p \in Ports, Alive(p), TasksFit, NEW step, GoodTurn(step, tasks[p]),
           scan.kind # "boot" \/ step.mgr.found_devices = mgr.found_devices
    PROVE  FitStep(step, p)
<1>1. LookedUp(step.mgr, step.task, p)
  BY DEF GoodTurn, LookedUp
<1>2. ASSUME NEW q \in Ports, Alive(q)
      PROVE  LookedUp(step.mgr, tasks[q], q)
  BY <1>2 DEF TasksFit, LookedUp, IsDeviceFound
<1>. QED
  BY <1>1, <1>2 DEF GoodTurn, FitStep, TasksFit

\* A step that tells nothing and asks again, or ends the task
LEMMA SilentFits ==
    ASSUME NEW p \in Ports, Kept(mgr), TasksFit, NEW task,
           task.pc # "done" => task.kind = scan.kind /\ LookedUp(mgr, task, p)
    PROVE  FitStep([mgr |-> mgr, task |-> task], p)
<1>1. LookedUp(mgr, task, p)
  BY DEF LookedUp
<1>. QED
  BY <1>1 DEF FitStep, TasksFit

LEMMA FastStepFits ==
    ASSUME StateTypeOK, TaskTypeOK, TasksInRange, Kept(mgr), TasksFit,
           NEW p \in Ports, NoFast => scan.kind # "fast", FastStep(p)
    PROVE  \E step : Moves(p, step) /\ FitStep(step, p)
<1> DEFINE t == tasks[p]
<1>1. t \in Tasks /\ state \in States
  BY DEF StateTypeOK, TaskTypeOK
<1>2. t.pc = "rpc" /\ t.kind = "fast"
  BY DEF FastStep, FastFindsNothing, FastFinds, FastFindsAndFails, FastFails,
         FastCancelled, Waits
<1>3. Alive(p) /\ scan.kind = "fast" /\ ~NoFast
  BY <1>2 DEF Alive, TasksFit
<1>4. t.unit \in 1 .. Units(t, p) /\ Item(t, p) \in Items
  BY <1>1, <1>2, UnitFacts DEF TasksInRange, TaskInRange
<1>5. \A m : Kept(m) => GoodTurn(EndUnit(m, t, p), t) /\ GoodTurn(FailedUnit(m, t, p), t)
  BY <1>1, <1>4, EndUnitKept, AddErrorPortKept DEF FailedUnit
<1>6. \A devs \in FastReplies : Kept(FoundDevices(mgr, devs))
  BY <1>1, <1>3, FoundDevicesKept, FastConstants
<1>7. \A step : GoodTurn(step, t) => FitStep(step, p)
  BY <1>3, GoodTurnFits
<1>8. CASE FastFindsNothing(p)
  BY <1>5, <1>7, <1>8 DEF FastFindsNothing
<1>9. CASE FastFinds(p)
  <2>1. PICK devs \in FastReplies \ {<<>>} :
            Moves(p, [mgr |-> FoundDevices(mgr, devs), task |-> Asks(t, t.turn + 1, "scan")])
    BY <1>9 DEF FastFinds
  <2> DEFINE step == [mgr |-> FoundDevices(mgr, devs), task |-> Asks(t, t.turn + 1, "scan")]
  <2>2. GoodTurn(step, t)
    BY <1>1, <1>6, AsksFacts DEF GoodTurn
  <2>. QED
    BY <1>7, <2>1, <2>2
<1>10. CASE FastFindsAndFails(p)
  BY <1>5, <1>6, <1>7, <1>10 DEF FastFindsAndFails
<1>11. CASE FastFails(p)
  BY <1>5, <1>7, <1>11 DEF FastFails
<1>12. CASE FastCancelled(p)
  BY <1>12, SilentFits, DoneTaskGood DEF FastCancelled
<1>. QED
  BY <1>8, <1>9, <1>10, <1>11, <1>12 DEF FastStep

LEMMA SlowStepFits ==
    ASSUME StateTypeOK, TaskTypeOK, TasksInRange, Kept(mgr), TasksFit,
           NEW p \in Ports, SlowStep(p)
    PROVE  \E step : Moves(p, step) /\ FitStep(step, p)
<1> DEFINE t == tasks[p]
           item == Item(t, p)
<1>1. t \in Tasks /\ state \in States
  BY DEF StateTypeOK, TaskTypeOK
<1>2. t.pc = "rpc" /\ t.kind = "slow"
  BY DEF SlowStep, SlowFinds, SlowFindsNothing, SlowFails, SlowCancelled, Waits
<1>3. Alive(p) /\ scan.kind = "slow"
  BY <1>2 DEF Alive, TasksFit
<1>4. t.unit \in 1 .. Units(t, p) /\ item \in Items
  BY <1>1, <1>2, UnitFacts DEF TasksInRange, TaskInRange
<1>5. \A m : Kept(m) => GoodTurn(NextTurn(m, t, p), t)
  BY <1>1, <1>4, NextTurnKept
<1>6. \A step : GoodTurn(step, t) => FitStep(step, p)
  BY <1>3, GoodTurnFits
<1>7. \A m : Kept(m) => GoodTurn([mgr |-> RemoveScanningPort(m, item), task |-> DoneTask], t)
  BY <1>1, <1>4, RemoveScanningPortKept, DoneTaskGood DEF GoodTurn
<1>8. CASE SlowFinds(p)
  <2>1. PICK sn \in Serials :
            Moves(p, NextTurn(IF IsDeviceFound(mgr, sn) THEN mgr ELSE FoundDevice(mgr, sn),
                              t, p))
    BY <1>8 DEF SlowFinds
  <2>2. ~IsDeviceFound(mgr, sn) => Kept(FoundDevice(mgr, sn))
    BY <1>1, FoundDeviceKept DEF Sns
  <2>. QED
    BY <1>5, <1>6, <2>1, <2>2
<1>9. CASE SlowFindsNothing(p)
  BY <1>5, <1>6, <1>9 DEF SlowFindsNothing
<1>10. CASE SlowFails(p)
  <2>1. Kept(AddErrorPort(mgr, item))
    BY <1>1, <1>4, AddErrorPortKept
  <2>. QED
    BY <1>6, <1>7, <1>10, <2>1 DEF SlowFails
<1>11. CASE SlowCancelled(p)
  BY <1>6, <1>7, <1>11 DEF SlowCancelled
<1>. QED
  BY <1>8, <1>9, <1>10, <1>11 DEF SlowStep

LEMMA BootStepFits ==
    ASSUME StateTypeOK, TaskTypeOK, TasksInRange, Kept(mgr), TasksFit,
           NEW p \in Ports, BootStep(p)
    PROVE  \E step : Moves(p, step) /\ FitStep(step, p)
<1> DEFINE t == tasks[p]
           sn == BootSn(t, p)
<1>1. t \in Tasks /\ state \in States
  BY DEF StateTypeOK, TaskTypeOK
<1>2. t.pc = "rpc" /\ t.kind = "boot"
  BY DEF BootStep, BootReadsFull, BootReadsNoFull, BootReadsShort, BootIsSilent,
         BootReadsSignature, BootFails, BootCancelled, BootWaits, Waits
<1>3. Alive(p) /\ scan.kind = "boot"
  BY <1>2 DEF Alive, TasksFit
<1>4. t.unit \in 1 .. Units(t, p) /\ t.turn \in 1 .. LastTurn(t, p)
  BY <1>1, <1>2 DEF TasksInRange, TaskInRange
<1>5. Item(t, p) \in Items /\ t.turn \in 1 .. NumIds
  BY <1>1, <1>4, UnitFacts, StateConstants
<1>6. \A m : Kept(m) => /\ GoodTurn(NextTurn(m, t, p), t)
                        /\ NextTurn(m, t, p).mgr.found_devices = m.found_devices
  BY <1>1, <1>4, NextTurnKept
<1>7. \A step : GoodTurn(step, t) /\ step.mgr.found_devices = mgr.found_devices
                    => FitStep(step, p)
  BY <1>3, GoodTurnFits
<1>8. BootSkips(p) => \E step : Moves(p, step) /\ FitStep(step, p)
  BY <1>6, <1>7 DEF BootSkips
<1>9. ASSUME NEW stage, stage = "read_signature" => ~IsDeviceFound(mgr, sn), BootAsks(p, stage)
      PROVE  \E step : Moves(p, step) /\ FitStep(step, p)
  <2> DEFINE task == Asks(t, t.turn, stage)
  <2>1. /\ task.kind = t.kind /\ task.stage = stage
        /\ task.unit = t.unit /\ task.turn = t.turn
    BY <1>1, AsksFacts
  <2>2. BootSn(task, p) = sn
    BY <2>1 DEF BootSn, Item
  <2>3. task.kind = scan.kind /\ LookedUp(mgr, task, p)
    BY <1>2, <1>3, <1>9, <2>1, <2>2 DEF LookedUp
  <2> HIDE DEF task
  <2>4. FitStep([mgr |-> mgr, task |-> task], p)
    BY <2>3, SilentFits
  <2>. QED
    BY <1>9, <2>4 DEF BootAsks, task
<1>10. ASSUME BootFinds(p), t.stage = "read_signature"
       PROVE  \E step : Moves(p, step) /\ FitStep(step, p)
  <2> DEFINE m == FoundDevice(mgr, sn)
             step == NextTurn(m, t, p)
  <2>1. sn \in Sns
    BY <1>5 DEF BootSn, Sns
  <2>2. NoFast => ~IsDeviceFound(mgr, sn)
    BY <1>2, <1>3, <1>10 DEF TasksFit, LookedUp
  <2>3. Kept(m)
    BY <1>1, <2>1, <2>2, FoundDeviceKept
  <2>4. m.found_devices = Append(mgr.found_devices, sn) /\ mgr.found_devices \in Seq(Sns)
    BY DEF FoundDevice, Put, StateTypeOK, Managers
  <2>5. GoodTurn(step, t) /\ step.mgr.found_devices = Append(mgr.found_devices, sn)
    BY <1>6, <2>3, <2>4
  <2> HIDE DEF step, m
  <2>6. ASSUME NEW q \in Ports, q # p, Alive(q)
        PROVE  LookedUp(step.mgr, tasks[q], q)
    <3>1. BootSn(tasks[q], q) # sn
      BY <2>6 DEF BootSn, Item
    <3>2. LookedUp(mgr, tasks[q], q)
      BY <2>6 DEF TasksFit
    <3>. QED
      BY <2>4, <2>5, <3>1, <3>2 DEF LookedUp, IsDeviceFound
  <2>7. FitStep(step, p)
    BY <1>2, <1>3, <2>5, <2>6 DEF FitStep, GoodTurn, LookedUp
  <2>. QED
    BY <1>10, <2>7 DEF BootFinds, step, m
<1>11. CASE BootReadsFull(p)
  BY <1>9, <1>11 DEF BootReadsFull
<1>12. CASE BootReadsNoFull(p) \/ BootReadsShort(p)
  BY <1>8, <1>12 DEF BootReadsNoFull, BootReadsShort
<1>13. CASE BootIsSilent(p)
  BY <1>8, <1>9, <1>13 DEF BootIsSilent
<1>14. CASE BootReadsSignature(p)
  BY <1>10, <1>14 DEF BootReadsSignature, BootWaits
<1>15. CASE BootFails(p)
  <2> DEFINE m == AddErrorPort(mgr, Item(t, p))
  <2>1. Kept(m) /\ m.found_devices = mgr.found_devices
    BY <1>1, <1>5, AddErrorPortKept
  <2>2. GoodTurn(NextTurn(m, t, p), t)
        /\ NextTurn(m, t, p).mgr.found_devices = mgr.found_devices
    BY <1>6, <2>1
  <2>. QED
    BY <1>7, <1>15, <2>2 DEF BootFails
<1>16. CASE BootCancelled(p)
  BY <1>16, SilentFits, DoneTaskGood DEF BootCancelled
<1>. QED
  BY <1>11, <1>12, <1>13, <1>14, <1>15, <1>16 DEF BootStep

LEMMA PortStepFits ==
    ASSUME StateTypeOK, TaskTypeOK, TasksInRange, Kept(mgr), TasksFit,
           NEW p \in Ports, NoFast => scan.kind # "fast", PortStep(p)
    PROVE  \E step : Moves(p, step) /\ FitStep(step, p)
<1> DEFINE t == tasks[p]
<1>1. CASE FirstStep(p)
  <2>1. t \in Tasks /\ state \in States /\ t.pc = "new" /\ Alive(p)
    BY <1>1 DEF StateTypeOK, TaskTypeOK, FirstStep, Alive
  <2>2. 1 \in 1 .. Units(t, p)
    BY StateConstants, TaskConstants DEF Units
  <2>3. /\ GoodTurn(BeginUnit(mgr, t, p, 1), t)
        /\ BeginUnit(mgr, t, p, 1).mgr.found_devices = mgr.found_devices
    BY <2>1, <2>2, BeginUnitKept
  <2>4. FitStep(BeginUnit(mgr, t, p, 1), p)
    BY <2>1, <2>3, GoodTurnFits
  <2>5. FitStep([mgr |-> mgr, task |-> DoneTask], p)
    BY SilentFits, DoneTaskGood
  <2>. QED
    BY <1>1, <2>4, <2>5 DEF FirstStep
<1>. QED
  BY <1>1, FastStepFits, SlowStepFits, BootStepFits DEF PortStep
-----------------------------------------------------------------------------
(* The step of the scan task                                               *)

LEMMA ResetTold ==
    ASSUME state \in States, scan \in ScanRecords, NEW m \in Managers, NEW l \in States,
           Told(m, l), Idle(l)
    PROVE  LET n == Reset(m, scan.preserve)
           IN  /\ n \in Managers /\ Caught(n)
               /\ \E u \in States : Told(n, u) /\ Idle(u) /\ ErrorFits(n, u)
<1> DEFINE n == Reset(m, scan.preserve)
           event == StartEvent(scan.preserve)
           u == Applied(l, event)
<1>1. scan.preserve \in BOOLEAN
  BY DEF ScanRecords
<1>2. n \in Managers /\ event \in Events
  BY <1>1, ResetType, ErrorsType DEF StartEvent, Events
<1>3. /\ n.queue = Append(m.queue, event)
      /\ n.found_devices = IF scan.preserve THEN m.found_devices ELSE <<>>
      /\ n.ports_errored = Append(m.ports_errored, {})
  BY DEF Reset, Put, Managers
<1>4. Errored(n) = {}
  BY <1>3 DEF Errored, Managers, Objects
<1>5. /\ u.scanning = TRUE /\ u.progress = 0
      /\ u.devices = IF scan.preserve THEN l.devices ELSE <<>>
      /\ ~scan.preserve => u.error = NoError
  <2>1. CASE scan.preserve
    BY <2>1 DEF Applied, NewProgress, StartEvent
  <2>2. CASE ~scan.preserve
    BY <2>2 DEF Applied, NewProgress, StartEvent
  <2>. QED
    BY <2>1, <2>2
<1> HIDE DEF n, event, u
<1>6. Shows(l, u)
  BY <1>5 DEF Shows, Idle
<1>7. Fine(u)
  BY <1>5, ToldFine DEF Fine, Distinct
<1>8. u \in States /\ Told(n, u) /\ Caught(n)
  BY <1>2, <1>3, <1>5, <1>6, <1>7, Tells DEF Told, u
<1>9. Idle(u) /\ ErrorFits(n, u)
  BY <1>4, <1>5 DEF Idle, ErrorFits
<1>. QED
  BY <1>2, <1>8, <1>9 DEF n

LEMMA FinishedTold ==
    ASSUME state \in States, NEW m \in Managers, NEW error \in Errors, NEW l \in States,
           Told(m, l)
    PROVE  LET n == ScanFinished(m, error)
           IN  Caught(n) /\ \E u \in States : Told(n, u) /\ Idle(u)
<1> DEFINE n == ScanFinished(m, error)
           event == FinishedEvent(error)
           u == Applied(l, event)
<1>1. n \in Managers /\ event \in Events
  BY ScanFinishedType DEF FinishedEvent, Events
<1>2. n.queue = Append(m.queue, event) /\ n.found_devices = m.found_devices
  BY DEF ScanFinished, Put, Managers
<1>3. u.scanning = FALSE /\ u.devices = l.devices
  BY DEF Applied, FinishedEvent
<1> HIDE DEF n, event, u
<1>4. Shows(l, u) /\ Idle(u) /\ Fine(u)
  BY <1>3, ToldFine DEF Shows, Idle, Fine
<1>5. u \in States /\ Told(n, u) /\ Caught(n)
  BY <1>1, <1>2, <1>3, <1>4, Tells DEF Told, u
<1>. QED
  BY <1>4, <1>5 DEF n

LEMMA CompleteTold ==
    ASSUME state \in States, NEW m \in Managers, NEW l \in States,
           Told(m, l), ErrorFits(m, l)
    PROVE  LET n == ScanComplete(m)
           IN  /\ n \in Managers /\ Caught(n)
               /\ \E u \in States : Told(n, u) /\ Idle(u) /\ ErrorFits(n, u)
<1> DEFINE k == Put(m, CompleteEvent)
           n == Put(k, IdleEvent)
           v == Applied(l, CompleteEvent)
           u == Applied(v, IdleEvent)
<1>1. CompleteEvent \in Events /\ IdleEvent \in Events
  BY DEF CompleteEvent, IdleEvent, Events
<1>2. k \in Managers /\ n \in Managers
  BY <1>1, PutType
<1>3. /\ k.queue = Append(m.queue, CompleteEvent)
      /\ k.found_devices = m.found_devices /\ k.ports_errored = m.ports_errored
  BY DEF Put, Managers
<1>4. /\ n.queue = Append(k.queue, IdleEvent)
      /\ n.found_devices = k.found_devices /\ n.ports_errored = k.ports_errored
  BY <1>2 DEF Put, Managers
<1>5. v.devices = l.devices /\ v.error = l.error /\ v.progress >= l.progress
  BY DEF Applied, NewProgress, CompleteEvent, States
<1>6. u.devices = v.devices /\ u.error = v.error /\ u.scanning = FALSE
  BY DEF Applied, IdleEvent
<1> HIDE DEF k, n, u, v
<1>7. Shows(l, v) /\ Fine(v)
  BY <1>5, ToldFine DEF Shows, Fine
<1>8. v \in States /\ Told(k, v)
  BY <1>1, <1>2, <1>3, <1>5, <1>7, Tells DEF Told, v
<1>9. Shows(v, u) /\ Fine(u) /\ Idle(u)
  BY <1>6, <1>7 DEF Shows, Fine, Idle
<1>10. u \in States /\ Told(n, u) /\ Caught(n)
  BY <1>1, <1>2, <1>4, <1>6, <1>8, <1>9, Tells DEF Told, u
<1>11. ErrorFits(n, u)
  BY <1>3, <1>4, <1>5, <1>6 DEF ErrorFits, Errored
<1>12. n = ScanComplete(m)
  BY DEF ScanComplete, n, k
<1>. QED
  BY <1>2, <1>9, <1>10, <1>11, <1>12

\* What a step of the scan task keeps
FitScanStep(step) ==
    /\ Caught(step.mgr)
    /\ step.scan.preserve = scan.preserve /\ step.scan.type = scan.type
    /\ step.scan.pc = "gather" => step.mgr.total_items # 0
    /\ NoFast /\ step.scan.pc = "gather" => step.scan.kind # "fast"
    /\ \A p \in Ports : step.tasks[p].pc # "done" => /\ step.tasks[p].kind = step.scan.kind
                                                     /\ step.tasks[p].stage # "read_signature"
    /\ \E l \in States :
           /\ Told(step.mgr, l)
           /\ step.scan.pc # "gather" => Idle(l)
           /\ step.scan.pc \in {"ports", "gather"} \/ step.result = "complete"
                  => ErrorFits(step.mgr, l)

LEMMA FinishesFits ==
    ASSUME TypeOK, AllDone, NEW m, NEW result, Caught(m), NEW l \in States, Told(m, l), Idle(l),
           result = "complete" => ErrorFits(m, l)
    PROVE  FitScanStep(Finishes(m, result))
<1> DEFINE step == Finishes(m, result)
<1>1. /\ step.mgr = m /\ step.tasks = tasks /\ step.result = result
      /\ step.scan.pc = "done" /\ step.scan.preserve = scan.preserve
      /\ step.scan.type = scan.type
  BY DEF Finishes, TypeOK, ScanRecords
<1>. QED
  BY <1>1 DEF FitScanStep, AllDone, Alive

LEMMA GathersFits ==
    ASSUME TypeOK, NEW m, NEW kind \in Kinds, NEW ports, NoFast => kind # "fast", Caught(m),
           m.total_items # 0, NEW l \in States, Told(m, l), ErrorFits(m, l)
    PROVE  FitScanStep(Gathers(m, kind, ports))
<1> DEFINE step == Gathers(m, kind, ports)
<1>1. /\ step.mgr = m /\ step.result = "running"
      /\ step.scan.pc = "gather" /\ step.scan.preserve = scan.preserve
      /\ step.scan.type = scan.type /\ step.scan.kind = kind
  BY DEF Gathers, TypeOK, ScanRecords
<1>2. ASSUME NEW p \in Ports, step.tasks[p].pc # "done"
      PROVE  step.tasks[p].kind = kind /\ step.tasks[p].stage # "read_signature"
  BY <1>2, DoneTaskGood DEF Gathers, NewTask
<1>. QED
  BY <1>1, <1>2 DEF FitScanStep

LEMMA ScansFits ==
    ASSUME TypeOK, AllDone, NEW m \in Managers, NEW ports \in SUBSET Ports, Caught(m),
           NoFast => scan.type \in {"standard", "bootloader"},
           NEW l \in States, Told(m, l), Idle(l), ErrorFits(m, l)
    PROVE  FitScanStep(Scans(m, ports))
<1>1. scan \in ScanRecords /\ state \in States
  BY DEF TypeOK, StateTypeOK
<1>2. CASE ItemsCount(ports) > 0
  <2> DEFINE n == SetScanItemsCount(m, ItemsCount(ports))
  <2>1. ItemsCount(ports) \in Nat
    BY <1>1, ItemsCountType
  <2>2. /\ n.queue = m.queue /\ n.found_devices = m.found_devices
        /\ n.ports_errored = m.ports_errored /\ n.total_items # 0
        /\ n.ports_now_scanning = m.ports_now_scanning
    BY <1>2, <2>1 DEF SetScanItemsCount, Managers
  <2> HIDE DEF n
  <2>3. Caught(n) /\ Told(n, l) /\ ErrorFits(n, l)
    BY <2>2 DEF Caught, StateJson, Told, ErrorFits, Errored
  <2>4. FirstKind \in Kinds /\ (NoFast => FirstKind # "fast")
    BY <1>1 DEF FirstKind, Kinds, ScanRecords
  <2>5. FitScanStep(Gathers(n, FirstKind, ports))
    BY <2>2, <2>3, <2>4, GathersFits
  <2>. QED
    BY <1>2, <2>5 DEF Scans, n
<1>3. FitScanStep(Finishes(ScanFinished(m, GenericError), "failed"))
  <2>1. /\ Caught(ScanFinished(m, GenericError))
        /\ \E u \in States : Told(ScanFinished(m, GenericError), u) /\ Idle(u)
    BY <1>1, ErrorsType, FinishedTold
  <2>. QED
    BY <2>1, FinishesFits
<1>4. FitScanStep(Finishes(ScanComplete(m), "complete"))
  <2>1. /\ Caught(ScanComplete(m))
        /\ \E u \in States : /\ Told(ScanComplete(m), u) /\ Idle(u)
                             /\ ErrorFits(ScanComplete(m), u)
    BY <1>1, CompleteTold
  <2>. QED
    BY <2>1, FinishesFits
<1>. QED
  BY <1>2, <1>3, <1>4 DEF Scans
-----------------------------------------------------------------------------
(* The inductive invariant                                                 *)

\* What is shown is what the state says, when the consumer has shown it.
ShownState == /\ published.progress = state.progress
              /\ published.scanning = state.scanning
              /\ published.devices = state.devices

\* Where the queue leads: a scan that has not begun its work finds no progress
\* shown for one that runs, and one with its ports the errors of its own.
QueueLeads ==
    \E l \in States :
        /\ Told(mgr, l)
        /\ scan.pc # "gather" => Idle(l)
        /\ scan.pc \in {"ports", "gather"} \/ Ended({"complete"}) => ErrorFits(mgr, l)

NoFastScan == NoFast => /\ scan.pc = "none" \/ scan.type \in {"standard", "bootloader"}
                        /\ scan.pc = "gather" => scan.kind # "fast"

QInv ==
    /\ IInv
    /\ Caught(mgr)
    /\ ShownState
    /\ scan.pc = "gather" => mgr.total_items # 0
    /\ QueueLeads
    /\ NoFastScan
    /\ TasksFit

LEMMA InitQInv == Init => QInv
<1>. SUFFICES ASSUME Init PROVE QInv
  OBVIOUS
<1>1. IInv
  BY InitIInv
<1>2. /\ mgr.queue = <<>> /\ mgr.found_devices = <<>> /\ state \in States
      /\ state.devices = <<>> /\ state.scanning = FALSE
      /\ published = StateJson(state, mgr) /\ scan.pc = "none"
  BY <1>1 DEF Init, StateInit, NoScan, IInv, TypeOK, StateTypeOK
<1>3. Fine(state)
  BY <1>2 DEF Fine, Distinct
<1>4. QueueLeads
  <2>1. Told(mgr, state) /\ Idle(state)
    BY <1>2, <1>3, LeadsNil DEF Told, Idle
  <2>. QED
    BY <1>2, <2>1 DEF QueueLeads, Ended
<1>5. TasksFit
  BY DoneTaskGood DEF Init, TaskInit, TasksFit, Alive
<1>. QED
  BY <1>1, <1>2, <1>4, <1>5 DEF QInv, Caught, ShownState, StateJson, NoFastScan

\* What the consumer shows is the next state on the way.
LEMMA ConsumeShows ==
    ASSUME QInv, Consume
    PROVE  /\ ShownState' /\ Shows(state, state')
           /\ Caught(mgr)' /\ \A l \in States : Told(mgr, l) => Told(mgr, l)'
<1>1. /\ mgr \in Managers /\ mgr.queue \in Seq(Events) /\ mgr.queue # <<>> /\ state \in States
  BY DEF QInv, IInv, TypeOK, StateTypeOK, Consume, Managers
<1>2. /\ state' = Applied(state, Head(mgr.queue))
      /\ published' = StateJson(state', mgr)
      /\ mgr'.queue = Tail(mgr.queue) /\ mgr'.found_devices = mgr.found_devices
      /\ mgr'.ports_now_scanning = mgr.ports_now_scanning
      /\ mgr'.ports_errored = mgr.ports_errored
  BY <1>1 DEF Consume, Managers
<1>3. \A l \in States : Told(mgr, l) => Shows(state, state') /\ Told(mgr, l)'
  BY <1>1, <1>2, LeadsConsume DEF Told
<1>4. PICK l \in States : Told(mgr, l)
  BY DEF QInv, QueueLeads
<1>5. Shows(state, state')
  BY <1>3, <1>4
<1>. QED
  BY <1>2, <1>3, <1>5 DEF ShownState, StateJson, Caught

LEMMA ConsumerQInv ==
    ASSUME QInv, IInv', (ConsumerStarts \/ Consume) /\ UNCHANGED <<tasks, scanVars>>
    PROVE  QInv'
<1>1. UNCHANGED <<tasks, scan, ends, awaits, reply>>
  BY DEF scanVars
<1>2. /\ mgr'.found_devices = mgr.found_devices /\ mgr'.total_items = mgr.total_items
      /\ mgr'.ports_errored = mgr.ports_errored
      /\ \A l \in States : Told(mgr, l) => Told(mgr, l)'
      /\ Caught(mgr)' /\ ShownState'
  <2>1. CASE ConsumerStarts
    BY <2>1 DEF ConsumerStarts, Told, Caught, ShownState, StateJson
  <2>2. CASE Consume
    BY <2>2, ConsumeShows DEF Consume, QInv, IInv, TypeOK, StateTypeOK, Managers
  <2>. QED
    BY <2>1, <2>2
<1>3. QueueLeads'
  BY <1>1, <1>2 DEF QInv, QueueLeads, Ended, LastEnd, ErrorFits, Errored
<1>4. TasksFit'
  BY <1>1, <1>2 DEF QInv, TasksFit, Alive, LookedUp, IsDeviceFound
<1>. QED
  BY <1>1, <1>2, <1>3, <1>4 DEF QInv, NoFastScan

LEMMA PortQInv ==
    ASSUME QInv, IInv', NEW p \in Ports, (Answer(p) \/ PortStep(p)) /\ UNCHANGED scanVars
    PROVE  QInv'
<1>1. UNCHANGED <<scan, ends, awaits, reply>>
  BY DEF scanVars
<1>2. tasks \in [Ports -> Tasks] /\ StateTypeOK /\ TaskTypeOK /\ TasksInRange
  BY DEF QInv, IInv, TypeOK, TaskTypeOK
<1>3. CASE Answer(p)
  <2>1. /\ UNCHANGED <<mgr, state, consumer, published>>
        /\ tasks' = [tasks EXCEPT ![p].answered = TRUE]
    BY <1>3 DEF Answer, stateVars
  <2>2. \A q \in Ports : /\ tasks'[q].pc = tasks[q].pc /\ tasks'[q].kind = tasks[q].kind
                         /\ tasks'[q].stage = tasks[q].stage
                         /\ tasks'[q].unit = tasks[q].unit
                         /\ tasks'[q].turn = tasks[q].turn
    BY <1>2, <2>1 DEF Tasks
  <2>3. TasksFit'
    BY <2>1, <2>2, <1>1 DEF QInv, TasksFit, Alive, LookedUp, BootSn, Item
  <2>4. QueueLeads'
    BY <1>1, <2>1 DEF QInv, QueueLeads, Told, ErrorFits, Ended, LastEnd
  <2>. QED
    BY <1>1, <2>1, <2>3, <2>4 DEF QInv, Caught, ShownState, NoFastScan
<1>4. CASE PortStep(p)
  <2>1. Alive(p) /\ scan.pc = "gather"
    BY <1>2, <1>4, PortStepGood DEF QInv, IInv, NoOrphanTasks, AllDone
  <2>2. Kept(mgr)
    BY <1>2, <2>1 DEF QInv, QueueLeads, Kept, StateTypeOK
  <2>3. PICK step : Moves(p, step) /\ FitStep(step, p)
    BY <1>2, <1>4, <2>1, <2>2, PortStepFits DEF QInv, NoFastScan
  <2>4. /\ mgr' = step.mgr /\ tasks' = [tasks EXCEPT ![p] = step.task]
        /\ UNCHANGED <<state, consumer, published>>
    BY <2>3 DEF Moves
  <2>5. Kept(mgr')
    BY <2>3, <2>4 DEF FitStep
  <2>6. QueueLeads' /\ Caught(mgr)'
    BY <1>1, <2>1, <2>4, <2>5 DEF Kept, QueueLeads, Told, ErrorFits, Caught
  <2>7. TasksFit'
    BY <1>1, <1>2, <2>3, <2>4 DEF FitStep, QInv, TasksFit, Alive, LookedUp
  <2>. QED
    BY <1>1, <2>4, <2>5, <2>6, <2>7 DEF QInv, ShownState, NoFastScan, Kept
<1>. QED
  BY <1>3, <1>4

LEMMA ScanStepFits ==
    ASSUME QInv, ScanStep
    PROVE  \E step : ScanMoves(step) /\ FitScanStep(step)
<1>1. TypeOK /\ mgr \in Managers /\ state \in States /\ scan \in ScanRecords
  BY DEF QInv, IInv, TypeOK, StateTypeOK
<1>2. AllDone /\ (NoFast => scan.type \in {"standard", "bootloader"})
  BY DEF QInv, IInv, NoOrphanTasks, NoFastScan, ScanStep, ScanBegins, ScanAsksForPorts,
         ScanNeverRuns, PortsLoaded, PortsTimeOut, PortsFail, PortsCancelled, HasPorts,
         GatherReturns, GatherCancelled
<1>3. PICK l \in States :
          /\ Told(mgr, l)
          /\ scan.pc # "gather" => Idle(l)
          /\ scan.pc \in {"ports", "gather"} => ErrorFits(mgr, l)
  BY DEF QInv, QueueLeads
<1>4. Caught(mgr)
  BY DEF QInv
<1> DEFINE reset == Reset(mgr, scan.preserve)
<1>5. scan.pc \in {"new", "load"} =>
          /\ reset \in Managers /\ Caught(reset)
          /\ \E u \in States : Told(reset, u) /\ Idle(u) /\ ErrorFits(reset, u)
  BY <1>1, <1>3, ResetTold
<1> HIDE DEF reset
<1>6. ASSUME NEW result, result # "complete", scan.pc # "gather"
      PROVE  FitScanStep(Finishes(mgr, result))
  BY <1>1, <1>2, <1>3, <1>4, <1>6, FinishesFits
<1>7. ASSUME NEW result, result # "complete", NEW error \in Errors
      PROVE  FitScanStep(Finishes(ScanFinished(mgr, error), result))
  <2>1. /\ Caught(ScanFinished(mgr, error))
        /\ \E u \in States : Told(ScanFinished(mgr, error), u) /\ Idle(u)
    BY <1>1, <1>3, FinishedTold
  <2>. QED
    BY <1>1, <1>2, <1>7, <2>1, FinishesFits
<1>8. CASE ScanBegins
  <2>1. scan.ports \in SUBSET Ports
    BY <1>1 DEF ScanRecords
  <2>2. FitScanStep(Scans(reset, scan.ports))
    BY <1>1, <1>2, <1>5, <1>8, <2>1, ScansFits DEF ScanBegins
  <2>. QED
    BY <1>8, <2>2 DEF ScanBegins, reset
<1>9. CASE ScanAsksForPorts
  <2> DEFINE step == [mgr |-> reset, tasks |-> tasks, result |-> "running",
                      scan |-> [scan EXCEPT !.pc = "ports"]]
  <2>1. /\ step.mgr = reset /\ step.tasks = tasks /\ step.result = "running"
        /\ step.scan.pc = "ports" /\ step.scan.preserve = scan.preserve
        /\ step.scan.type = scan.type
    BY <1>1 DEF ScanRecords
  <2>2. ScanMoves(step) /\ scan.pc = "load"
    BY <1>9 DEF ScanAsksForPorts, reset
  <2>3. FitScanStep(step)
    BY <1>2, <1>5, <2>1, <2>2 DEF FitScanStep, AllDone, Alive
  <2>. QED
    BY <2>2, <2>3
<1>10. CASE ScanNeverRuns
  BY <1>6, <1>10 DEF ScanNeverRuns
<1>11. CASE PortsLoaded
  <2>1. PICK ports \in PortLists : ScanMoves(Scans(mgr, ports))
    BY <1>11 DEF PortsLoaded
  <2>2. ports \in SUBSET Ports /\ scan.pc = "ports"
    BY <1>11, ScanConstants DEF PortsLoaded, HasPorts
  <2>3. FitScanStep(Scans(mgr, ports))
    BY <1>1, <1>2, <1>3, <1>4, <2>2, ScansFits
  <2>. QED
    BY <2>1, <2>3
<1>12. CASE PortsTimeOut
  BY <1>7, <1>12, ErrorsType DEF PortsTimeOut
<1>13. CASE PortsFail
  BY <1>6, <1>13 DEF PortsFail, HasPorts
<1>14. CASE PortsCancelled
  BY <1>6, <1>14 DEF PortsCancelled
<1>15. CASE GatherReturns
  <2>1. scan.pc = "gather" /\ mgr.total_items # 0
    BY <1>15 DEF GatherReturns, QInv
  <2>2. FitScanStep(Gathers(mgr, "slow", scan.ports))
    BY <1>1, <1>3, <1>4, <2>1, GathersFits DEF Kinds
  <2>3. /\ Caught(ScanComplete(mgr))
        /\ \E u \in States : /\ Told(ScanComplete(mgr), u) /\ Idle(u)
                             /\ ErrorFits(ScanComplete(mgr), u)
    BY <1>1, <1>3, <2>1, CompleteTold
  <2>4. FitScanStep(Finishes(ScanComplete(mgr), "complete"))
    BY <1>1, <1>2, <2>3, FinishesFits
  <2>. QED
    BY <1>15, <2>2, <2>4 DEF GatherReturns
<1>16. CASE GatherCancelled
  BY <1>7, <1>16, ErrorsType DEF GatherCancelled
<1>. QED
  BY <1>8, <1>9, <1>10, <1>11, <1>12, <1>13, <1>14, <1>15, <1>16 DEF ScanStep

LEMMA ScanQInv ==
    ASSUME QInv, IInv', ScanStep
    PROVE  QInv'
<1>1. PICK step : ScanMoves(step) /\ FitScanStep(step)
  BY ScanStepFits
<1>2. /\ mgr' = step.mgr /\ tasks' = step.tasks /\ scan' = step.scan
      /\ ends' = [ends EXCEPT ![Len(ends)] = step.result]
      /\ UNCHANGED <<state, consumer, published, awaits, reply>>
  BY <1>1 DEF ScanMoves
<1>3. ScanAlive /\ ends \in Seq(Results) /\ ends # <<>>
  BY ScanStepGood DEF QInv, IInv, TypeOK, ScanAlive
<1>4. LastEnd' = step.result
  BY <1>2, <1>3 DEF LastEnd
<1>5. scan'.preserve = scan.preserve /\ scan'.type = scan.type
  BY <1>1, <1>2 DEF FitScanStep
<1>6. PICK l \in States :
          /\ Told(mgr', l)
          /\ scan'.pc # "gather" => Idle(l)
          /\ scan'.pc \in {"ports", "gather"} \/ step.result = "complete" => ErrorFits(mgr', l)
  BY <1>1, <1>2 DEF FitScanStep
<1>7. QueueLeads'
  BY <1>2, <1>4, <1>5, <1>6 DEF QueueLeads, Told, ErrorFits, Ended
<1>8. TasksFit'
  BY <1>1, <1>2 DEF FitScanStep, TasksFit, Alive, LookedUp
<1>9. NoFastScan'
  BY <1>1, <1>2, <1>3, <1>5 DEF FitScanStep, QInv, NoFastScan, ScanAlive
<1>10. Caught(mgr)' /\ ShownState'
  BY <1>1, <1>2 DEF FitScanStep, QInv, Caught, ShownState
<1>. QED
  BY <1>1, <1>2, <1>7, <1>8, <1>9, <1>10 DEF QInv, FitScanStep

LEMMA RequestQInv ==
    ASSUME QInv, IInv', PortsAnswered \/ \E c \in Clients : Request(c) \/ StopReturns(c)
    PROVE  QInv'
<1>1. UNCHANGED <<mgr, state, consumer, published>>
  BY DEF PortsAnswered, Request, Start, StartRefused, Stop, StopRefused, StopReturns, stateVars
<1>2. Caught(mgr)' /\ ShownState'
  BY <1>1 DEF QInv, Caught, ShownState
<1>3. tasks \in [Ports -> Tasks] /\ scan \in ScanRecords
  BY DEF QInv, IInv, TypeOK, TaskTypeOK
<1>4. \A q \in Ports : /\ tasks'[q].pc = tasks[q].pc /\ tasks'[q].kind = tasks[q].kind
                       /\ tasks'[q].stage = tasks[q].stage
                       /\ tasks'[q].unit = tasks[q].unit /\ tasks'[q].turn = tasks[q].turn
  <2>1. tasks' = tasks \/ tasks' = Cancelled(tasks)
    BY DEF PortsAnswered, Request, Start, StartRefused, Stop, StopRefused, StopReturns
  <2>. QED
    BY <1>3, <2>1 DEF Cancelled, Tasks
<1>5. CASE \E c \in Clients : Start(c)
  <2>1. ~ScanAlive /\ AllDone
    BY <1>5 DEF Start, QInv, IInv, NoOrphanTasks, ScanAlive
  <2>2. scan'.pc \in {"new", "load"} /\ scan'.type \in ScanTypes
    BY <1>5 DEF Start, NoScan
  <2>3. QueueLeads'
    BY <1>1, <2>1, <2>2 DEF QInv, QueueLeads, Told, ScanAlive, Ended
  <2>4. TasksFit'
    BY <1>4, <2>1 DEF TasksFit, AllDone, Alive
  <2>. QED
    BY <1>1, <1>2, <2>2, <2>3, <2>4 DEF QInv, NoFastScan, NoFast
<1>6. CASE ~\E c \in Clients : Start(c)
  <2>1. /\ scan'.pc = scan.pc /\ scan'.preserve = scan.preserve
        /\ scan'.type = scan.type /\ scan'.kind = scan.kind
        /\ UNCHANGED ends
    BY <1>3, <1>6 DEF PortsAnswered, Request, StartRefused, Stop, StopRefused, StopReturns,
                      ScanRecords
  <2>2. QueueLeads'
    BY <1>1, <2>1 DEF QInv, QueueLeads, Told, ErrorFits, Ended, LastEnd
  <2>3. TasksFit'
    BY <1>1, <1>4, <2>1 DEF QInv, TasksFit, Alive, LookedUp, BootSn, Item
  <2>. QED
    BY <1>1, <1>2, <2>1, <2>2, <2>3 DEF QInv, NoFastScan
<1>. QED
  BY <1>5, <1>6

\* Every step keeps the way from the state to what the manager has been told.
THEOREM QueueInvariance == Spec => []QInv
<1>1. QInv /\ Next => IInv'
  BY ConsumerIInv, PortIInv, ScanIInv, RequestIInv DEF QInv, Next
<1>2. QInv /\ Next => QInv'
  BY <1>1, ConsumerQInv, PortQInv, ScanQInv, RequestQInv DEF Next
<1>3. QInv /\ UNCHANGED vars => QInv'
  BY DEF vars, QInv, IInv, TypeOK, StateTypeOK, TaskTypeOK, TasksInRange, NoOrphanTasks, AllDone,
         Alive, ScanAlive, EndInQueue, Ended, LastEnd, StopsInOrder, Over, CancelReaches,
         Caught, ShownState, QueueLeads, Told, ErrorFits, NoFastScan, TasksFit, LookedUp
<1>. QED
  BY <1>2, <1>3, InitQInv, PTL DEF Spec

-----------------------------------------------------------------------------
(* What it shows                                                           *)

\* The devices the state topic shows are the devices is_device_found looks in,
\* whenever the consumer has caught up.
THEOREM DevicesAgree == Spec => []DevicesMatchFound
<1>1. QInv => DevicesMatchFound
  <2>. SUFFICES ASSUME QInv, mgr.queue = <<>> PROVE published.devices = mgr.found_devices
    BY DEF DevicesMatchFound, Quiet
  <2>1. PICK l \in States : Leads(<<>>, state, l) /\ l.devices = mgr.found_devices
    BY DEF QInv, QueueLeads, Told
  <2>2. l = state
    BY <2>1, LeadsNil DEF QInv, IInv, TypeOK, StateTypeOK
  <2>. QED
    BY <2>1, <2>2 DEF QInv, ShownState
<1>. QED
  BY <1>1, QueueInvariance, PTL

\* The progress that is shown of a running scan never goes back, whatever order
\* the tasks of the ports report in and however scans follow each other.
THEOREM ProgressGrows == Spec => ProgressNeverDrops
<1> DEFINE A == published.scanning /\ published'.scanning
                    => published'.progress >= published.progress
<1>1. ASSUME QInv, Next
      PROVE  A
  <2>1. published.progress \in Nat
    BY <1>1 DEF QInv, IInv, TypeOK, StateTypeOK, Published
  <2>2. CASE Consume
    BY <1>1, <2>2, ConsumeShows DEF QInv, ShownState, Shows
  <2>3. CASE ConsumerStarts
    BY <1>1, <2>1, <2>3 DEF ConsumerStarts, QInv, ShownState, StateJson
  <2>4. CASE \E p \in Ports : Answer(p) \/ PortStep(p)
    <3>1. published' = published
      BY <1>1, <2>4, PortStepGood DEF Answer, Moves, stateVars, QInv, IInv, TypeOK
    <3>. QED
      BY <2>1, <3>1
  <2>5. CASE ScanStep
    <3>1. published' = published
      BY <1>1, <2>5, ScanStepFits DEF ScanMoves
    <3>. QED
      BY <2>1, <3>1
  <2>6. CASE PortsAnswered \/ \E c \in Clients : Request(c) \/ StopReturns(c)
    <3>1. published' = published
      BY <2>6 DEF PortsAnswered, Request, Start, StartRefused, Stop, StopRefused, StopReturns,
                  stateVars
    <3>. QED
      BY <2>1, <3>1
  <2>. QED
    BY <1>1, <2>2, <2>3, <2>4, <2>5, <2>6 DEF Next
<1>2. QInv /\ [Next]_vars => [A]_vars
  BY <1>1
<1>. QED
  BY <1>2, QueueInvariance, PTL DEF Spec, ProgressNeverDrops

\* Where no client asks for a fast scan, no device is shown twice: not after one
\* scan, and not after another that preserves its results.
THEOREM NoDuplicates == ASSUME NoFast PROVE Spec => []FoundOnce
<1>1. QInv => FoundOnce
  <2>. SUFFICES ASSUME QInv PROVE Distinct(published.devices)
    BY DEF FoundOnce, Distinct
  <2>1. Fine(state)
    BY LeadsFine DEF QInv, QueueLeads, Told, IInv, TypeOK, StateTypeOK, Managers
  <2>. QED
    BY <2>1 DEF QInv, ShownState, Fine
<1>. QED
  BY <1>1, QueueInvariance, PTL
-----------------------------------------------------------------------------
(* The failures themselves: what the state manager holds is compared with  *)
(* the history of ScanFailures.                                            *)

\* A completed scan shows the errors the manager holds.
LEMMA ErroredShown ==
    ASSUME QInv, Quiet, Ended({"complete"})
    PROVE  /\ Errored(mgr) # {} => /\ published.error = "failed_to_scan_error"
                                   /\ published.failed_ports = Errored(mgr)
           /\ Errored(mgr) = {} /\ ~scan.preserve => published.error = "none"
<1>1. PICK l \in States : Leads(<<>>, state, l) /\ ErrorFits(mgr, l)
  BY DEF QInv, QueueLeads, Told, Quiet
<1>2. l = state
  BY <1>1, LeadsNil DEF QInv, IInv, TypeOK, StateTypeOK
<1>3. /\ published.error = state.error.id
      /\ published.failed_ports = Deref(mgr.ports_errored, state.error.failed_ports)
  BY DEF QInv, Caught, StateJson, Quiet
<1>4. Deref(mgr.ports_errored, Len(mgr.ports_errored)) = Errored(mgr)
  BY LastObjectReplaced DEF Deref, Errored, QInv, IInv, TypeOK, StateTypeOK, Managers, Objects
<1>. QED
  BY <1>1, <1>2, <1>3, <1>4 DEF ErrorFits, FailedScanError, NoError

\* Only add_error_port adds to the errors.
LEMMA AddErrorPortAdds ==
    ASSUME NEW m \in Managers, NEW item \in Items
    PROVE  Errored(AddErrorPort(m, item)) = Errored(m) \cup {item}
<1> DEFINE n == AddErrorPort(m, item)
           ref == Len(m.ports_errored)
<1>1. m.ports_errored \in Objects /\ ref \in Nat \ {0}
  BY LastObjectReplaced DEF Managers
<1>2. n.ports_errored = [m.ports_errored EXCEPT ![ref] = @ \cup {item}]
  BY DEF AddErrorPort, Put, Managers
<1>. QED
  BY <1>1, <1>2 DEF Errored, Objects

LEMMA SameErrored ==
    ASSUME NEW m \in Managers
    PROVE  /\ \A item \in Items, ext \in BOOLEAN :
                  AddScanningPort(m, item, ext).ports_errored = m.ports_errored
           /\ \A item \in Items : RemoveScanningPort(m, item).ports_errored = m.ports_errored
           /\ \A sn \in Sns : FoundDevice(m, sn).ports_errored = m.ports_errored
           /\ \A devs \in Seq(Serials) : FoundDevices(m, devs).ports_errored = m.ports_errored
           /\ \A count \in Nat : SetScanItemsCount(m, count).ports_errored = m.ports_errored
           /\ ScanComplete(m).ports_errored = m.ports_errored
<1>1. \A item \in Items, ext \in BOOLEAN :
          AddScanningPort(m, item, ext).ports_errored = m.ports_errored
  BY DEF AddScanningPort, Put, Managers
<1>2. \A item \in Items : RemoveScanningPort(m, item).ports_errored = m.ports_errored
  BY DEF RemoveScanningPort, Put, Managers
<1>3. \A sn \in Sns : FoundDevice(m, sn).ports_errored = m.ports_errored
  BY DEF FoundDevice, Put, Managers
<1>4. \A devs \in Seq(Serials) : FoundDevices(m, devs).ports_errored = m.ports_errored
  BY DEF FoundDevices, Managers
<1>5. \A count \in Nat : SetScanItemsCount(m, count).ports_errored = m.ports_errored
  BY DEF SetScanItemsCount, Managers
<1>6. ScanComplete(m).ports_errored = m.ports_errored
  BY DEF ScanComplete, Put, Managers
<1>. QED
  BY <1>1, <1>2, <1>3, <1>4, <1>5, <1>6

LEMMA UnitErrored ==
    ASSUME NEW m \in Managers, NEW t \in Tasks, NEW p \in Ports
    PROVE  /\ \A unit \in 1 .. Units(t, p) :
                  BeginUnit(m, t, p, unit).mgr.ports_errored = m.ports_errored
           /\ t.unit \in 1 .. Units(t, p) =>
                  /\ EndUnit(m, t, p).mgr.ports_errored = m.ports_errored
                  /\ NextTurn(m, t, p).mgr.ports_errored = m.ports_errored
<1>1. \A n \in Managers : \A unit \in 1 .. Units(t, p) :
          BeginUnit(n, t, p, unit).mgr.ports_errored = n.ports_errored
  <2>. TAKE n \in Managers
  <2>. TAKE unit \in 1 .. Units(t, p)
  <2> DEFINE u == [t EXCEPT !.unit = unit]
  <2>1. unit \in Nat /\ Units(t, p) \in Nat
    BY StateConstants, TaskConstants DEF Units
  <2>2. u \in Tasks /\ u.unit = unit /\ u.kind = t.kind /\ u.ooo = t.ooo
    BY <2>1 DEF Tasks
  <2>3. Item(u, p) \in Items
    BY <2>2, UnitFacts DEF Units
  <2> HIDE DEF u
  <2>4. AddScanningPort(n, Item(u, p), t.kind = "fast").ports_errored = n.ports_errored
    BY <2>3, SameErrored
  <2>. QED
    BY <2>4 DEF BeginUnit, u
<1>2. ASSUME t.unit \in 1 .. Units(t, p)
      PROVE  EndUnit(m, t, p).mgr.ports_errored = m.ports_errored
  <2> DEFINE left == RemoveScanningPort(m, Item(t, p))
  <2>1. Item(t, p) \in Items
    BY <1>2, UnitFacts
  <2>2. left \in Managers /\ left.ports_errored = m.ports_errored
    BY <2>1, SameErrored, RemoveScanningPortType
  <2>3. t.unit < Units(t, p) => t.unit + 1 \in 1 .. Units(t, p)
    BY <1>2, StateConstants, TaskConstants DEF Units
  <2> HIDE DEF left
  <2>4. t.unit < Units(t, p) => BeginUnit(left, t, p, t.unit + 1).mgr.ports_errored
                                  = left.ports_errored
    BY <1>1, <2>2, <2>3
  <2>. QED
    BY <2>2, <2>4 DEF EndUnit, left
<1>3. t.unit \in 1 .. Units(t, p) => NextTurn(m, t, p).mgr.ports_errored = m.ports_errored
  BY <1>2 DEF NextTurn
<1>. QED
  BY <1>1, <1>2, <1>3

\* A step that fails reports the port, with the settings it has.
LEMMA FailingStep ==
    ASSUME StateTypeOK, TaskTypeOK, TasksInRange, NEW p \in Ports, AnswerFails(p)
    PROVE  /\ tasks[p].pc = "rpc"
           /\ Errored(mgr') = Errored(mgr) \cup {Item(tasks[p], p)}
           /\ \A q \in Ports \ {p} : tasks'[q] = tasks[q]
<1> DEFINE t == tasks[p]
           item == Item(t, p)
<1>1. t \in Tasks /\ t.pc = "rpc" /\ mgr \in Managers
  BY DEF AnswerFails, FastFails, FastFindsAndFails, SlowFails, BootFails, Waits, StateTypeOK,
         TaskTypeOK
<1>2. t.unit \in 1 .. Units(t, p) /\ item \in Items
  BY <1>1, UnitFacts DEF TasksInRange, TaskInRange
<1> HIDE DEF t, item
<1> DEFINE Reports(step) == Errored(step.mgr) = Errored(mgr) \cup {item}
<1>3. \A n \in Managers : n.ports_errored = mgr.ports_errored => Reports(FailedUnit(n, t, p))
  <2>. SUFFICES ASSUME NEW n \in Managers, n.ports_errored = mgr.ports_errored
                PROVE  Reports(FailedUnit(n, t, p))
    OBVIOUS
  <2> DEFINE k == AddErrorPort(n, item)
  <2>1. k \in Managers /\ Errored(k) = Errored(n) \cup {item}
    BY <1>2, AddErrorPortType, AddErrorPortAdds
  <2>2. Errored(n) = Errored(mgr)
    BY DEF Errored
  <2> HIDE DEF k
  <2>3. EndUnit(k, t, p).mgr.ports_errored = k.ports_errored
    BY <1>1, <1>2, <2>1, UnitErrored
  <2>. QED
    BY <2>1, <2>2, <2>3 DEF FailedUnit, Errored, k, item
<1>4. PICK step : Moves(p, step) /\ Reports(step)
  <2>1. CASE FastFails(p)
    BY <1>1, <1>3, <2>1 DEF FastFails, t
  <2>2. CASE FastFindsAndFails(p)
    <3>1. PICK devs \in FastReplies : Moves(p, FailedUnit(FoundDevices(mgr, devs), t, p))
      BY <2>2 DEF FastFindsAndFails, t
    <3>2. devs \in Seq(Serials)
      BY FastConstants
    <3>3. /\ FoundDevices(mgr, devs) \in Managers
          /\ FoundDevices(mgr, devs).ports_errored = mgr.ports_errored
      BY <1>1, <3>2, FoundDevicesType, SameErrored
    <3>. QED
      BY <1>3, <3>1, <3>3
  <2>3. CASE SlowFails(p)
    <3> DEFINE k == AddErrorPort(mgr, item)
    <3>1. k \in Managers /\ Errored(k) = Errored(mgr) \cup {item}
      BY <1>1, <1>2, AddErrorPortType, AddErrorPortAdds
    <3> HIDE DEF k
    <3>2. RemoveScanningPort(k, item).ports_errored = k.ports_errored
      BY <1>2, <3>1, SameErrored
    <3>3. Moves(p, [mgr |-> RemoveScanningPort(k, item), task |-> DoneTask])
      BY <2>3 DEF SlowFails, k, item, t
    <3>4. Reports([mgr |-> RemoveScanningPort(k, item), task |-> DoneTask])
      BY <3>1, <3>2 DEF Errored
    <3>. QED
      BY <3>3, <3>4
  <2>4. CASE BootFails(p)
    <3> DEFINE k == AddErrorPort(mgr, item)
    <3>1. k \in Managers /\ Errored(k) = Errored(mgr) \cup {item}
      BY <1>1, <1>2, AddErrorPortType, AddErrorPortAdds
    <3> HIDE DEF k
    <3>2. NextTurn(k, t, p).mgr.ports_errored = k.ports_errored
      BY <1>1, <1>2, <3>1, UnitErrored
    <3>3. Moves(p, NextTurn(k, t, p))
      BY <2>4 DEF BootFails, k, item, t
    <3>4. Reports(NextTurn(k, t, p))
      BY <3>1, <3>2 DEF Errored
    <3>. QED
      BY <3>3, <3>4
  <2>. QED
    BY <2>1, <2>2, <2>3, <2>4 DEF AnswerFails
<1>. QED
  BY <1>1, <1>4 DEF Moves, TaskTypeOK, t, item

\* Any other step of a task reports nothing.
LEMMA OtherStep ==
    ASSUME StateTypeOK, TaskTypeOK, TasksInRange, NEW p \in Ports, PortStep(p), ~AnswerFails(p)
    PROVE  /\ Errored(mgr') = Errored(mgr)
           /\ \A q \in Ports \ {p} : tasks'[q] = tasks[q]
           /\ tasks[p].pc # "rpc" => FirstStep(p)
<1> DEFINE t == tasks[p]
           Same(step) == step.mgr.ports_errored = mgr.ports_errored
<1>1. t \in Tasks /\ mgr \in Managers
  BY DEF StateTypeOK, TaskTypeOK
<1>2. t.pc = "rpc" => t.unit \in 1 .. Units(t, p) /\ Item(t, p) \in Items
  BY <1>1, UnitFacts DEF TasksInRange, TaskInRange
<1>3. \A task : Same([mgr |-> mgr, task |-> task])
  OBVIOUS
<1> HIDE DEF t
<1>4. \A n \in Managers : t.pc = "rpc" /\ n.ports_errored = mgr.ports_errored
          => Same(NextTurn(n, t, p)) /\ Same(EndUnit(n, t, p))
  BY <1>1, <1>2, UnitErrored
<1>5. PICK step : Moves(p, step) /\ Same(step)
  <2>1. CASE FirstStep(p)
    <3>1. 1 \in 1 .. Units(t, p)
      BY StateConstants, TaskConstants DEF Units
    <3>2. Same(BeginUnit(mgr, t, p, 1))
      BY <1>1, <3>1, UnitErrored
    <3>. QED
      BY <1>3, <2>1, <3>2 DEF FirstStep, t
  <2>2. CASE FastStep(p)
    <3>1. t.pc = "rpc"
      BY <2>2 DEF FastStep, FastFindsNothing, FastFinds, FastFindsAndFails, FastFails,
                  FastCancelled, Waits, t
    <3>2. CASE FastFinds(p)
      <4>1. PICK devs \in FastReplies :
                Moves(p, [mgr |-> FoundDevices(mgr, devs),
                          task |-> Asks(t, t.turn + 1, "scan")])
        BY <3>2 DEF FastFinds, t
      <4>2. FoundDevices(mgr, devs).ports_errored = mgr.ports_errored
        BY <1>1, FastConstants, SameErrored
      <4>. QED
        BY <4>1, <4>2
    <3>3. CASE FastFindsNothing(p)
      BY <1>1, <1>4, <3>1, <3>3 DEF FastFindsNothing, t
    <3>4. CASE FastCancelled(p)
      BY <1>3, <3>4 DEF FastCancelled
    <3>. QED
      BY <2>2, <3>2, <3>3, <3>4 DEF FastStep, AnswerFails
  <2>3. CASE SlowStep(p)
    <3>1. t.pc = "rpc"
      BY <2>3 DEF SlowStep, SlowFinds, SlowFindsNothing, SlowFails, SlowCancelled, Waits, t
    <3>2. CASE SlowFinds(p)
      <4>1. PICK sn \in Serials :
                Moves(p, NextTurn(IF IsDeviceFound(mgr, sn) THEN mgr ELSE FoundDevice(mgr, sn),
                                  t, p))
        BY <3>2 DEF SlowFinds, t
      <4>2. FoundDevice(mgr, sn) \in Managers
            /\ FoundDevice(mgr, sn).ports_errored = mgr.ports_errored
        BY <1>1, FoundDeviceType, SameErrored DEF Sns
      <4>. QED
        BY <1>1, <1>4, <3>1, <4>1, <4>2
    <3>3. CASE SlowFindsNothing(p)
      BY <1>1, <1>4, <3>1, <3>3 DEF SlowFindsNothing, t
    <3>4. CASE SlowCancelled(p)
      <4>1. RemoveScanningPort(mgr, Item(t, p)).ports_errored = mgr.ports_errored
        BY <1>1, <1>2, <3>1, SameErrored
      <4>. QED
        BY <3>4, <4>1 DEF SlowCancelled, t
    <3>. QED
      BY <2>3, <3>2, <3>3, <3>4 DEF SlowStep, AnswerFails
  <2>4. CASE BootStep(p)
    <3>1. t.pc = "rpc"
      BY <2>4 DEF BootStep, BootReadsFull, BootReadsNoFull, BootReadsShort, BootIsSilent,
                  BootReadsSignature, BootFails, BootCancelled, BootWaits, Waits, t
    <3>2. \A stage : BootAsks(p, stage) => \E step : Moves(p, step) /\ Same(step)
      BY <1>3 DEF BootAsks
    <3>3. BootSkips(p) => \E step : Moves(p, step) /\ Same(step)
      BY <1>1, <1>4, <3>1 DEF BootSkips, t
    <3>4. CASE BootReadsSignature(p)
      <4>1. t.kind = "boot" /\ t.turn \in 1 .. LastTurn(t, p)
        BY <3>1, <3>4 DEF BootReadsSignature, BootWaits, Waits, TasksInRange, TaskInRange, t
      <4>2. t.turn \in 1 .. NumIds
        BY <1>1, <1>2, <3>1, <4>1, UnitFacts, StateConstants
      <4>3. BootSn(t, p) \in Sns
        BY <1>2, <3>1, <4>2 DEF BootSn, Sns
      <4>4. FoundDevice(mgr, BootSn(t, p)) \in Managers
            /\ FoundDevice(mgr, BootSn(t, p)).ports_errored = mgr.ports_errored
        BY <1>1, <4>3, FoundDeviceType, SameErrored
      <4>. QED
        BY <1>4, <3>1, <3>4, <4>4 DEF BootReadsSignature, BootFinds, t
    <3>5. CASE BootCancelled(p)
      BY <1>3, <3>5 DEF BootCancelled
    <3>. QED
      BY <2>4, <3>2, <3>3, <3>4, <3>5
      DEF BootStep, BootReadsFull, BootReadsNoFull, BootReadsShort, BootIsSilent, AnswerFails
  <2>. QED
    BY <2>1, <2>2, <2>3, <2>4 DEF PortStep
<1>6. t.pc # "rpc" => FirstStep(p)
  BY DEF PortStep, FastStep, FastFindsNothing, FastFinds, FastFindsAndFails, FastFails,
         FastCancelled, SlowStep, SlowFinds, SlowFindsNothing, SlowFails, SlowCancelled, BootStep,
         BootReadsFull, BootReadsNoFull, BootReadsShort, BootIsSilent, BootReadsSignature,
         BootFails, BootCancelled, BootWaits, Waits, t
<1>. QED
  BY <1>1, <1>5, <1>6 DEF Moves, TaskTypeOK, Errored, t

Known == OfPorts(Ports \ Malformed)

\* While a scan goes on, and when it is complete, the manager holds the failures of this
\* scan and of no other; a port without a number never asks anything.
FailInv ==
    /\ \A p \in Malformed : tasks[p].pc # "rpc"
    /\ scan.pc \in {"new", "load", "ports"} => failed = {}
    /\ scan.pc = "ports" => Errored(mgr) = {}
    /\ scan.pc = "gather" \/ Ended({"complete"}) => Errored(mgr) = Known

LEMMA InitFailInv == HInit => FailInv
  BY TaskConstants DEF HInit, Init, TaskInit, DoneTask, NewTask, NoScan, FailInv, Ended, Ports

\* A failure happens while the scan gathers, and in a step of the tasks alone.
LEMMA FailsWhere ==
    ASSUME QInv, Next, FailsNow # {}
    PROVE  /\ scan.pc = "gather" /\ UNCHANGED ends /\ scan'.pc = scan.pc
           /\ ~\E c \in Clients : Start(c)
<1>1. StateTypeOK /\ TaskTypeOK /\ TasksInRange /\ NoOrphanTasks /\ scan \in ScanRecords
  BY DEF QInv, IInv, TypeOK
<1>2. PICK p \in Ports : Alive(p)
  BY DEF FailsNow, AnswerFails, NumberFails, FirstStep, FastFails, FastFindsAndFails, SlowFails,
         BootFails, Waits, Alive
<1>3. ~AllDone /\ scan.pc = "gather" /\ ScanAlive
  BY <1>1, <1>2 DEF AllDone, NoOrphanTasks, ScanAlive
<1>4. ~ScanStep /\ ~PortsAnswered /\ ~\E c \in Clients : Start(c)
  BY <1>3 DEF ScanStep, ScanBegins, ScanAsksForPorts, ScanNeverRuns, PortsLoaded, PortsTimeOut,
              PortsFail, PortsCancelled, HasPorts, GatherReturns, GatherCancelled,
              PortsAnswered, Start
<1>5. CASE UNCHANGED scanVars
  BY <1>3, <1>4, <1>5 DEF scanVars
<1>6. CASE \E c \in Clients : Request(c) \/ StopReturns(c)
  BY <1>1, <1>3, <1>4, <1>6
  DEF Request, StartRefused, Stop, StopRefused, StopReturns, ScanRecords
<1>. QED
  BY <1>4, <1>5, <1>6 DEF Next

LEMMA ItemOfPort ==
    ASSUME NEW t, NEW p
    PROVE  Item(t, p)[1] = p
  BY DEF Item

\* A step that fails
LEMMA FailsFailInv ==
    ASSUME QInv, FailInv, HNext, FailsNow # {}
    PROVE  FailInv'
<1> DEFINE Now == {Item(tasks[p], p) : p \in {q \in Ports : AnswerFails(q)}}
<1>1. StateTypeOK /\ TaskTypeOK /\ TasksInRange
  BY DEF QInv, IInv, TypeOK
<1>2. /\ scan.pc = "gather" /\ scan'.pc = "gather"
      /\ failed' = failed \cup {Item(tasks[p], p) : p \in FailsNow}
  BY FailsWhere DEF HNext
<1>3. \A p \in Ports : AnswerFails(p) =>
          /\ p \notin Malformed
          /\ Errored(mgr') = Errored(mgr) \cup {Item(tasks[p], p)}
          /\ \A q \in Ports \ {p} : tasks'[q] = tasks[q]
  BY <1>1, FailingStep DEF FailInv
<1>4. \A p \in Ports : NumberFails(p) =>
          /\ p \in Malformed /\ mgr' = mgr
          /\ tasks' = [tasks EXCEPT ![p] = DoneTask]
  BY DEF NumberFails, FirstStep, Moves
<1>5. \A q \in Malformed : tasks'[q].pc # "rpc"
  <2>. TAKE q \in Malformed
  <2>1. q \in Ports /\ tasks[q].pc # "rpc" /\ DoneTask.pc = "done"
    BY TaskConstants, NewTaskGood DEF FailInv, Ports, DoneTask, NewTask
  <2>2. PICK p \in Ports : AnswerFails(p) \/ NumberFails(p)
    BY DEF FailsNow
  <2>3. CASE AnswerFails(p)
    BY <1>3, <2>1, <2>3
  <2>4. CASE NumberFails(p)
    BY <1>1, <1>4, <2>1, <2>4 DEF TaskTypeOK
  <2>. QED
    BY <2>2, <2>3, <2>4
<1>6. Known' = Known \cup Now
  <2>1. \A p \in FailsNow : p \in Ports \ Malformed <=> AnswerFails(p)
    BY <1>3, <1>4 DEF FailsNow
  <2>2. ASSUME NEW item
        PROVE  item \in Known' <=> item \in Known \cup Now
    BY <1>2, <2>1, ItemOfPort DEF Known, OfPorts, FailsNow
  <2>. QED
    BY <2>2
<1>7. Errored(mgr') = Errored(mgr) \cup Now
  <2>1. CASE \E p \in Ports : AnswerFails(p)
    BY <1>3, <2>1
  <2>2. CASE ~\E p \in Ports : AnswerFails(p)
    BY <1>4, <2>2 DEF FailsNow
  <2>. QED
    BY <2>1, <2>2
<1>8. Errored(mgr)' = Known'
  BY <1>2, <1>6, <1>7 DEF FailInv, Errored
<1>. QED
  BY <1>2, <1>5, <1>8 DEF FailInv

\* What the steps of the scan task and the failures have to do with each other
FreshScan(step) ==
    /\ step.mgr \in Managers
    /\ \A p \in Malformed : step.tasks[p].pc # "rpc"
    /\ step.scan.pc \notin {"new", "load"}
    /\ step.scan.pc = "ports" => scan.pc = "load"
    /\ step.scan.pc \in {"ports", "gather"} \/ step.result = "complete"
           => Errored(step.mgr) = Known

LEMMA FreshFinishes ==
    ASSUME FailInv, NEW m \in Managers, NEW result, result = "complete" => Errored(m) = Known,
           scan \in ScanRecords
    PROVE  FreshScan(Finishes(m, result))
  BY DEF Finishes, FreshScan, FailInv, ScanRecords

LEMMA FreshGathers ==
    ASSUME NEW m \in Managers, Errored(m) = Known, NEW kind, NEW ports, scan \in ScanRecords
    PROVE  FreshScan(Gathers(m, kind, ports))
<1>1. \A p \in Ports : Gathers(m, kind, ports).tasks[p].pc # "rpc"
  BY DEF Gathers, NewTask, DoneTask
<1>2. Malformed \subseteq Ports
  BY TaskConstants DEF Ports
<1>. QED
  BY <1>1, <1>2 DEF FreshScan, Gathers, ScanRecords

LEMMA FreshScans ==
    ASSUME FailInv, NEW m \in Managers, Errored(m) = Known, NEW ports \in SUBSET Ports,
           scan \in ScanRecords
    PROVE  FreshScan(Scans(m, ports))
<1> DEFINE n == SetScanItemsCount(m, ItemsCount(ports))
<1>1. ItemsCount(ports) \in Nat
  BY ItemsCountType
<1>2. n \in Managers /\ Errored(n) = Known
  BY <1>1, SetScanItemsCountType, SameErrored DEF Errored
<1>3. ScanFinished(m, GenericError) \in Managers
  BY ErrorsType, ScanFinishedType
<1>4. ScanComplete(m) \in Managers /\ Errored(ScanComplete(m)) = Known
  BY ScanCompleteType, SameErrored DEF Errored
<1> HIDE DEF n
<1>5. FreshScan(Gathers(n, FirstKind, ports))
  BY <1>2, FreshGathers
<1>6. FreshScan(Finishes(ScanFinished(m, GenericError), "failed"))
  BY <1>3, FreshFinishes
<1>7. FreshScan(Finishes(ScanComplete(m), "complete"))
  BY <1>4, FreshFinishes
<1>. QED
  BY <1>5, <1>6, <1>7 DEF Scans, n

LEMMA FreshScanStep ==
    ASSUME QInv, FailInv, ScanStep
    PROVE  \E step : ScanMoves(step) /\ FreshScan(step)
<1>1. TypeOK /\ mgr \in Managers /\ scan \in ScanRecords
  BY DEF QInv, IInv, TypeOK, StateTypeOK
<1> DEFINE reset == Reset(mgr, scan.preserve)
<1>2. reset \in Managers /\ Errored(reset) = {}
  <2>1. reset \in Managers
    BY <1>1, ResetType DEF ScanRecords
  <2>2. reset.ports_errored = Append(mgr.ports_errored, {})
    BY <1>1 DEF Reset, Put, Managers
  <2>. QED
    BY <1>1, <2>1, <2>2 DEF Errored, Managers, Objects
<1>3. scan.pc \in {"new", "load", "ports"} => Known = {}
  BY DEF FailInv, Known, OfPorts
<1> HIDE DEF reset
<1>4. \A result : result # "complete" => FreshScan(Finishes(mgr, result))
  BY <1>1, FreshFinishes
<1>5. \A error \in Errors : \A result : result # "complete"
          => FreshScan(Finishes(ScanFinished(mgr, error), result))
  BY <1>1, FreshFinishes, ScanFinishedType
<1>6. CASE ScanBegins
  <2>1. scan.ports \in SUBSET Ports
    BY <1>1 DEF ScanRecords
  <2>2. FreshScan(Scans(reset, scan.ports))
    BY <1>1, <1>2, <1>3, <1>6, <2>1, FreshScans DEF ScanBegins
  <2>. QED
    BY <1>6, <2>2 DEF ScanBegins, reset
<1>7. CASE ScanAsksForPorts
  <2> DEFINE step == [mgr |-> reset, tasks |-> tasks, result |-> "running",
                      scan |-> [scan EXCEPT !.pc = "ports"]]
  <2>1. ScanMoves(step) /\ scan.pc = "load"
    BY <1>7 DEF ScanAsksForPorts, reset
  <2>2. FreshScan(step)
    BY <1>1, <1>2, <1>3, <2>1 DEF FreshScan, FailInv, ScanRecords
  <2>. QED
    BY <2>1, <2>2
<1>8. CASE ScanNeverRuns
  BY <1>4, <1>8 DEF ScanNeverRuns
<1>9. CASE PortsLoaded
  <2>1. PICK ports \in PortLists : ScanMoves(Scans(mgr, ports))
    BY <1>9 DEF PortsLoaded
  <2>2. ports \in SUBSET Ports /\ scan.pc = "ports"
    BY <1>9, ScanConstants DEF PortsLoaded, HasPorts
  <2>3. Errored(mgr) = Known
    BY <1>3, <2>2 DEF FailInv
  <2>. QED
    BY <1>1, <2>1, <2>2, <2>3, FreshScans
<1>10. CASE PortsTimeOut
  BY <1>5, <1>10, ErrorsType DEF PortsTimeOut
<1>11. CASE PortsFail
  BY <1>4, <1>11 DEF PortsFail
<1>12. CASE PortsCancelled
  BY <1>4, <1>12 DEF PortsCancelled
<1>13. CASE GatherReturns
  <2>1. Errored(mgr) = Known
    BY <1>13 DEF GatherReturns, FailInv
  <2>2. ScanComplete(mgr) \in Managers /\ Errored(ScanComplete(mgr)) = Known
    BY <1>1, <2>1, ScanCompleteType, SameErrored DEF Errored
  <2>3. FreshScan(Gathers(mgr, "slow", scan.ports))
    BY <1>1, <2>1, FreshGathers
  <2>4. FreshScan(Finishes(ScanComplete(mgr), "complete"))
    BY <1>1, <2>2, FreshFinishes
  <2>. QED
    BY <1>13, <2>3, <2>4 DEF GatherReturns
<1>14. CASE GatherCancelled
  BY <1>5, <1>14, ErrorsType DEF GatherCancelled
<1>. QED
  BY <1>6, <1>7, <1>8, <1>9, <1>10, <1>11, <1>12, <1>13, <1>14 DEF ScanStep

\* A step that does not fail
LEMMA OtherFailInv ==
    ASSUME QInv, FailInv, HNext, FailsNow = {}
    PROVE  FailInv'
<1>1. /\ StateTypeOK /\ TaskTypeOK /\ TasksInRange /\ NoOrphanTasks /\ scan \in ScanRecords
      /\ ends \in Seq(Results) /\ (ScanAlive => ends # <<>>) /\ Malformed \subseteq Ports
  BY TaskConstants DEF QInv, IInv, TypeOK, ScanAlive, Ports
<1>2. failed' = IF \E c \in Clients : Start(c) THEN {} ELSE failed
  BY DEF HNext
<1>3. CASE \E c \in Clients : Start(c)
  <2>1. failed' = {} /\ tasks' = tasks /\ scan'.pc \in {"new", "load"}
    BY <1>2, <1>3 DEF Start, NoScan
  <2>. QED
    BY <2>1 DEF FailInv, Ended
<1>. SUFFICES ASSUME ~\E c \in Clients : Start(c)
              PROVE  FailInv'
  BY <1>3
<1>4. UNCHANGED failed
  BY <1>2
<1>5. ASSUME scan'.pc = scan.pc, UNCHANGED ends, Errored(mgr') = Errored(mgr),
             \A p \in Malformed : tasks'[p].pc # "rpc"
      PROVE  FailInv'
  BY <1>4, <1>5 DEF FailInv, Known, OfPorts, Errored, Ended, LastEnd
<1>6. CASE (ConsumerStarts \/ Consume) /\ UNCHANGED <<tasks, scanVars>>
  <2>1. mgr'.ports_errored = mgr.ports_errored
    BY <1>1, <1>6 DEF ConsumerStarts, Consume, StateTypeOK, Managers
  <2>. QED
    BY <1>5, <1>6, <2>1 DEF FailInv, Errored, scanVars
<1>7. ASSUME NEW p \in Ports, Answer(p), UNCHANGED scanVars
      PROVE  FailInv'
  <2>1. mgr' = mgr /\ tasks' = [tasks EXCEPT ![p].answered = TRUE]
    BY <1>7 DEF Answer, stateVars
  <2>2. \A q \in Ports : tasks'[q].pc = tasks[q].pc
    BY <1>1, <2>1 DEF TaskTypeOK, Tasks
  <2>. QED
    BY <1>1, <1>5, <1>7, <2>1, <2>2 DEF FailInv, scanVars
<1>8. ASSUME NEW p \in Ports, PortStep(p), UNCHANGED scanVars
      PROVE  FailInv'
  <2>1. ~AnswerFails(p)
    BY DEF FailsNow
  <2>2. /\ Errored(mgr') = Errored(mgr)
        /\ \A q \in Ports \ {p} : tasks'[q] = tasks[q]
        /\ tasks[p].pc # "rpc" => FirstStep(p)
    BY <1>1, <1>8, <2>1, OtherStep
  <2>3. ASSUME p \in Malformed
        PROVE  tasks'[p].pc # "rpc"
    <3>1. FirstStep(p)
      BY <2>2, <2>3 DEF FailInv
    <3>2. tasks' = [tasks EXCEPT ![p] = DoneTask]
      BY <2>3, <3>1 DEF FirstStep, Moves
    <3>3. DoneTask.pc = "done"
      BY DoneTaskGood
    <3>. QED
      BY <1>1, <3>2, <3>3 DEF TaskTypeOK
  <2>. QED
    BY <1>1, <1>5, <1>8, <2>2, <2>3 DEF FailInv, scanVars
<1>9. CASE PortsAnswered
  BY <1>1, <1>5, <1>9 DEF PortsAnswered, stateVars, FailInv, ScanRecords
<1>10. CASE ScanStep
  <2>1. PICK step : ScanMoves(step) /\ FreshScan(step)
    BY <1>10, FreshScanStep
  <2>2. /\ mgr' = step.mgr /\ tasks' = step.tasks /\ scan' = step.scan
        /\ ends' = [ends EXCEPT ![Len(ends)] = step.result]
    BY <2>1 DEF ScanMoves
  <2>3. ends # <<>>
    BY <1>1, <1>10, ScanStepGood DEF QInv, IInv, TypeOK
  <2>4. LastEnd' = step.result
    BY <1>1, <2>2, <2>3 DEF LastEnd
  <2>5. Known' = Known /\ Errored(mgr)' = Errored(step.mgr)
    BY <1>4, <2>2 DEF Known, OfPorts, Errored
  <2>6. scan'.pc = "ports" => failed' = {} /\ Errored(mgr)' = {}
    BY <1>4, <2>1, <2>2, <2>5 DEF FreshScan, FailInv, Known, OfPorts
  <2>7. scan'.pc = "gather" \/ Ended({"complete"})' => Errored(mgr)' = Known'
    BY <2>1, <2>2, <2>4, <2>5 DEF FreshScan, Ended
  <2>. QED
    BY <2>1, <2>2, <2>6, <2>7 DEF FreshScan, FailInv
<1>11. CASE \E c \in Clients : Request(c) \/ StopReturns(c)
  <2>1. scan'.pc = scan.pc /\ UNCHANGED <<ends, mgr>>
    BY <1>1, <1>11 DEF Request, StartRefused, Stop, StopRefused, StopReturns, stateVars,
                       ScanRecords
  <2>2. tasks' = tasks \/ tasks' = Cancelled(tasks)
    BY <1>11 DEF Request, StartRefused, Stop, StopRefused, StopReturns
  <2>3. \A q \in Ports : tasks'[q].pc = tasks[q].pc
    <3>1. \A t \in Tasks : [t EXCEPT !.cancel = TRUE].pc = t.pc
      BY DEF Tasks
    <3>2. \A q \in Ports : tasks[q] \in Tasks
      BY <1>1 DEF TaskTypeOK
    <3>3. CASE tasks' = tasks
      BY <3>3
    <3>4. CASE tasks' = Cancelled(tasks)
      <4>. TAKE q \in Ports
      <4>1. tasks'[q] = IF tasks[q].pc = "done" THEN tasks[q] ELSE [tasks[q] EXCEPT !.cancel = TRUE]
        BY <3>4 DEF Cancelled
      <4>. QED
        BY <3>1, <3>2, <4>1
    <3>. QED
      BY <2>2, <3>3, <3>4
  <2>. QED
    BY <1>1, <1>5, <2>1, <2>3 DEF FailInv
<1>. QED
  BY <1>6, <1>7, <1>8, <1>9, <1>10, <1>11 DEF HNext, Next

\* The history takes nothing from BusScan.
LEMMA HistoryImplements == HSpec => Spec
<1>1. HInit => Init
  BY DEF HInit
<1>2. [HNext]_hvars => [Next]_vars
  BY DEF HNext, hvars
<1>. QED
  BY <1>1, <1>2, PTL DEF HSpec, Spec

\* A completed scan shows exactly the ports whose scan met an unhandled error, for
\* whatever order the port tasks fail in, and none of a scan before; the ports without
\* a number alone are not among them.
THEOREM FailuresShown == HSpec => []FailedPortsReported
<1>1. QInv /\ FailInv /\ HNext => FailInv'
  BY FailsFailInv, OtherFailInv
<1>2. FailInv /\ UNCHANGED hvars => FailInv'
  BY DEF hvars, vars, FailInv, Known, OfPorts, Errored, Ended, LastEnd
<1>3. QInv /\ FailInv => FailedPortsReported
  <2>. SUFFICES ASSUME QInv, FailInv, Ended({"complete"}), Quiet
                PROVE  IF Known # {} THEN /\ published.error = "failed_to_scan_error"
                                          /\ published.failed_ports = Known
                       ELSE ~scan.preserve => published.error = "none"
    BY DEF FailedPortsReported, Known
  <2>1. Errored(mgr) = Known
    BY DEF FailInv
  <2>. QED
    BY <2>1, ErroredShown
<1>4. HSpec => [](QInv /\ FailInv)
  BY <1>1, <1>2, InitFailInv, HistoryImplements, QueueInvariance, PTL DEF HSpec
<1>. QED
  BY <1>3, <1>4, PTL
=============================================================================
