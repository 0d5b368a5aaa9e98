---------------------------- MODULE BusScan_shown ----------------------------
(***************************************************************************)
(* What a client is shown from the beginning of a scan on: nothing of an   *)
(* earlier scan in its first state, and later the ports in use, for any    *)
(* ports, clients, scan types and bounds.                                  *)
(*                                                                         *)
(* The sets of ports are shared by reference, so what is shown depends on  *)
(* which set the state refers to: LastOf tells the value a field will have *)
(* when the queue is empty.                                                *)
(***************************************************************************)
EXTENDS BusScan_queue

Has(event, field) == field \in DOMAIN event

\* The last word of q on the field is v, or q leaves it as it is in s.
LastOf(field, q, s, v) ==
    \/ \E i \in 1 .. Len(q) : /\ Has(q[i], field) /\ q[i][field] = v
                              /\ \A j \in i + 1 .. Len(q) : ~Has(q[j], field)
    \/ s[field] = v /\ \A j \in 1 .. Len(q) : ~Has(q[j], field)

Fields == {"scanning_ports", "is_ext_scan"}

LEMMA LastOfNil ==
    ASSUME NEW field, NEW s, NEW v
    PROVE  LastOf(field, <<>>, s, v) <=> s[field] = v
<1>1. Len(<<>>) = 0
  OBVIOUS
<1>. QED
  BY <1>1 DEF LastOf

\* Another event has the last word if it has one at all.
LEMMA LastOfAppend ==
    ASSUME NEW field, NEW q \in Seq(Events), NEW event \in Events, NEW s, NEW v,
           IF Has(event, field) THEN event[field] = v ELSE LastOf(field, q, s, v)
    PROVE  LastOf(field, Append(q, event), s, v)
<1> DEFINE r == Append(q, event)
<1>1. /\ Len(q) \in Nat /\ Len(r) = Len(q) + 1 /\ r[Len(q) + 1] = event
      /\ \A i \in 1 .. Len(q) : r[i] = q[i]
  BY AppendProperties
<1> HIDE DEF r
<1>2. CASE Has(event, field)
  <2>1. \A j \in Len(q) + 2 .. Len(r) : ~Has(r[j], field)
    BY <1>1
  <2>. QED
    BY <1>1, <1>2, <2>1 DEF LastOf, r
<1>3. CASE ~Has(event, field)
  <2>1. ASSUME NEW i \in 0 .. Len(q), \A j \in i + 1 .. Len(q) : ~Has(q[j], field)
        PROVE  \A j \in i + 1 .. Len(r) : ~Has(r[j], field)
    BY <1>1, <1>3, <2>1
  <2>2. CASE \E i \in 1 .. Len(q) : /\ Has(q[i], field) /\ q[i][field] = v
                                    /\ \A j \in i + 1 .. Len(q) : ~Has(q[j], field)
    <3>1. PICK i \in 1 .. Len(q) : /\ Has(q[i], field) /\ q[i][field] = v
                                   /\ \A j \in i + 1 .. Len(q) : ~Has(q[j], field)
      BY <2>2
    <3>2. \A j \in i + 1 .. Len(r) : ~Has(r[j], field)
      BY <1>1, <2>1, <3>1
    <3>3. i \in 1 .. Len(r) /\ r[i] = q[i]
      BY <1>1
    <3>. QED
      BY <3>1, <3>2, <3>3 DEF LastOf, r
  <2>3. CASE s[field] = v /\ \A j \in 1 .. Len(q) : ~Has(q[j], field)
    <3>1. \A j \in 1 .. Len(r) : ~Has(r[j], field)
      BY <1>1, <1>3, <2>3
    <3>. QED
      BY <2>3, <3>1 DEF LastOf, r
  <2>. QED
    BY <1>3, <2>2, <2>3 DEF LastOf
<1>. QED
  BY <1>2, <1>3

\* The consumer changes nothing about how it ends.
LEMMA LastOfConsume ==
    ASSUME NEW field \in Fields, NEW q \in Seq(Events), q # <<>>, NEW s \in States, NEW v,
           LastOf(field, q, s, v)
    PROVE  LastOf(field, Tail(q), Applied(s, Head(q)), v)
<1> DEFINE r == Tail(q)
           u == Applied(s, Head(q))
<1>1. /\ Len(q) \in Nat \ {0} /\ Len(r) = Len(q) - 1 /\ Head(q) = q[1]
      /\ \A i \in 1 .. Len(r) : r[i] = q[i + 1]
  BY EmptySeq, HeadTailProperties
<1>2. u[field] = IF Has(q[1], field) THEN q[1][field] ELSE s[field]
  BY <1>1 DEF Applied, Fields, Has
<1> HIDE DEF r, u
<1>3. ASSUME NEW i \in 1 .. Len(q), \A j \in i + 1 .. Len(q) : ~Has(q[j], field)
      PROVE  \A j \in i .. Len(r) : ~Has(r[j], field)
  <2>. TAKE j \in i .. Len(r)
  <2>1. j \in 1 .. Len(r) /\ j + 1 \in i + 1 .. Len(q)
    BY <1>1
  <2>. QED
    BY <1>1, <1>3, <2>1
<1>4. CASE \E i \in 1 .. Len(q) : /\ Has(q[i], field) /\ q[i][field] = v
                                  /\ \A j \in i + 1 .. Len(q) : ~Has(q[j], field)
  <2>1. PICK i \in 1 .. Len(q) : /\ Has(q[i], field) /\ q[i][field] = v
                                 /\ \A j \in i + 1 .. Len(q) : ~Has(q[j], field)
    BY <1>4
  <2>2. \A j \in i .. Len(r) : ~Has(r[j], field)
    BY <1>3, <2>1
  <2>3. CASE i = 1
    BY <1>2, <2>1, <2>2, <2>3 DEF LastOf, r, u
  <2>4. CASE i # 1
    <3>1. i - 1 \in 1 .. Len(r) /\ r[i - 1] = q[i] /\ (i - 1) + 1 = i
      BY <1>1, <2>4
    <3>. QED
      BY <2>1, <2>2, <3>1 DEF LastOf, r, u
  <2>. QED
    BY <2>3, <2>4
<1>5. CASE s[field] = v /\ \A j \in 1 .. Len(q) : ~Has(q[j], field)
  <2>1. \A j \in 1 .. Len(r) : ~Has(r[j], field)
    BY <1>1, <1>5
  <2>2. u[field] = v
    BY <1>1, <1>2, <1>5
  <2>. QED
    BY <2>1, <2>2 DEF LastOf, r, u
<1>. QED
  BY <1>4, <1>5 DEF LastOf
-----------------------------------------------------------------------------
(* The invariant                                                           *)

Starts(event) == event \in {StartEvent(TRUE), StartEvent(FALSE)}
Closes(event) == Has(event, "scanning") /\ event.scanning = FALSE

\* A scan begins with an empty queue, and the state the consumer begins with then has
\* no ports.  Nothing else makes a state that is not scanning one that is.
StartComesFirst(q) ==
    /\ \A i \in 2 .. Len(q) : ~Starts(q[i])
    /\ q # <<>> /\ Starts(q[1]) => state.scanning_ports = 0
    /\ q # <<>> /\ ~Starts(q[1]) => state.scanning

\* The manager of a scan that works, from its Reset on: all of what is queued belongs
\* to it, and the set it adds its ports to is shown last, or is empty and will be.
Working(m) ==
    /\ m \in Managers
    /\ StartComesFirst(m.queue)
    /\ m.queue = <<>> => state.scanning
    /\ m.queue # <<>> /\ Starts(m.queue[1]) => m.queue[1] = StartEvent(scan.preserve)
    /\ \A i \in 1 .. Len(m.queue) : ~Closes(m.queue[i])
    /\ \/ LastOf("scanning_ports", m.queue, state, Len(m.ports_now_scanning))
       \/ LastOf("scanning_ports", m.queue, state, 0) /\ NowScanning(m) = {}

\* The ports in the set are shown as those of a scan of this kind.
ShownAs(m, ext) == NowScanning(m) # {} => LastOf("is_ext_scan", m.queue, state, ext)

\* The manager of a scan that does not gather: no ports will be shown.
Resting(m) ==
    /\ StartComesFirst(m.queue)
    /\ \A i \in 1 .. Len(m.queue) - 1 : ~Closes(m.queue[i])
    /\ LastOf("scanning_ports", m.queue, state, 0)

\* A start event that waits is the one of the scan there is.
FirstFits(m) ==
    m.queue # <<>> /\ Starts(m.queue[1]) => m.queue[1] = StartEvent(scan.preserve)

ShownInv ==
    /\ scan.pc \in {"ports", "gather"} => Working(mgr)
    /\ scan.pc # "gather" => Resting(mgr)
    /\ scan.pc \notin {"new", "load"} => FirstFits(mgr)
    /\ scan.pc = "ports" => NowScanning(mgr) = {}
    /\ scan.pc = "gather" => ShownAs(mgr, scan.kind = "fast")
    /\ scan.pc = "gather" /\ ~scan.cancel =>
           NowScanning(mgr) = InUse /\ \A p \in Ports : ~tasks[p].cancel
-----------------------------------------------------------------------------
(* What a task tells the manager                                           *)

\* Only the events of a beginning and of an end say whether there is a scan.
LEMMA StartsAndCloses ==
    \A event : Starts(event) \/ Closes(event) => Has(event, "scanning")
  BY DEF Starts, Closes, StartEvent, IdleEvent, FinishedEvent, Has

\* A manager that is told of its ports and of devices goes on working.
LEMMA WorkingPut ==
    ASSUME NEW m, Working(m), NEW n \in Managers, NEW event \in Events,
           n.queue = Append(m.queue, event), ~Has(event, "scanning"),
           Len(n.ports_now_scanning) = Len(m.ports_now_scanning),
           IF Has(event, "scanning_ports")
           THEN event.scanning_ports = Len(n.ports_now_scanning)
           ELSE n.ports_now_scanning = m.ports_now_scanning
    PROVE  Working(n)
<1> DEFINE q == m.queue
           r == n.queue
<1>1. q \in Seq(Events) /\ m \in Managers
  BY DEF Working, Managers
<1>2. /\ Len(q) \in Nat /\ Len(r) = Len(q) + 1 /\ r[Len(q) + 1] = event
      /\ \A i \in 1 .. Len(q) : r[i] = q[i]
  BY <1>1, AppendProperties
<1>3. r # <<>> /\ (q # <<>> => r[1] = q[1]) /\ (q = <<>> => r[1] = event)
  <2>1. r \in Seq(Events)
    BY DEF Managers
  <2> HIDE DEF q, r
  <2>2. (q = <<>> => Len(q) = 0) /\ (q # <<>> => Len(q) >= 1) /\ (r = <<>> => Len(r) = 0)
    BY <1>1, <2>1, EmptySeq
  <2>. QED
    BY <1>2, <2>2
<1>4. ~Starts(event) /\ ~Closes(event)
  BY StartsAndCloses
<1>5. q = <<>> => state.scanning
  BY DEF Working
<1>6. StartComesFirst(r)
  <2>1. \A i \in 2 .. Len(r) : ~Starts(r[i])
    BY <1>2, <1>4 DEF Working, StartComesFirst
  <2>2. Starts(r[1]) => state.scanning_ports = 0
    BY <1>3, <1>4 DEF Working, StartComesFirst
  <2>3. ~Starts(r[1]) => state.scanning
    BY <1>3, <1>5 DEF Working, StartComesFirst
  <2>. QED
    BY <2>1, <2>2, <2>3 DEF StartComesFirst
<1>7. \A i \in 1 .. Len(r) : ~Closes(r[i])
  BY <1>2, <1>4 DEF Working
<1>8. Starts(r[1]) => r[1] = StartEvent(scan.preserve)
  BY <1>3, <1>4 DEF Working
<1>9. \/ LastOf("scanning_ports", r, state, Len(n.ports_now_scanning))
      \/ LastOf("scanning_ports", r, state, 0) /\ NowScanning(n) = {}
  <2>1. CASE Has(event, "scanning_ports")
    BY <1>1, <2>1, LastOfAppend
  <2>2. CASE ~Has(event, "scanning_ports")
    <3>1. NowScanning(n) = NowScanning(m)
      BY <2>2 DEF NowScanning
    <3>. QED
      BY <1>1, <2>2, <3>1, LastOfAppend DEF Working
  <2>. QED
    BY <2>1, <2>2
<1>. QED
  BY <1>3, <1>6, <1>7, <1>8, <1>9 DEF Working

LEMMA ShownAsPut ==
    ASSUME NEW m \in Managers, NEW ext, ShownAs(m, ext), NEW n, NEW event \in Events,
           n.queue = Append(m.queue, event),
           IF Has(event, "is_ext_scan") THEN event.is_ext_scan = ext
           ELSE NowScanning(n) \subseteq NowScanning(m)
    PROVE  ShownAs(n, ext)
<1>1. m.queue \in Seq(Events)
  BY DEF Managers
<1>. QED
  BY <1>1, LastOfAppend DEF ShownAs

Telling(m, ext) == Working(m) /\ ShownAs(m, ext)

\* A port more is shown.
LEMMA AddScanningPortShown ==
    ASSUME NEW ext \in BOOLEAN, NEW m, Telling(m, ext), NEW item \in Items
    PROVE  /\ Telling(AddScanningPort(m, item, ext), ext)
           /\ NowScanning(AddScanningPort(m, item, ext)) = NowScanning(m) \cup {item}
<1> DEFINE n == AddScanningPort(m, item, ext)
           ref == Len(m.ports_now_scanning)
           now == [m.ports_now_scanning EXCEPT ![ref] = @ \cup {item}]
           event == [scanning_ports |-> ref, is_ext_scan |-> ext]
<1>1. m \in Managers /\ m.ports_now_scanning \in Objects
  BY DEF Telling, Working, Managers
<1>2. n \in Managers
  BY <1>1, AddScanningPortType
<1>3. n.queue = Append(m.queue, event) /\ n.ports_now_scanning = now
  BY <1>1 DEF AddScanningPort, Put, Managers
<1>4. ref \in Nat \ {0} /\ Len(now) = ref /\ now[ref] = m.ports_now_scanning[ref] \cup {item}
  BY <1>1, EmptySeq DEF Objects
<1>5. event \in Events
  BY <1>4 DEF Events
<1>6. /\ Has(event, "scanning_ports") /\ Has(event, "is_ext_scan") /\ ~Has(event, "scanning")
      /\ event.scanning_ports = ref /\ event.is_ext_scan = ext
  BY DEF Has
<1> HIDE DEF n, event, now
<1>7. Working(n)
  BY <1>1, <1>2, <1>3, <1>4, <1>5, <1>6, WorkingPut DEF Telling
<1>8. ShownAs(n, ext)
  BY <1>1, <1>3, <1>5, <1>6, ShownAsPut DEF Telling
<1>9. NowScanning(n) = NowScanning(m) \cup {item}
  BY <1>3, <1>4 DEF NowScanning
<1>. QED
  BY <1>7, <1>8, <1>9 DEF Telling, n

\* A port less is shown.
LEMMA RemoveScanningPortShown ==
    ASSUME NEW ext \in BOOLEAN, NEW m, Telling(m, ext), NEW item \in Items
    PROVE  /\ Telling(RemoveScanningPort(m, item), ext)
           /\ NowScanning(RemoveScanningPort(m, item)) = NowScanning(m) \ {item}
<1> DEFINE n == RemoveScanningPort(m, item)
           ref == Len(m.ports_now_scanning)
           now == [m.ports_now_scanning EXCEPT ![ref] = @ \ {item}]
           event == [scanning_ports |-> ref, progress |-> Progress(m)]
<1>1. m \in Managers /\ m.ports_now_scanning \in Objects
  BY DEF Telling, Working, Managers
<1>2. n \in Managers /\ Progress(m) \in Nat
  BY <1>1, RemoveScanningPortType, ProgressType
<1>3. n.queue = Append(m.queue, event) /\ n.ports_now_scanning = now
  BY <1>1 DEF RemoveScanningPort, Put, Managers
<1>4. ref \in Nat \ {0} /\ Len(now) = ref /\ now[ref] = m.ports_now_scanning[ref] \ {item}
  BY <1>1, EmptySeq DEF Objects
<1>5. event \in Events
  BY <1>2, <1>4 DEF Events
<1>6. /\ Has(event, "scanning_ports") /\ ~Has(event, "is_ext_scan") /\ ~Has(event, "scanning")
      /\ event.scanning_ports = ref
  BY DEF Has
<1> HIDE DEF n, event, now
<1>7. Working(n)
  BY <1>1, <1>2, <1>3, <1>4, <1>5, <1>6, WorkingPut DEF Telling
<1>8. NowScanning(n) = NowScanning(m) \ {item}
  BY <1>3, <1>4 DEF NowScanning
<1>9. ShownAs(n, ext)
  BY <1>1, <1>3, <1>5, <1>6, <1>8, ShownAsPut DEF Telling
<1>. QED
  BY <1>7, <1>8, <1>9 DEF Telling, n

\* What leaves the ports alone and says nothing of them
LEMMA OtherPut ==
    ASSUME NEW ext \in BOOLEAN, NEW m, Telling(m, ext), NEW n \in Managers, NEW event \in Events,
           n.queue = Append(m.queue, event), n.ports_now_scanning = m.ports_now_scanning,
           ~Has(event, "scanning"), ~Has(event, "scanning_ports"), ~Has(event, "is_ext_scan")
    PROVE  Telling(n, ext) /\ NowScanning(n) = NowScanning(m)
<1>1. m \in Managers
  BY DEF Telling, Working
<1>2. NowScanning(n) = NowScanning(m)
  BY DEF NowScanning
<1>3. Working(n)
  BY WorkingPut DEF Telling
<1>4. ShownAs(n, ext)
  BY <1>1, <1>2, ShownAsPut DEF Telling
<1>. QED
  BY <1>2, <1>3, <1>4 DEF Telling

LEMMA AddErrorPortShown ==
    ASSUME NEW ext \in BOOLEAN, NEW m, Telling(m, ext), NEW item \in Items
    PROVE  /\ Telling(AddErrorPort(m, item), ext)
           /\ NowScanning(AddErrorPort(m, item)) = NowScanning(m)
<1> DEFINE n == AddErrorPort(m, item)
           ref == Len(m.ports_errored)
           event == [error |-> FailedScanError(ref)]
<1>1. m \in Managers
  BY DEF Telling, Working
<1>2. n \in Managers
  BY <1>1, AddErrorPortType
<1>3. n.queue = Append(m.queue, event) /\ n.ports_now_scanning = m.ports_now_scanning
  BY <1>1 DEF AddErrorPort, Put, Managers
<1>4. event \in Events
  <2>1. ref \in Nat
    BY <1>1 DEF Managers, Objects
  <2>. QED
    BY <2>1 DEF Events, FailedScanError, Errors, ErrorIds
<1>5. ~Has(event, "scanning") /\ ~Has(event, "scanning_ports") /\ ~Has(event, "is_ext_scan")
  BY DEF Has
<1> HIDE DEF n, event
<1>6. Telling(n, ext) /\ NowScanning(n) = NowScanning(m)
  BY <1>2, <1>3, <1>4, <1>5, OtherPut
<1>. QED
  BY <1>6 DEF n

LEMMA FoundDeviceShown ==
    ASSUME NEW ext \in BOOLEAN, NEW m, Telling(m, ext), NEW sn \in Sns
    PROVE  /\ Telling(FoundDevice(m, sn), ext)
           /\ NowScanning(FoundDevice(m, sn)) = NowScanning(m)
<1> DEFINE n == FoundDevice(m, sn)
           event == [device |-> sn]
<1>1. m \in Managers
  BY DEF Telling, Working
<1>2. n \in Managers
  BY <1>1, FoundDeviceType
<1>3. n.queue = Append(m.queue, event) /\ n.ports_now_scanning = m.ports_now_scanning
  BY <1>1 DEF FoundDevice, Put, Managers
<1>4. event \in Events
  BY DEF Events
<1>5. ~Has(event, "scanning") /\ ~Has(event, "scanning_ports") /\ ~Has(event, "is_ext_scan")
  BY DEF Has
<1> HIDE DEF n, event
<1>6. Telling(n, ext) /\ NowScanning(n) = NowScanning(m)
  BY <1>2, <1>3, <1>4, <1>5, OtherPut
<1>. QED
  BY <1>6 DEF n

\* What follows without the field changes nothing about it.
LEMMA LastOfConcat ==
    ASSUME NEW field, NEW q \in Seq(Events), NEW r \in Seq(Events), NEW s, NEW v,
           LastOf(field, q, s, v), \A i \in 1 .. Len(r) : ~Has(r[i], field)
    PROVE  LastOf(field, q \o r, s, v)
<1> DEFINE u == q \o r
<1>1. /\ Len(q) \in Nat /\ Len(r) \in Nat /\ Len(u) = Len(q) + Len(r)
      /\ \A i \in 1 .. Len(u) : u[i] = IF i <= Len(q) THEN q[i] ELSE r[i - Len(q)]
  BY ConcatProperties
<1> HIDE DEF u
<1>2. ASSUME NEW i \in 0 .. Len(q), \A j \in i + 1 .. Len(q) : ~Has(q[j], field)
      PROVE  \A j \in i + 1 .. Len(u) : ~Has(u[j], field)
  <2>. TAKE j \in i + 1 .. Len(u)
  <2>1. CASE j <= Len(q)
    BY <1>1, <1>2, <2>1
  <2>2. CASE j > Len(q)
    <3>1. j - Len(q) \in 1 .. Len(r) /\ u[j] = r[j - Len(q)]
      BY <1>1, <2>2
    <3>. QED
      BY <3>1
  <2>. QED
    BY <1>1, <2>1, <2>2
<1>3. CASE \E i \in 1 .. Len(q) : /\ Has(q[i], field) /\ q[i][field] = v
                                  /\ \A j \in i + 1 .. Len(q) : ~Has(q[j], field)
  <2>1. PICK i \in 1 .. Len(q) : /\ Has(q[i], field) /\ q[i][field] = v
                                 /\ \A j \in i + 1 .. Len(q) : ~Has(q[j], field)
    BY <1>3
  <2>2. \A j \in i + 1 .. Len(u) : ~Has(u[j], field)
    BY <1>1, <1>2, <2>1
  <2>3. i \in 1 .. Len(u) /\ u[i] = q[i]
    BY <1>1
  <2>. QED
    BY <2>1, <2>2, <2>3 DEF LastOf, u
<1>4. CASE s[field] = v /\ \A j \in 1 .. Len(q) : ~Has(q[j], field)
  <2>1. 0 \in 0 .. Len(q) /\ 0 + 1 = 1
    BY <1>1
  <2>2. \A j \in 1 .. Len(u) : ~Has(u[j], field)
    BY <1>2, <1>4, <2>1
  <2>. QED
    BY <1>4, <2>2 DEF LastOf, u
<1>. QED
  BY <1>3, <1>4 DEF LastOf

\* The devices of one answer
LEMMA FoundDevicesShown ==
    ASSUME NEW ext \in BOOLEAN, NEW m, Telling(m, ext), NEW devs \in Seq(Serials)
    PROVE  /\ Telling(FoundDevices(m, devs), ext)
           /\ NowScanning(FoundDevices(m, devs)) = NowScanning(m)
<1> DEFINE n == FoundDevices(m, devs)
           q == m.queue
           events == [i \in 1 .. Len(devs) |-> [device |-> devs[i]]]
           r == n.queue
<1>1. m \in Managers /\ q \in Seq(Events)
  BY DEF Telling, Working, Managers
<1>2. n \in Managers
  BY <1>1, FoundDevicesType
<1>3. n.queue = q \o events /\ n.ports_now_scanning = m.ports_now_scanning
  BY <1>1 DEF FoundDevices, Managers
<1>4. /\ events \in Seq(Events)
      /\ \A i \in 1 .. Len(events) :
             /\ ~Has(events[i], "scanning") /\ ~Has(events[i], "scanning_ports")
             /\ ~Has(events[i], "is_ext_scan")
  <2>1. \A i \in 1 .. Len(devs) : devs[i] \in Sns /\ [device |-> devs[i]] \in Events
    BY DEF Sns, Events
  <2>2. Len(events) = Len(devs) /\ events \in Seq(Events)
    BY <2>1
  <2>. QED
    BY <2>2 DEF Has
<1> HIDE DEF n, events
<1>5. NowScanning(n) = NowScanning(m)
  BY <1>3 DEF NowScanning
<1>6. ShownAs(n, ext)
  BY <1>1, <1>3, <1>4, <1>5, LastOfConcat DEF Telling, ShownAs
<1>7. /\ Len(q) \in Nat /\ Len(events) \in Nat /\ Len(r) = Len(q) + Len(events)
      /\ \A i \in 1 .. Len(r) : r[i] = IF i <= Len(q) THEN q[i] ELSE events[i - Len(q)]
  BY <1>1, <1>3, <1>4, ConcatProperties
<1>8. \A i \in 1 .. Len(r) :
          IF i <= Len(q) THEN r[i] = q[i] ELSE ~Starts(r[i]) /\ ~Closes(r[i])
  <2>. TAKE i \in 1 .. Len(r)
  <2>1. CASE i > Len(q)
    <3>1. i - Len(q) \in 1 .. Len(events) /\ r[i] = events[i - Len(q)]
      BY <1>7, <2>1
    <3>. QED
      BY <1>4, <1>7, <2>1, <3>1, StartsAndCloses
  <2>. QED
    BY <1>7, <2>1
<1>9. StartComesFirst(r)
  <2>1. \A i \in 2 .. Len(r) : ~Starts(r[i])
    BY <1>7, <1>8 DEF Telling, Working, StartComesFirst
  <2>2. ASSUME r # <<>>
        PROVE  /\ q # <<>> => r[1] = q[1]
               /\ q = <<>> => ~Starts(r[1])
    <3>1. r \in Seq(Events)
      BY <1>2 DEF Managers
    <3>2. 1 \in 1 .. Len(r) /\ (q = <<>> => Len(q) = 0) /\ (q # <<>> => Len(q) >= 1)
      BY <1>1, <1>7, <2>2, <3>1, EmptySeq
    <3>. QED
      BY <1>7, <1>8, <3>2
  <2>. QED
    BY <2>1, <2>2 DEF Telling, Working, StartComesFirst
<1>10. Working(n)
  <2>1. \/ LastOf("scanning_ports", r, state, Len(n.ports_now_scanning))
        \/ LastOf("scanning_ports", r, state, 0) /\ NowScanning(n) = {}
    BY <1>1, <1>3, <1>4, <1>5, LastOfConcat DEF Telling, Working
  <2>2. \A i \in 1 .. Len(r) : ~Closes(r[i])
    BY <1>7, <1>8 DEF Telling, Working
  <2>3. r = <<>> => state.scanning
    <3>1. r = <<>> => q = <<>>
      BY <1>1, <1>7, EmptySeq
    <3>. QED
      BY <3>1 DEF Telling, Working
  <2>4. r # <<>> /\ Starts(r[1]) => r[1] = StartEvent(scan.preserve)
    <3>1. r # <<>> /\ Starts(r[1]) => Len(q) >= 1 /\ r[1] = q[1] /\ q # <<>>
      <4>1. r \in Seq(Events)
        BY <1>2 DEF Managers
      <4>2. r # <<>> => 1 \in 1 .. Len(r)
        BY <1>7, <4>1, EmptySeq
      <4>. QED
        BY <1>1, <1>7, <1>8, <4>2
    <3>. QED
      BY <3>1 DEF Telling, Working
  <2>. QED
    BY <1>2, <1>9, <2>1, <2>2, <2>3, <2>4 DEF Working
<1>. QED
  BY <1>5, <1>6, <1>10 DEF Telling, n
-----------------------------------------------------------------------------
(* The step of a port task                                                 *)

InUseBy(t, p) == IF t.pc = "rpc" THEN {Item(t, p)} ELSE {}

\* The step shows the port as the task uses it now, instead of what is gone.
Swaps(step, m, gone, p, ext) ==
    /\ Telling(step.mgr, ext)
    /\ step.task.cancel = FALSE
    /\ gone \subseteq NowScanning(m) =>
           NowScanning(step.mgr) = (NowScanning(m) \ gone) \cup InUseBy(step.task, p)

LEMMA AsksInUse ==
    ASSUME NEW t \in Tasks, NEW turn, NEW stage, NEW p \in Ports
    PROVE  InUseBy(Asks(t, turn, stage), p) = {Item(t, p)}
<1>1. Asks(t, turn, stage).pc = "rpc" /\ Asks(t, turn, stage).unit = t.unit
  BY DEF Asks, Tasks
<1>. QED
  BY <1>1 DEF InUseBy, Item

LEMMA AsksUncancelled ==
    ASSUME NEW t \in Tasks, NEW turn, NEW stage
    PROVE  Asks(t, turn, stage).cancel = FALSE
  BY DEF Asks, Tasks

LEMMA DoneTaskInUse == DoneTask.cancel = FALSE /\ \A p : InUseBy(DoneTask, p) = {}
  BY DEF DoneTask, NewTask, InUseBy

\* A step that tells nothing of the ports and asks again
LEMMA AsksShown ==
    ASSUME NEW t \in Tasks, NEW ext, NEW m, Telling(m, ext), NEW p \in Ports, NEW turn, NEW stage,
           NEW step, step.mgr = m, step.task = Asks(t, turn, stage)
    PROVE  Swaps(step, m, {Item(t, p)}, p, ext)
<1>1. step.task.cancel = FALSE
  BY AsksUncancelled
<1>2. InUseBy(step.task, p) = {Item(t, p)}
  BY AsksInUse
<1>. QED
  BY <1>1, <1>2 DEF Swaps

LEMMA BeginUnitShown ==
    ASSUME NEW t \in Tasks, NEW m, Telling(m, t.kind = "fast"), NEW p \in Ports,
           NEW unit \in 1 .. Units(t, p)
    PROVE  Swaps(BeginUnit(m, t, p, unit), m, {}, p, t.kind = "fast")
<1> DEFINE u == [t EXCEPT !.unit = unit]
           ext == t.kind = "fast"
           added == AddScanningPort(m, Item(u, p), ext)
           task == Asks(u, FirstTurn(u, p), FirstStage(t.kind))
<1>1. Units(t, p) \in Nat
  BY StateConstants, TaskConstants DEF Units
<1>2. u \in Tasks /\ u.unit = unit /\ u.kind = t.kind /\ u.ooo = t.ooo
  BY <1>1 DEF Tasks
<1>3. u.unit \in 1 .. Units(u, p)
  BY <1>2 DEF Units
<1>4. Item(u, p) \in Items
  BY <1>2, <1>3, UnitFacts
<1>5. Telling(added, ext) /\ NowScanning(added) = NowScanning(m) \cup {Item(u, p)}
  <2>1. ext \in BOOLEAN
    OBVIOUS
  <2> HIDE DEF u, ext
  <2>. QED
    BY <1>4, <2>1, AddScanningPortShown DEF ext
<1>6. task.cancel = FALSE
  <2> HIDE DEF u
  <2>. QED
    BY <1>2, AsksUncancelled
<1>7. InUseBy(task, p) = {Item(u, p)}
  <2> HIDE DEF u
  <2>. QED
    BY <1>2, AsksInUse
<1>8. BeginUnit(m, t, p, unit).mgr = added /\ BeginUnit(m, t, p, unit).task = task
  BY DEF BeginUnit
<1> HIDE DEF u, added, task
<1>. QED
  BY <1>5, <1>6, <1>7, <1>8 DEF Swaps

LEMMA EndUnitShown ==
    ASSUME NEW t \in Tasks, NEW m, Telling(m, t.kind = "fast"), NEW p \in Ports,
           t.unit \in 1 .. Units(t, p)
    PROVE  Swaps(EndUnit(m, t, p), m, {Item(t, p)}, p, t.kind = "fast")
<1> DEFINE left == RemoveScanningPort(m, Item(t, p))
<1>1. Telling(left, t.kind = "fast") /\ NowScanning(left) = NowScanning(m) \ {Item(t, p)}
  BY UnitFacts, RemoveScanningPortShown
<1>2. Units(t, p) \in Nat
  BY StateConstants, TaskConstants DEF Units
<1>3. CASE t.unit < Units(t, p)
  <2>1. t.unit + 1 \in 1 .. Units(t, p)
    BY <1>2, <1>3
  <2>2. EndUnit(m, t, p) = BeginUnit(left, t, p, t.unit + 1)
    BY <1>3 DEF EndUnit
  <2> HIDE DEF left
  <2>3. Swaps(EndUnit(m, t, p), left, {}, p, t.kind = "fast")
    BY <1>1, <2>1, <2>2, BeginUnitShown
  <2>. QED
    BY <1>1, <2>3 DEF Swaps
<1>4. CASE ~(t.unit < Units(t, p))
  <2>1. EndUnit(m, t, p).mgr = left /\ EndUnit(m, t, p).task = DoneTask
    BY <1>4 DEF EndUnit
  <2> HIDE DEF left
  <2>. QED
    BY <1>1, <2>1, DoneTaskInUse DEF Swaps
<1>. QED
  BY <1>3, <1>4

LEMMA NextTurnShown ==
    ASSUME NEW t \in Tasks, NEW m, Telling(m, t.kind = "fast"), NEW p \in Ports,
           t.unit \in 1 .. Units(t, p)
    PROVE  Swaps(NextTurn(m, t, p), m, {Item(t, p)}, p, t.kind = "fast")
<1>1. CASE t.turn < LastTurn(t, p)
  <2>1. /\ NextTurn(m, t, p).mgr = m
        /\ NextTurn(m, t, p).task = Asks(t, t.turn + 1, FirstStage(t.kind))
    BY <1>1 DEF NextTurn
  <2>. QED
    BY <2>1, AsksShown
<1>2. CASE ~(t.turn < LastTurn(t, p))
  BY <1>2, EndUnitShown DEF NextTurn
<1>. QED
  BY <1>1, <1>2

\* What the step of the task of p shows; a task that was cancelled may leave its port.
PortStepShows(step, p) ==
    /\ Telling(step.mgr, scan.kind = "fast")
    /\ step.task.cancel = FALSE
    /\ ~tasks[p].cancel => Swaps(step, mgr, InUseBy(tasks[p], p), p, scan.kind = "fast")

LEMMA SwapsShows ==
    ASSUME NEW p, NEW step, tasks[p].pc = "rpc", NEW m, NowScanning(m) = NowScanning(mgr),
           Swaps(step, m, {Item(tasks[p], p)}, p, scan.kind = "fast")
    PROVE  PortStepShows(step, p)
  BY DEF Swaps, PortStepShows, InUseBy

LEMMA FastStepShown ==
    ASSUME TaskTypeOK, TasksInRange, NEW p \in Ports, tasks[p].kind = scan.kind,
           Telling(mgr, scan.kind = "fast"), FastStep(p)
    PROVE  \E step : Moves(p, step) /\ PortStepShows(step, p)
<1> DEFINE t == tasks[p]
<1>1. t \in Tasks
  BY DEF TaskTypeOK
<1>2. t.pc = "rpc" /\ t.kind = "fast"
  BY DEF FastStep, FastFindsNothing, FastFinds, FastFindsAndFails, FastFails,
         FastCancelled, Waits
<1>3. t.unit \in 1 .. Units(t, p) /\ Item(t, p) \in Items
  BY <1>1, <1>2, UnitFacts DEF TasksInRange, TaskInRange
<1>4. Telling(mgr, TRUE) /\ (scan.kind = "fast") = TRUE /\ (t.kind = "fast") = TRUE
  BY <1>2
<1>5. ASSUME NEW m, Telling(m, TRUE), NowScanning(m) = NowScanning(mgr)
      PROVE  PortStepShows(EndUnit(m, t, p), p) /\ PortStepShows(FailedUnit(m, t, p), p)
  <2> DEFINE n == AddErrorPort(m, Item(t, p))
  <2>1. Telling(n, TRUE) /\ NowScanning(n) = NowScanning(m)
    BY <1>3, <1>5, AddErrorPortShown
  <2>2. FailedUnit(m, t, p) = EndUnit(n, t, p)
    BY DEF FailedUnit
  <2> HIDE DEF n
  <2>3. Swaps(EndUnit(m, t, p), m, {Item(t, p)}, p, TRUE)
    BY <1>1, <1>3, <1>4, <1>5, EndUnitShown
  <2>4. Swaps(EndUnit(n, t, p), n, {Item(t, p)}, p, TRUE)
    BY <1>1, <1>3, <1>4, <2>1, EndUnitShown
  <2>. QED
    BY <1>2, <1>4, <1>5, <2>1, <2>2, <2>3, <2>4, SwapsShows
<1>6. \A devs \in FastReplies : /\ Telling(FoundDevices(mgr, devs), TRUE)
                                /\ NowScanning(FoundDevices(mgr, devs)) = NowScanning(mgr)
  BY <1>4, FoundDevicesShown, FastConstants
<1>7. CASE FastFindsNothing(p)
  BY <1>4, <1>5, <1>7 DEF FastFindsNothing
<1>8. CASE FastFinds(p)
  <2>1. PICK devs \in FastReplies \ {<<>>} :
            Moves(p, [mgr |-> FoundDevices(mgr, devs), task |-> Asks(t, t.turn + 1, "scan")])
    BY <1>8 DEF FastFinds
  <2> DEFINE step == [mgr |-> FoundDevices(mgr, devs), task |-> Asks(t, t.turn + 1, "scan")]
  <2>2. step.mgr = FoundDevices(mgr, devs) /\ step.task = Asks(t, t.turn + 1, "scan")
    OBVIOUS
  <2> HIDE DEF step
  <2>3. Swaps(step, step.mgr, {Item(t, p)}, p, TRUE)
    BY <1>1, <1>6, <2>2, AsksShown
  <2>4. PortStepShows(step, p)
    BY <1>2, <1>4, <1>6, <2>2, <2>3, SwapsShows
  <2>. QED
    BY <2>1, <2>4 DEF step
<1>9. CASE FastFindsAndFails(p)
  BY <1>5, <1>6, <1>9 DEF FastFindsAndFails
<1>10. CASE FastFails(p)
  BY <1>4, <1>5, <1>10 DEF FastFails
<1>11. CASE FastCancelled(p)
  BY <1>4, <1>11, DoneTaskInUse DEF FastCancelled, IsCancelled, PortStepShows
<1>. QED
  BY <1>7, <1>8, <1>9, <1>10, <1>11 DEF FastStep

LEMMA SlowStepShown ==
    ASSUME TaskTypeOK, TasksInRange, NEW p \in Ports, tasks[p].kind = scan.kind,
           Telling(mgr, scan.kind = "fast"), SlowStep(p)
    PROVE  \E step : Moves(p, step) /\ PortStepShows(step, p)
<1> DEFINE t == tasks[p]
<1>1. t \in Tasks
  BY DEF TaskTypeOK
<1>2. t.pc = "rpc" /\ t.kind = "slow"
  BY DEF SlowStep, SlowFinds, SlowFindsNothing, SlowFails, SlowCancelled, Waits
<1>3. t.unit \in 1 .. Units(t, p) /\ Item(t, p) \in Items
  BY <1>1, <1>2, UnitFacts DEF TasksInRange, TaskInRange
<1>4. Telling(mgr, FALSE) /\ (scan.kind = "fast") = FALSE /\ (t.kind = "fast") = FALSE
  BY <1>2
<1>5. ASSUME NEW m, Telling(m, FALSE), NowScanning(m) = NowScanning(mgr)
      PROVE  PortStepShows(NextTurn(m, t, p), p)
  <2>1. Swaps(NextTurn(m, t, p), m, {Item(t, p)}, p, FALSE)
    BY <1>1, <1>3, <1>4, <1>5, NextTurnShown
  <2>. QED
    BY <1>2, <1>4, <1>5, <2>1, SwapsShows
<1>6. ASSUME NEW m, Telling(m, FALSE), NowScanning(m) = NowScanning(mgr)
      PROVE  PortStepShows([mgr |-> RemoveScanningPort(m, Item(t, p)), task |-> DoneTask], p)
  <2> DEFINE left == RemoveScanningPort(m, Item(t, p))
             step == [mgr |-> left, task |-> DoneTask]
  <2>1. Telling(left, FALSE) /\ NowScanning(left) = NowScanning(m) \ {Item(t, p)}
    BY <1>3, <1>6, RemoveScanningPortShown
  <2> HIDE DEF left
  <2>2. Swaps(step, m, {Item(t, p)}, p, FALSE)
    BY <2>1, DoneTaskInUse DEF Swaps
  <2>3. PortStepShows(step, p)
    <3> HIDE DEF step
    <3>. QED
      BY <1>2, <1>4, <1>6, <2>2, SwapsShows
  <2>. QED
    BY <2>3 DEF left
<1>7. CASE SlowFinds(p)
  <2>1. PICK sn \in Serials :
            Moves(p, NextTurn(IF IsDeviceFound(mgr, sn) THEN mgr ELSE FoundDevice(mgr, sn),
                              t, p))
    BY <1>7 DEF SlowFinds
  <2>2. Telling(FoundDevice(mgr, sn), FALSE) /\ NowScanning(FoundDevice(mgr, sn)) = NowScanning(mgr)
    BY <1>4, FoundDeviceShown DEF Sns
  <2>. QED
    BY <1>4, <1>5, <2>1, <2>2
<1>8. CASE SlowFindsNothing(p)
  BY <1>4, <1>5, <1>8 DEF SlowFindsNothing
<1>9. CASE SlowFails(p)
  <2> DEFINE m == AddErrorPort(mgr, Item(t, p))
  <2>1. Telling(m, FALSE) /\ NowScanning(m) = NowScanning(mgr)
    BY <1>3, <1>4, AddErrorPortShown
  <2>2. PortStepShows([mgr |-> RemoveScanningPort(m, Item(t, p)), task |-> DoneTask], p)
    <3> HIDE DEF m
    <3>. QED
      BY <1>6, <2>1
  <2>. QED
    BY <1>9, <2>2 DEF SlowFails
<1>10. CASE SlowCancelled(p)
  BY <1>4, <1>6, <1>10 DEF SlowCancelled
<1>. QED
  BY <1>7, <1>8, <1>9, <1>10 DEF SlowStep

LEMMA BootStepShown ==
    ASSUME TaskTypeOK, TasksInRange, NEW p \in Ports, tasks[p].kind = scan.kind,
           Telling(mgr, scan.kind = "fast"), BootStep(p)
    PROVE  \E step : Moves(p, step) /\ PortStepShows(step, p)
<1> DEFINE t == tasks[p]
<1>1. t \in Tasks
  BY DEF TaskTypeOK
<1>2. t.pc = "rpc" /\ t.kind = "boot"
  BY DEF BootStep, BootReadsFull, BootReadsNoFull, BootReadsShort, BootIsSilent,
         BootReadsSignature, BootFails, BootCancelled, BootWaits, Waits
<1>3. /\ t.unit \in 1 .. Units(t, p) /\ Item(t, p) \in Items
      /\ t.turn \in 1 .. LastTurn(t, p) /\ LastTurn(t, p) \in 1 .. NumIds
  BY <1>1, <1>2, UnitFacts DEF TasksInRange, TaskInRange
<1>4. Telling(mgr, FALSE) /\ (scan.kind = "fast") = FALSE /\ (t.kind = "fast") = FALSE
  BY <1>2
<1>5. ASSUME NEW m, Telling(m, FALSE), NowScanning(m) = NowScanning(mgr)
      PROVE  PortStepShows(NextTurn(m, t, p), p)
  <2>1. Swaps(NextTurn(m, t, p), m, {Item(t, p)}, p, FALSE)
    BY <1>1, <1>3, <1>4, <1>5, NextTurnShown
  <2>. QED
    BY <1>2, <1>4, <1>5, <2>1, SwapsShows
<1>6. BootSkips(p) => \E step : Moves(p, step) /\ PortStepShows(step, p)
  BY <1>4, <1>5 DEF BootSkips
<1>7. \A stage : BootAsks(p, stage) => \E step : Moves(p, step) /\ PortStepShows(step, p)
  <2>. TAKE stage
  <2> DEFINE step == [mgr |-> mgr, task |-> Asks(t, t.turn, stage)]
  <2>1. step.mgr = mgr /\ step.task = Asks(t, t.turn, stage)
    OBVIOUS
  <2> HIDE DEF step
  <2>2. Swaps(step, mgr, {Item(t, p)}, p, FALSE)
    BY <1>1, <1>4, <2>1, AsksShown
  <2>3. PortStepShows(step, p)
    BY <1>2, <1>4, <2>2, SwapsShows
  <2>. QED
    BY <2>3 DEF BootAsks, step
<1>8. BootFinds(p) => \E step : Moves(p, step) /\ PortStepShows(step, p)
  <2> DEFINE m == FoundDevice(mgr, BootSn(t, p))
  <2>1. t.turn \in 1 .. NumIds
    BY <1>3, StateConstants
  <2>2. BootSn(t, p) \in Sns
    BY <1>3, <2>1 DEF BootSn, Sns
  <2>3. Telling(m, FALSE) /\ NowScanning(m) = NowScanning(mgr)
    BY <1>4, <2>2, FoundDeviceShown
  <2>4. PortStepShows(NextTurn(m, t, p), p)
    <3> HIDE DEF m
    <3>. QED
      BY <1>5, <2>3
  <2>. QED
    BY <2>4 DEF BootFinds
<1>9. BootFails(p) => \E step : Moves(p, step) /\ PortStepShows(step, p)
  BY <1>3, <1>4, <1>5, AddErrorPortShown DEF BootFails
<1>10. BootCancelled(p) => \E step : Moves(p, step) /\ PortStepShows(step, p)
  BY <1>4, DoneTaskInUse DEF BootCancelled, IsCancelled, PortStepShows
<1>. QED
  BY <1>6, <1>7, <1>8, <1>9, <1>10
     DEF BootStep, BootReadsFull, BootReadsNoFull, BootReadsShort, BootIsSilent,
         BootReadsSignature

LEMMA PortStepShown ==
    ASSUME TaskTypeOK, TasksInRange, NEW p \in Ports, tasks[p].kind = scan.kind,
           Telling(mgr, scan.kind = "fast"), PortStep(p)
    PROVE  \E step : Moves(p, step) /\ PortStepShows(step, p)
<1> DEFINE t == tasks[p]
<1>1. CASE FirstStep(p)
  <2>1. t.pc = "new" /\ t \in Tasks /\ InUseBy(t, p) = {}
    BY <1>1 DEF FirstStep, TaskTypeOK, InUseBy
  <2>2. 1 \in 1 .. Units(t, p)
    BY StateConstants, TaskConstants DEF Units
  <2>3. Swaps(BeginUnit(mgr, t, p, 1), mgr, {}, p, scan.kind = "fast")
    BY <2>1, <2>2, BeginUnitShown
  <2>4. Swaps([mgr |-> mgr, task |-> DoneTask], mgr, {}, p, scan.kind = "fast")
    BY DoneTaskInUse DEF Swaps
  <2>5. PortStepShows(BeginUnit(mgr, t, p, 1), p)
    BY <2>1, <2>3 DEF PortStepShows, Swaps
  <2>6. PortStepShows([mgr |-> mgr, task |-> DoneTask], p)
    BY <2>1, <2>4 DEF PortStepShows, Swaps
  <2>. QED
    BY <1>1, <2>5, <2>6 DEF FirstStep
<1>. QED
  BY <1>1, FastStepShown, SlowStepShown, BootStepShown DEF PortStep
-----------------------------------------------------------------------------
(* The step of the scan task                                               *)

LEMMA EventFacts ==
    /\ \A preserve \in BOOLEAN :
           /\ StartEvent(preserve) \in Events /\ Starts(StartEvent(preserve))
           /\ ~Closes(StartEvent(preserve)) /\ ~Has(StartEvent(preserve), "scanning_ports")
    /\ CompleteEvent \in Events /\ IdleEvent \in Events
    /\ ~Starts(CompleteEvent) /\ ~Closes(CompleteEvent)
    /\ Has(CompleteEvent, "scanning_ports") /\ CompleteEvent.scanning_ports = 0
    /\ ~Starts(IdleEvent) /\ ~Has(IdleEvent, "scanning_ports")
    /\ \A error \in Errors :
           /\ FinishedEvent(error) \in Events /\ ~Starts(FinishedEvent(error))
           /\ Has(FinishedEvent(error), "scanning_ports")
           /\ FinishedEvent(error).scanning_ports = 0
<1>1. NoError \in Errors
  BY ErrorsType
<1>2. ASSUME NEW preserve \in BOOLEAN
      PROVE  /\ StartEvent(preserve) \in Events /\ Starts(StartEvent(preserve))
             /\ ~Closes(StartEvent(preserve)) /\ ~Has(StartEvent(preserve), "scanning_ports")
  <2>1. StartEvent(preserve) \in Events
    BY <1>1 DEF StartEvent, Events
  <2>2. preserve = TRUE \/ preserve = FALSE
    OBVIOUS
  <2>3. Starts(StartEvent(preserve))
    BY <2>2 DEF Starts
  <2>4. ~Closes(StartEvent(preserve)) /\ ~Has(StartEvent(preserve), "scanning_ports")
    BY DEF StartEvent, Closes, Has
  <2>. QED
    BY <2>1, <2>3, <2>4
<1>3. CompleteEvent \in Events /\ IdleEvent \in Events
  BY DEF CompleteEvent, IdleEvent, Events
<1>4. ~Starts(CompleteEvent) /\ ~Starts(IdleEvent)
  BY DEF CompleteEvent, IdleEvent, Starts, StartEvent
<1>5. /\ ~Closes(CompleteEvent) /\ ~Has(IdleEvent, "scanning_ports")
      /\ Has(CompleteEvent, "scanning_ports") /\ CompleteEvent.scanning_ports = 0
  BY DEF CompleteEvent, IdleEvent, Closes, Has
<1>6. ASSUME NEW error \in Errors
      PROVE  /\ FinishedEvent(error) \in Events /\ ~Starts(FinishedEvent(error))
             /\ Has(FinishedEvent(error), "scanning_ports")
             /\ FinishedEvent(error).scanning_ports = 0
  BY DEF FinishedEvent, Events, Starts, StartEvent, Has
<1>. QED
  BY <1>2, <1>3, <1>4, <1>5, <1>6

\* A manager that was told of nothing since its queue was empty
LEMMA ResetShown ==
    ASSUME state \in States, state.scanning_ports = 0, scan.preserve \in BOOLEAN,
           NEW m \in Managers, m.queue = <<>>
    PROVE  LET n == Reset(m, scan.preserve)
           IN  Working(n) /\ Resting(n) /\ NowScanning(n) = {}
<1> DEFINE n == Reset(m, scan.preserve)
           event == StartEvent(scan.preserve)
<1>1. /\ event \in Events /\ Starts(event) /\ ~Closes(event) /\ ~Has(event, "scanning_ports")
  BY EventFacts
<1>2. n \in Managers
  BY ResetType
<1>3. n.queue = Append(m.queue, event) /\ n.ports_now_scanning = Append(m.ports_now_scanning, {})
  BY DEF Reset, Put, Managers
<1> HIDE DEF n, event
<1>4. Len(n.queue) = 1 /\ n.queue[1] = event /\ n.queue # <<>>
  BY <1>1, <1>3
<1>5. NowScanning(n) = {}
  <2>1. m.ports_now_scanning \in Seq(SUBSET Items)
    BY DEF Managers, Objects
  <2>2. Len(Append(m.ports_now_scanning, {})) = Len(m.ports_now_scanning) + 1
        /\ Append(m.ports_now_scanning, {})[Len(m.ports_now_scanning) + 1] = {}
    BY <2>1, AppendProperties
  <2>. QED
    BY <1>3, <2>2 DEF NowScanning
<1>6. LastOf("scanning_ports", n.queue, state, 0)
  <2>1. \A j \in 1 .. Len(n.queue) : ~Has(n.queue[j], "scanning_ports")
    BY <1>1, <1>4
  <2>. QED
    BY <2>1 DEF LastOf
<1>7. StartComesFirst(n.queue)
  <2>1. \A i \in 2 .. Len(n.queue) : ~Starts(n.queue[i])
    BY <1>4
  <2>. QED
    BY <1>1, <1>4, <2>1 DEF StartComesFirst
<1>8. \A i \in 1 .. Len(n.queue) : ~Closes(n.queue[i])
  BY <1>1, <1>4
<1>9. \A i \in 1 .. Len(n.queue) - 1 : ~Closes(n.queue[i])
  BY <1>4
<1>10. n.queue[1] = StartEvent(scan.preserve)
  BY <1>4 DEF event
<1>. QED
  BY <1>2, <1>4, <1>5, <1>6, <1>7, <1>8, <1>9, <1>10 DEF Working, Resting, n

\* The events at the end of a scan leave no port shown.
LEMMA ClosingPut ==
    ASSUME NEW q \in Seq(Events), NEW event \in Events, ~Starts(event),
           StartComesFirst(q), q = <<>> => state.scanning,
           \A i \in 1 .. Len(q) : ~Closes(q[i]),
           IF Has(event, "scanning_ports") THEN event.scanning_ports = 0
                                           ELSE LastOf("scanning_ports", q, state, 0)
    PROVE  LET r == Append(q, event)
           IN  /\ StartComesFirst(r) /\ r # <<>>
               /\ \A i \in 1 .. Len(r) - 1 : ~Closes(r[i])
               /\ ~Closes(event) => \A i \in 1 .. Len(r) : ~Closes(r[i])
               /\ Starts(r[1]) => q # <<>> /\ r[1] = q[1]
               /\ LastOf("scanning_ports", r, state, 0)
<1> DEFINE r == Append(q, event)
<1>1. /\ Len(q) \in Nat /\ Len(r) = Len(q) + 1 /\ r[Len(q) + 1] = event
      /\ \A i \in 1 .. Len(q) : r[i] = q[i]
      /\ r \in Seq(Events)
  BY AppendProperties
<1>2. LastOf("scanning_ports", r, state, 0)
  BY LastOfAppend
<1> HIDE DEF r
<1>3. (q = <<>> => Len(q) = 0) /\ (q # <<>> => Len(q) >= 1) /\ r # <<>>
  BY <1>1, EmptySeq
<1>4. (q # <<>> => r[1] = q[1]) /\ (q = <<>> => r[1] = event)
  BY <1>1, <1>3
<1>5. \A i \in 2 .. Len(r) : ~Starts(r[i])
  BY <1>1 DEF StartComesFirst
<1>6. StartComesFirst(r)
  BY <1>3, <1>4, <1>5 DEF StartComesFirst
<1>7. \A i \in 1 .. Len(r) - 1 : ~Closes(r[i])
  BY <1>1
<1>8. ~Closes(event) => \A i \in 1 .. Len(r) : ~Closes(r[i])
  BY <1>1
<1>. QED
  BY <1>2, <1>3, <1>4, <1>6, <1>7, <1>8 DEF r

LEMMA FinishedShown ==
    ASSUME NEW m, Working(m), NEW error \in Errors
    PROVE  Resting(ScanFinished(m, error)) /\ FirstFits(ScanFinished(m, error))
<1> DEFINE n == ScanFinished(m, error)
           event == FinishedEvent(error)
<1>1. m \in Managers /\ m.queue \in Seq(Events)
  BY DEF Working, Managers
<1>2. n.queue = Append(m.queue, event)
  BY <1>1 DEF ScanFinished, Put, Managers
<1>3. /\ event \in Events /\ ~Starts(event)
      /\ Has(event, "scanning_ports") /\ event.scanning_ports = 0
  BY EventFacts
<1> HIDE DEF n, event
<1>4. /\ StartComesFirst(n.queue)
      /\ \A i \in 1 .. Len(n.queue) - 1 : ~Closes(n.queue[i])
      /\ Starts(n.queue[1]) => m.queue # <<>> /\ n.queue[1] = m.queue[1]
      /\ LastOf("scanning_ports", n.queue, state, 0)
  BY <1>1, <1>2, <1>3, ClosingPut DEF Working
<1>. QED
  BY <1>4 DEF Resting, FirstFits, Working, n

LEMMA CompleteShown ==
    ASSUME NEW m, Working(m)
    PROVE  Resting(ScanComplete(m)) /\ FirstFits(ScanComplete(m))
<1> DEFINE k == Put(m, CompleteEvent)
           n == Put(k, IdleEvent)
<1>1. m \in Managers /\ m.queue \in Seq(Events)
  BY DEF Working, Managers
<1>2. k \in Managers /\ k.queue \in Seq(Events) /\ k.queue = Append(m.queue, CompleteEvent)
  <2>1. k \in Managers
    BY <1>1, EventFacts, PutType
  <2>. QED
    BY <1>1, <2>1 DEF Put, Managers
<1> HIDE DEF k
<1>3. n.queue = Append(k.queue, IdleEvent)
  BY <1>2 DEF Put, Managers
<1>4. n = ScanComplete(m)
  BY DEF ScanComplete, k
<1> HIDE DEF n
<1>5. /\ StartComesFirst(k.queue) /\ k.queue # <<>>
      /\ \A i \in 1 .. Len(k.queue) : ~Closes(k.queue[i])
      /\ Starts(k.queue[1]) => m.queue # <<>> /\ k.queue[1] = m.queue[1]
      /\ LastOf("scanning_ports", k.queue, state, 0)
  BY <1>1, <1>2, EventFacts, ClosingPut DEF Working
<1>6. /\ StartComesFirst(n.queue)
      /\ \A i \in 1 .. Len(n.queue) - 1 : ~Closes(n.queue[i])
      /\ Starts(n.queue[1]) => k.queue # <<>> /\ n.queue[1] = k.queue[1]
      /\ LastOf("scanning_ports", n.queue, state, 0)
  BY <1>2, <1>3, <1>5, EventFacts, ClosingPut
<1>. QED
  BY <1>4, <1>5, <1>6 DEF Resting, FirstFits, Working

\* What the step of the scan task shows: no port yet, or none any more.
ScanStepShows(step) ==
    /\ step.scan.preserve = scan.preserve
    /\ step.scan.pc \in {"ports", "gather", "done"} /\ FirstFits(step.mgr)
    /\ step.scan.pc # "done" => Working(step.mgr) /\ NowScanning(step.mgr) = {}
    /\ step.scan.pc # "gather" => Resting(step.mgr)
    /\ step.scan.pc = "gather" =>
           \A p \in Ports : step.tasks[p].pc # "rpc" /\ step.tasks[p].cancel = FALSE

LEMMA FinishesShown ==
    ASSUME TypeOK, NEW m, Resting(m), FirstFits(m), NEW result
    PROVE  ScanStepShows(Finishes(m, result))
<1> DEFINE step == Finishes(m, result)
<1>1. step.mgr = m /\ step.scan.pc = "done" /\ step.scan.preserve = scan.preserve
  BY DEF Finishes, TypeOK, ScanRecords
<1> HIDE DEF step
<1>. QED
  BY <1>1 DEF ScanStepShows, step

LEMMA GathersShown ==
    ASSUME TypeOK, NEW m, Working(m), NowScanning(m) = {}, NEW kind \in Kinds, NEW ports
    PROVE  ScanStepShows(Gathers(m, kind, ports))
<1> DEFINE step == Gathers(m, kind, ports)
<1>1. step.mgr = m /\ step.scan.pc = "gather" /\ step.scan.preserve = scan.preserve
  BY DEF Gathers, TypeOK, ScanRecords
<1>2. \A p \in Ports : step.tasks[p].pc # "rpc" /\ step.tasks[p].cancel = FALSE
  BY DEF Gathers, NewTask, DoneTask
<1> HIDE DEF step
<1>3. FirstFits(m)
  BY DEF Working, FirstFits
<1>. QED
  BY <1>1, <1>2, <1>3 DEF ScanStepShows, step

LEMMA ScansShown ==
    ASSUME TypeOK, NEW m, Working(m), NowScanning(m) = {}, NEW ports \in SUBSET Ports
    PROVE  ScanStepShows(Scans(m, ports))
<1>1. scan \in ScanRecords
  BY DEF TypeOK
<1>2. CASE ItemsCount(ports) > 0
  <2> DEFINE n == SetScanItemsCount(m, ItemsCount(ports))
  <2>1. n \in Managers /\ n.queue = m.queue /\ n.ports_now_scanning = m.ports_now_scanning
    BY <1>1, ItemsCountType, SetScanItemsCountType DEF SetScanItemsCount, Working, Managers
  <2> HIDE DEF n
  <2>2. NowScanning(n) = NowScanning(m)
    BY <2>1 DEF NowScanning
  <2>3. Working(n)
    BY <2>1, <2>2 DEF Working
  <2>4. FirstKind \in Kinds
    BY <1>1 DEF FirstKind, Kinds, ScanRecords
  <2>5. ScanStepShows(Gathers(n, FirstKind, ports))
    BY <2>2, <2>3, <2>4, GathersShown
  <2>. QED
    BY <1>2, <2>5 DEF Scans, n
<1>3. ScanStepShows(Finishes(ScanFinished(m, GenericError), "failed"))
  BY ErrorsType, FinishedShown, FinishesShown
<1>4. ScanStepShows(Finishes(ScanComplete(m), "complete"))
  BY CompleteShown, FinishesShown
<1>. QED
  BY <1>2, <1>3, <1>4 DEF Scans

LEMMA ScanStepShown ==
    ASSUME QInv, ShownInv, ScanStep
    PROVE  \E step : ScanMoves(step) /\ ScanStepShows(step)
<1>1. /\ TypeOK /\ mgr \in Managers /\ state \in States /\ scan \in ScanRecords
      /\ scan.preserve \in BOOLEAN
  BY DEF QInv, IInv, TypeOK, StateTypeOK, ScanRecords
<1> DEFINE reset == Reset(mgr, scan.preserve)
<1>2. ASSUME scan.pc \in {"new", "load"}, mgr.queue = <<>>
      PROVE  Working(reset) /\ Resting(reset) /\ NowScanning(reset) = {}
  <2>1. state.scanning_ports = 0
    BY <1>2, LastOfNil DEF ShownInv, Resting
  <2>. QED
    BY <1>1, <1>2, <2>1, ResetShown
<1> HIDE DEF reset
<1>3. ASSUME NEW result, scan.pc # "gather", FirstFits(mgr)
      PROVE  ScanStepShows(Finishes(mgr, result))
  BY <1>1, <1>3, FinishesShown DEF ShownInv
<1>4. ASSUME NEW result, NEW error \in Errors, scan.pc \in {"ports", "gather"}
      PROVE  ScanStepShows(Finishes(ScanFinished(mgr, error), result))
  BY <1>1, <1>4, FinishedShown, FinishesShown DEF ShownInv
<1>5. CASE ScanBegins
  <2>1. scan.ports \in SUBSET Ports
    BY <1>1 DEF ScanRecords
  <2>2. ScanStepShows(Scans(reset, scan.ports))
    BY <1>1, <1>2, <1>5, <2>1, ScansShown DEF ScanBegins, ScanReady
  <2>. QED
    BY <1>5, <2>2 DEF ScanBegins, reset
<1>6. CASE ScanAsksForPorts
  <2> DEFINE step == [mgr |-> reset, tasks |-> tasks, result |-> "running",
                      scan |-> [scan EXCEPT !.pc = "ports"]]
  <2>1. step.mgr = reset /\ step.scan.pc = "ports" /\ step.scan.preserve = scan.preserve
    BY <1>1 DEF ScanRecords
  <2>2. ScanMoves(step)
    BY <1>6 DEF ScanAsksForPorts, reset
  <2> HIDE DEF step
  <2>3. Working(reset) /\ Resting(reset) /\ NowScanning(reset) = {}
    BY <1>2, <1>6 DEF ScanAsksForPorts, ScanReady
  <2>4. ScanStepShows(step)
    BY <2>1, <2>3 DEF ScanStepShows, Working, FirstFits
  <2>. QED
    BY <2>2, <2>4
<1>7. CASE ScanNeverRuns
  <2>1. FirstFits(mgr)
    BY <1>7 DEF ScanNeverRuns, ScanReady, FirstFits
  <2>. QED
    BY <1>3, <1>7, <2>1 DEF ScanNeverRuns
<1>8. CASE PortsLoaded
  <2>1. PICK ports \in PortLists : ScanMoves(Scans(mgr, ports))
    BY <1>8 DEF PortsLoaded
  <2>2. ports \in SUBSET Ports /\ scan.pc = "ports"
    BY <1>8, ScanConstants DEF PortsLoaded, HasPorts
  <2>3. ScanStepShows(Scans(mgr, ports))
    BY <1>1, <2>2, ScansShown DEF ShownInv
  <2>. QED
    BY <2>1, <2>3
<1>9. CASE PortsTimeOut
  BY <1>4, <1>9, ErrorsType DEF PortsTimeOut
<1>10. CASE PortsFail
  BY <1>3, <1>10 DEF PortsFail, HasPorts, ShownInv
<1>11. CASE PortsCancelled
  BY <1>3, <1>11 DEF PortsCancelled, ShownInv
<1>12. CASE GatherReturns
  <2>1. scan.pc = "gather" /\ ~scan.cancel /\ AllDone
    BY <1>12 DEF GatherReturns
  <2>2. NowScanning(mgr) = {} /\ Working(mgr)
    BY <2>1 DEF ShownInv, InUse, AllDone, Alive
  <2>3. ScanStepShows(Gathers(mgr, "slow", scan.ports))
    BY <1>1, <2>2, GathersShown DEF Kinds
  <2>4. ScanStepShows(Finishes(ScanComplete(mgr), "complete"))
    BY <1>1, <2>2, CompleteShown, FinishesShown
  <2>. QED
    BY <1>12, <2>3, <2>4 DEF GatherReturns
<1>13. CASE GatherCancelled
  BY <1>4, <1>13, ErrorsType DEF GatherCancelled
<1>. QED
  BY <1>5, <1>6, <1>7, <1>8, <1>9, <1>10, <1>11, <1>12, <1>13 DEF ScanStep
-----------------------------------------------------------------------------
(* Every step keeps the invariant.                                         *)

LEMMA InitShownInv == Init => ShownInv
<1>. SUFFICES ASSUME Init PROVE ShownInv
  OBVIOUS
<1>1. mgr.queue = <<>> /\ state.scanning_ports = 0 /\ scan.pc = "none" /\ Len(mgr.queue) = 0
  BY DEF Init, StateInit, NoScan
<1>2. LastOf("scanning_ports", mgr.queue, state, 0)
  BY <1>1, LastOfNil
<1>3. /\ \A i \in 2 .. Len(mgr.queue) : ~Starts(mgr.queue[i])
      /\ \A i \in 1 .. Len(mgr.queue) - 1 : ~Closes(mgr.queue[i])
  BY <1>1
<1>. QED
  BY <1>1, <1>2, <1>3 DEF ShownInv, Resting, StartComesFirst, FirstFits

\* What the consumer does to the queue of a scan, at work or at its end
LEMMA ConsumeShown ==
    ASSUME QInv, Consume, StartComesFirst(mgr.queue),
           \A i \in 1 .. Len(mgr.queue) - 1 : ~Closes(mgr.queue[i])
    PROVE  /\ StartComesFirst(mgr.queue)'
           /\ \A i \in 1 .. Len(mgr'.queue) - 1 : ~Closes(mgr'.queue[i])
           /\ ~Closes(mgr.queue[Len(mgr.queue)]) =>
                  /\ mgr'.queue = <<>> => state'.scanning
                  /\ \A i \in 1 .. Len(mgr'.queue) : ~Closes(mgr'.queue[i])
           /\ mgr'.queue # <<>> => ~Starts(mgr'.queue[1])
           /\ \A field \in Fields : \A v : LastOf(field, mgr.queue, state, v)
                                           => LastOf(field, mgr'.queue, state', v)
<1> DEFINE q == mgr.queue
           r == mgr'.queue
<1>1. q \in Seq(Events) /\ q # <<>> /\ state \in States
  BY DEF QInv, IInv, TypeOK, StateTypeOK, Consume, Managers
<1>2. state' = Applied(state, Head(q)) /\ r = Tail(q)
  BY DEF Consume, QInv, IInv, TypeOK, StateTypeOK, Managers
<1>3. /\ Len(q) \in Nat \ {0} /\ Len(r) = Len(q) - 1 /\ Head(q) = q[1] /\ r \in Seq(Events)
      /\ \A i \in 1 .. Len(r) : r[i] = q[i + 1]
  BY <1>1, <1>2, EmptySeq, HeadTailProperties
<1>4. \A field \in Fields : \A v : LastOf(field, q, state, v) => LastOf(field, r, state', v)
  BY <1>1, <1>2, LastOfConsume
<1> HIDE DEF q, r
<1>5. ASSUME ~Closes(q[1])
      PROVE  state'.scanning
  <2>1. state'.scanning = IF Has(q[1], "scanning") THEN q[1].scanning ELSE state.scanning
    BY <1>2, <1>3 DEF Applied, Has
  <2>2. q[1] \in Events
    BY <1>1, <1>3
  <2>3. Has(q[1], "scanning") => q[1].scanning \in BOOLEAN
    BY <2>2 DEF Events, Has
  <2>4. CASE Has(q[1], "scanning")
    BY <1>5, <2>1, <2>3, <2>4 DEF Closes
  <2>5. CASE ~Has(q[1], "scanning")
    <3>1. ~Starts(q[1])
      BY <2>5, StartsAndCloses
    <3>. QED
      BY <1>1, <2>1, <2>5, <3>1 DEF StartComesFirst, q
  <2>. QED
    BY <2>4, <2>5
<1>6. \A i \in 1 .. Len(r) : ~Starts(r[i])
  <2>. TAKE i \in 1 .. Len(r)
  <2>1. i + 1 \in 2 .. Len(q) /\ r[i] = q[i + 1]
    BY <1>3
  <2>. QED
    BY <2>1 DEF StartComesFirst, q
<1>7. r # <<>> => 1 \in 1 .. Len(r) /\ 1 \in 1 .. Len(q) - 1
  BY <1>3, EmptySeq
<1>8. r # <<>> => ~Closes(q[1]) /\ ~Starts(r[1])
  BY <1>6, <1>7 DEF q
<1>9. StartComesFirst(mgr.queue)'
  <2>1. \A i \in 2 .. Len(r) : ~Starts(r[i])
    BY <1>3, <1>6
  <2>2. r # <<>> => ~Starts(r[1]) /\ state'.scanning
    BY <1>5, <1>8
  <2>. QED
    BY <2>1, <2>2 DEF StartComesFirst, Starts, r
<1>10. \A i \in 1 .. Len(r) - 1 : ~Closes(r[i])
  <2>. TAKE i \in 1 .. Len(r) - 1
  <2>1. i + 1 \in 1 .. Len(q) - 1 /\ r[i] = q[i + 1]
    BY <1>3
  <2>. QED
    BY <2>1 DEF q
<1>11. ASSUME ~Closes(q[Len(q)])
       PROVE  /\ r = <<>> => state'.scanning
              /\ \A i \in 1 .. Len(r) : ~Closes(r[i])
  <2>1. \A i \in 1 .. Len(q) : ~Closes(q[i])
    <3>. TAKE i \in 1 .. Len(q)
    <3>1. i = Len(q) \/ i \in 1 .. Len(q) - 1
      BY <1>3
    <3>. QED
      BY <1>11, <3>1 DEF q
  <2>2. 1 \in 1 .. Len(q) /\ \A i \in 1 .. Len(r) : i + 1 \in 1 .. Len(q)
    BY <1>3
  <2>. QED
    BY <1>3, <1>5, <2>1, <2>2
<1>. QED
  BY <1>4, <1>8, <1>9, <1>10, <1>11 DEF q, r

LEMMA ConsumerShownInv ==
    ASSUME QInv, ShownInv, (ConsumerStarts \/ Consume) /\ UNCHANGED <<tasks, scanVars>>
    PROVE  ShownInv'
<1>1. UNCHANGED <<tasks, scan>>
  BY DEF scanVars
<1>2. CASE ConsumerStarts
  <2>1. UNCHANGED <<mgr, state>>
    BY <1>2 DEF ConsumerStarts
  <2>. QED
    BY <1>1, <2>1 DEF ShownInv, Working, Resting, FirstFits, StartComesFirst, ShownAs, InUse
<1>3. CASE Consume
  <2>1. mgr \in Managers /\ mgr' \in Managers /\ mgr.queue \in Seq(Events) /\ mgr.queue # <<>>
        /\ mgr'.ports_now_scanning = mgr.ports_now_scanning
    <3>1. mgr \in Managers /\ mgr.queue \in Seq(Events) /\ mgr.queue # <<>>
      BY <1>3 DEF Consume, QInv, IInv, TypeOK, StateTypeOK, Managers
    <3>2. mgr' = [mgr EXCEPT !.queue = Tail(mgr.queue)] /\ Tail(mgr.queue) \in Seq(Events)
      BY <1>3, <3>1, HeadTailProperties DEF Consume
    <3>. QED
      BY <3>1, <3>2 DEF Managers
  <2>2. Len(mgr.queue) \in 1 .. Len(mgr.queue)
    BY <2>1, EmptySeq
  <2>3. NowScanning(mgr') = NowScanning(mgr)
    BY <2>1 DEF NowScanning
  <2>4. "scanning_ports" \in Fields /\ "is_ext_scan" \in Fields
    BY DEF Fields
  <2>5. ASSUME Working(mgr)
        PROVE  Working(mgr)'
    <3>1. \A i \in 1 .. Len(mgr.queue) - 1 : ~Closes(mgr.queue[i])
      BY <2>5, <2>2 DEF Working
    <3>2. /\ StartComesFirst(mgr.queue)'
          /\ mgr'.queue = <<>> => state'.scanning
          /\ \A i \in 1 .. Len(mgr'.queue) : ~Closes(mgr'.queue[i])
          /\ mgr'.queue # <<>> => ~Starts(mgr'.queue[1])
          /\ \A v : LastOf("scanning_ports", mgr.queue, state, v)
                        => LastOf("scanning_ports", mgr'.queue, state', v)
      BY <1>3, <2>2, <2>4, <2>5, <3>1, ConsumeShown DEF Working
    <3>3. \/ LastOf("scanning_ports", mgr'.queue, state', Len(mgr'.ports_now_scanning))
          \/ LastOf("scanning_ports", mgr'.queue, state', 0) /\ NowScanning(mgr') = {}
      BY <2>1, <2>3, <2>5, <3>2 DEF Working
    <3>. QED
      BY <2>1, <3>2, <3>3 DEF Working
  <2>6. ASSUME Resting(mgr)
        PROVE  Resting(mgr)'
    <3>1. /\ StartComesFirst(mgr.queue)'
          /\ \A i \in 1 .. Len(mgr'.queue) - 1 : ~Closes(mgr'.queue[i])
          /\ LastOf("scanning_ports", mgr'.queue, state', 0)
      BY <1>3, <2>4, <2>6, ConsumeShown DEF Resting
    <3>. QED
      BY <3>1 DEF Resting
  <2>7. \A i \in 1 .. Len(mgr.queue) - 1 : ~Closes(mgr.queue[i])
    BY <2>2 DEF ShownInv, Working, Resting
  <2>8. StartComesFirst(mgr.queue)
    BY DEF ShownInv, Working, Resting
  <2>9. FirstFits(mgr)'
    BY <1>3, <2>7, <2>8, ConsumeShown DEF FirstFits
  <2>10. ASSUME NEW ext, ShownAs(mgr, ext)
         PROVE  NowScanning(mgr') # {} => LastOf("is_ext_scan", mgr'.queue, state', ext)
    BY <1>3, <2>3, <2>4, <2>7, <2>8, <2>10, ConsumeShown DEF ShownAs
  <2>11. (scan.pc = "gather" => ShownAs(mgr, scan.kind = "fast"))'
    BY <1>1, <2>10 DEF ShownInv, ShownAs
  <2>12. InUse' = InUse
    BY <1>1 DEF InUse
  <2>13. (scan.pc \in {"ports", "gather"} => Working(mgr))'
    BY <1>1, <2>5 DEF ShownInv
  <2>14. (scan.pc # "gather" => Resting(mgr))'
    BY <1>1, <2>6 DEF ShownInv
  <2>. QED
    BY <1>1, <2>3, <2>9, <2>11, <2>12, <2>13, <2>14 DEF ShownInv
<1>. QED
  BY <1>2, <1>3

\* The ports in use after one task has moved
LEMMA InUseMoves ==
    ASSUME NEW p \in Ports, tasks \in [Ports -> Tasks], NEW task,
           tasks' = [tasks EXCEPT ![p] = task]
    PROVE  InUse' = (InUse \ InUseBy(tasks[p], p)) \cup InUseBy(task, p)
<1>1. \A q \in Ports : tasks'[q] = IF q = p THEN task ELSE tasks[q]
  OBVIOUS
<1>2. \A t, r : Item(t, r)[1] = r
  BY DEF Item
<1>3. \A x : x \in InUse <=> \E q \in Ports : tasks[q].pc = "rpc" /\ x = Item(tasks[q], q)
  BY DEF InUse
<1>4. \A x : x \in InUse' <=> \E q \in Ports : tasks'[q].pc = "rpc" /\ x = Item(tasks'[q], q)
  BY DEF InUse, Item
<1>5. ASSUME NEW x \in InUse'
      PROVE  x \in (InUse \ InUseBy(tasks[p], p)) \cup InUseBy(task, p)
  <2>1. PICK q \in Ports : tasks'[q].pc = "rpc" /\ x = Item(tasks'[q], q)
    BY <1>4, <1>5
  <2>2. CASE q = p
    BY <1>1, <2>1, <2>2 DEF InUseBy
  <2>3. CASE q # p
    <3>1. x \in InUse /\ x[1] = q
      BY <1>1, <1>2, <1>3, <2>1, <2>3
    <3>. QED
      BY <1>2, <2>3, <3>1 DEF InUseBy
  <2>. QED
    BY <2>2, <2>3
<1>6. ASSUME NEW x \in (InUse \ InUseBy(tasks[p], p)) \cup InUseBy(task, p)
      PROVE  x \in InUse'
  <2>1. CASE x \in InUseBy(task, p)
    <3>1. task.pc = "rpc" /\ x = Item(task, p)
      BY <2>1 DEF InUseBy
    <3>. QED
      BY <1>1, <1>4, <3>1
  <2>2. CASE x \in InUse /\ x \notin InUseBy(tasks[p], p)
    <3>1. PICK q \in Ports : tasks[q].pc = "rpc" /\ x = Item(tasks[q], q)
      BY <1>3, <2>2
    <3>2. q # p
      BY <2>2, <3>1 DEF InUseBy
    <3>. QED
      BY <1>1, <1>4, <3>1, <3>2
  <2>. QED
    BY <1>6, <2>1, <2>2
<1>. QED
  BY <1>5, <1>6

LEMMA PortShownInv ==
    ASSUME QInv, ShownInv, NEW p \in Ports, (Answer(p) \/ PortStep(p)) /\ UNCHANGED scanVars
    PROVE  ShownInv'
<1>1. UNCHANGED scan
  BY DEF scanVars
<1>2. tasks \in [Ports -> Tasks] /\ StateTypeOK /\ TaskTypeOK /\ TasksInRange
  BY DEF QInv, IInv, TypeOK, TaskTypeOK
<1>3. CASE Answer(p)
  <2>1. UNCHANGED <<mgr, state>> /\ tasks' = [tasks EXCEPT ![p].answered = TRUE]
    BY <1>3 DEF Answer, stateVars
  <2>2. \A q \in Ports : /\ tasks'[q].pc = tasks[q].pc /\ tasks'[q].unit = tasks[q].unit
                         /\ tasks'[q].cancel = tasks[q].cancel
    BY <1>2, <2>1 DEF Tasks
  <2>3. InUse' = InUse
    BY <2>2 DEF InUse, Item
  <2>4. (\A q \in Ports : ~tasks[q].cancel) => \A q \in Ports : ~tasks'[q].cancel
    BY <2>2
  <2>. QED
    BY <1>1, <2>1, <2>3, <2>4
       DEF ShownInv, Working, Resting, FirstFits, StartComesFirst, ShownAs
<1>4. CASE PortStep(p)
  <2>1. Alive(p) /\ scan.pc = "gather"
    BY <1>2, <1>4, PortStepGood DEF QInv, IInv, NoOrphanTasks, AllDone
  <2>2. tasks[p].kind = scan.kind /\ Telling(mgr, scan.kind = "fast")
    BY <2>1 DEF QInv, TasksFit, ShownInv, Telling
  <2>3. PICK step : Moves(p, step) /\ PortStepShows(step, p)
    BY <1>2, <1>4, <2>2, PortStepShown
  <2>4. mgr' = step.mgr /\ tasks' = [tasks EXCEPT ![p] = step.task] /\ UNCHANGED state
    BY <2>3 DEF Moves
  <2>5. Working(step.mgr) /\ ShownAs(step.mgr, scan.kind = "fast")
    BY <2>3 DEF PortStepShows, Telling
  <2>6. Working(mgr)' /\ ShownAs(mgr, scan.kind = "fast")'
    BY <1>1, <2>4, <2>5 DEF Working, ShownAs, StartComesFirst
  <2>7. FirstFits(mgr)'
    BY <2>6 DEF Working, FirstFits
  <2>8. ASSUME ~scan.cancel
        PROVE  NowScanning(mgr') = InUse' /\ \A q \in Ports : ~tasks'[q].cancel
    <3>1. NowScanning(mgr) = InUse /\ \A q \in Ports : ~tasks[q].cancel
      BY <2>1, <2>8 DEF ShownInv
    <3>2. InUseBy(tasks[p], p) \subseteq InUse
      BY DEF InUseBy, InUse
    <3>3. NowScanning(step.mgr) = (InUse \ InUseBy(tasks[p], p)) \cup InUseBy(step.task, p)
      BY <2>3, <3>1, <3>2 DEF PortStepShows, Swaps
    <3>4. InUse' = (InUse \ InUseBy(tasks[p], p)) \cup InUseBy(step.task, p)
      BY <1>2, <2>4, InUseMoves
    <3>5. step.task.cancel = FALSE
      BY <2>3 DEF PortStepShows
    <3>6. \A q \in Ports : ~tasks'[q].cancel
      BY <1>2, <2>4, <3>1, <3>5
    <3>. QED
      BY <2>4, <3>3, <3>4, <3>6
  <2>9. (scan.pc = "gather" /\ ~scan.cancel
            => NowScanning(mgr) = InUse /\ \A q \in Ports : ~tasks[q].cancel)'
    BY <1>1, <2>8
  <2>. QED
    BY <1>1, <2>1, <2>6, <2>7, <2>9 DEF ShownInv
<1>. QED
  BY <1>3, <1>4

LEMMA ScanShownInv ==
    ASSUME QInv, ShownInv, ScanStep
    PROVE  ShownInv'
<1>1. PICK step : ScanMoves(step) /\ ScanStepShows(step)
  BY ScanStepShown
<1>2. mgr' = step.mgr /\ tasks' = step.tasks /\ scan' = step.scan /\ UNCHANGED state
  BY <1>1 DEF ScanMoves
<1>3. scan'.preserve = scan.preserve /\ scan'.pc \in {"ports", "gather", "done"}
  BY <1>1, <1>2 DEF ScanStepShows
<1>4. scan'.pc # "done" => Working(mgr)'
  BY <1>1, <1>2, <1>3 DEF ScanStepShows, Working, StartComesFirst
<1>5. scan'.pc # "gather" => Resting(mgr)'
  BY <1>1, <1>2 DEF ScanStepShows, Resting, StartComesFirst
<1>6. FirstFits(mgr)'
  BY <1>1, <1>2, <1>3 DEF ScanStepShows, FirstFits
<1>7. scan'.pc # "done" => NowScanning(mgr)' = {}
  BY <1>1, <1>2 DEF ScanStepShows, NowScanning
<1>8. scan'.pc = "gather" => InUse' = {} /\ \A p \in Ports : ~tasks'[p].cancel
  BY <1>1, <1>2 DEF ScanStepShows, InUse
<1>. QED
  BY <1>3, <1>4, <1>5, <1>6, <1>7, <1>8 DEF ShownInv, ShownAs

LEMMA RequestShownInv ==
    ASSUME QInv, ShownInv, PortsAnswered \/ \E c \in Clients : Request(c) \/ StopReturns(c)
    PROVE  ShownInv'
<1>1. UNCHANGED <<mgr, state>> /\ scan \in ScanRecords
  BY DEF PortsAnswered, Request, Start, StartRefused, Stop, StopRefused, StopReturns, stateVars,
         QInv, IInv, TypeOK
<1>2. Resting(mgr) => Resting(mgr)'
  BY <1>1 DEF Resting, StartComesFirst
<1>3. CASE \E c \in Clients : Start(c)
  <2>1. scan.pc \in {"none", "done"} /\ scan'.pc \in {"new", "load"}
    BY <1>1, <1>3 DEF Start, ScanAlive, NoScan, ScanRecords
  <2>. QED
    BY <1>2, <2>1 DEF ShownInv
<1>4. CASE ~\E c \in Clients : Start(c)
  <2>1. /\ scan'.pc = scan.pc /\ scan'.preserve = scan.preserve /\ scan'.kind = scan.kind
        /\ scan'.cancel = TRUE \/ (scan'.cancel = scan.cancel /\ UNCHANGED tasks)
    BY <1>1, <1>4 DEF PortsAnswered, Request, StartRefused, Stop, StopRefused, StopReturns,
                      ScanRecords
  <2>2. Working(mgr) => Working(mgr)'
    BY <1>1, <2>1 DEF Working, StartComesFirst
  <2>3. FirstFits(mgr) => FirstFits(mgr)'
    BY <1>1, <2>1 DEF FirstFits
  <2>4. ShownAs(mgr, scan.kind = "fast") => ShownAs(mgr, scan.kind = "fast")'
    BY <1>1, <2>1 DEF ShownAs
  <2>5. scan'.cancel \/ (~scan.cancel /\ InUse' = InUse /\ UNCHANGED tasks)
        \/ (scan.cancel /\ scan'.cancel)
    BY <2>1 DEF InUse
  <2>. QED
    BY <1>1, <1>2, <2>1, <2>2, <2>3, <2>4, <2>5 DEF ShownInv
<1>. QED
  BY <1>3, <1>4

\* Every step keeps what the queue says of the ports and of the beginning of a scan.
THEOREM ShownInvariance == Spec => []ShownInv
<1>1. QInv /\ ShownInv /\ Next => ShownInv'
  BY ConsumerShownInv, PortShownInv, ScanShownInv, RequestShownInv DEF Next
<1>2. QInv /\ ShownInv /\ UNCHANGED vars => ShownInv'
  BY DEF vars, ShownInv, Working, Resting, FirstFits, StartComesFirst, ShownAs, InUse
<1>. QED
  BY <1>1, <1>2, InitShownInv, QueueInvariance, PTL DEF Spec
-----------------------------------------------------------------------------
(* What a client is shown                                                  *)

\* While a scan goes on that nobody stops, the ports in use are listed, no more and no
\* less, as those of a fast scan or of another one, whenever the consumer has caught up.
THEOREM PortsShown == Spec => []ScannedPortsShown
<1>1. QInv /\ ShownInv => ScannedPortsShown
  <2>. SUFFICES ASSUME QInv, ShownInv, scan.pc = "gather", ~scan.cancel, mgr.queue = <<>>
                PROVE  /\ published.scanning_ports = InUse
                       /\ InUse # {} => published.is_ext_scan = (scan.kind = "fast")
    BY DEF ScannedPortsShown, Quiet
  <2>1. /\ published.scanning_ports = Deref(mgr.ports_now_scanning, state.scanning_ports)
        /\ published.is_ext_scan = state.is_ext_scan
    BY DEF QInv, Caught, StateJson
  <2>2. NowScanning(mgr) = InUse /\ Working(mgr) /\ ShownAs(mgr, scan.kind = "fast")
    BY DEF ShownInv
  <2>3. mgr.ports_now_scanning \in Objects
    BY DEF QInv, IInv, TypeOK, StateTypeOK, Managers
  <2>4. /\ Deref(mgr.ports_now_scanning, Len(mgr.ports_now_scanning)) = NowScanning(mgr)
        /\ Deref(mgr.ports_now_scanning, 0) = {}
    BY <2>3, LastObjectReplaced DEF Deref, NowScanning, Objects
  <2>5. \/ state.scanning_ports = Len(mgr.ports_now_scanning)
        \/ state.scanning_ports = 0 /\ NowScanning(mgr) = {}
    BY <2>2, LastOfNil DEF Working
  <2>6. InUse # {} => state.is_ext_scan = (scan.kind = "fast")
    BY <2>2, LastOfNil DEF ShownAs
  <2>. QED
    BY <2>1, <2>2, <2>4, <2>5, <2>6
<1>. QED
  BY <1>1, QueueInvariance, ShownInvariance, PTL

\* The first state shown of a scan has no port and no progress of an earlier one, and no
\* device and no error of one unless it is to preserve the old results.
THEOREM FreshStart == Spec => FreshScanShowsNothing
<1> DEFINE A == ~published.scanning /\ published'.scanning
                    => /\ published'.scanning_ports = {} /\ published'.progress = 0
                       /\ scan.pc \notin {"new", "load"} /\ ~scan.preserve
                              => published'.devices = <<>> /\ published'.error = "none"
<1>1. ASSUME QInv, ShownInv, Next
      PROVE  A
  <2>1. CASE Consume
    <3>. SUFFICES ASSUME ~published.scanning, published'.scanning
                  PROVE  /\ published'.scanning_ports = {} /\ published'.progress = 0
                         /\ scan.pc \notin {"new", "load"} /\ ~scan.preserve
                                => published'.devices = <<>> /\ published'.error = "none"
      OBVIOUS
    <3> DEFINE event == mgr.queue[1]
    <3>1. /\ mgr.queue # <<>> /\ state' = Applied(state, event)
          /\ published' = StateJson(state', mgr) /\ state \in States
          /\ mgr.ports_now_scanning \in Objects
      BY <1>1, <2>1 DEF Consume, QInv, IInv, TypeOK, StateTypeOK, Managers
    <3>2. StartComesFirst(mgr.queue)
      BY <1>1 DEF ShownInv, Working, Resting
    <3>3. ~state.scanning
      BY <1>1 DEF QInv, ShownState
    <3>4. Starts(event) /\ state.scanning_ports = 0
      BY <3>1, <3>2, <3>3 DEF StartComesFirst
    <3>5. PICK preserve \in BOOLEAN : event = StartEvent(preserve)
      BY <3>4 DEF Starts
    <3> HIDE DEF event
    <3>6. /\ "progress" \in DOMAIN event /\ event.progress = 0
          /\ "scanning_ports" \notin DOMAIN event /\ "device" \notin DOMAIN event
          /\ ~preserve => /\ "error" \in DOMAIN event /\ event.error = NoError
                          /\ "devices" \in DOMAIN event /\ event.devices = <<>>
      BY <3>5 DEF StartEvent
    <3>7. /\ state'.progress = 0 /\ state'.scanning_ports = 0
          /\ ~preserve => state'.error = NoError /\ state'.devices = <<>>
      BY <3>1, <3>4, <3>6 DEF Applied, NewProgress
    <3>8. published'.scanning_ports = {} /\ published'.progress = 0
      BY <3>1, <3>7 DEF StateJson, Deref, Objects
    <3>9. ASSUME scan.pc \notin {"new", "load"}, ~scan.preserve
          PROVE  published'.devices = <<>> /\ published'.error = "none"
      <4>1. event = StartEvent(scan.preserve)
        BY <1>1, <3>1, <3>4, <3>9 DEF ShownInv, FirstFits, event
      <4>2. StartEvent(scan.preserve) # StartEvent(TRUE)
        BY <3>9 DEF StartEvent
      <4>3. ~preserve
        BY <3>5, <4>1, <4>2
      <4>. QED
        BY <3>1, <3>7, <4>3 DEF StateJson, NoError
    <3>. QED
      BY <3>8, <3>9
  <2>2. CASE ConsumerStarts
    BY <1>1, <2>2 DEF ConsumerStarts, QInv, ShownState, StateJson
  <2>3. CASE \E p \in Ports : Answer(p) \/ PortStep(p)
    <3>1. published' = published
      BY <1>1, <2>3, PortStepGood DEF Answer, Moves, stateVars, QInv, IInv, TypeOK
    <3>. QED
      BY <3>1
  <2>4. CASE ScanStep
    <3>1. published' = published
      BY <1>1, <2>4, ScanStepFits DEF ScanMoves
    <3>. QED
      BY <3>1
  <2>5. CASE PortsAnswered \/ \E c \in Clients : Request(c) \/ StopReturns(c)
    <3>1. published' = published
      BY <2>5 DEF PortsAnswered, Request, Start, StartRefused, Stop, StopRefused, StopReturns,
                  stateVars
    <3>. QED
      BY <3>1
  <2>. QED
    BY <1>1, <2>1, <2>2, <2>3, <2>4, <2>5 DEF Next
<1>2. QInv /\ ShownInv /\ [Next]_vars => [A]_vars
  BY <1>1
<1>. QED
  BY <1>2, QueueInvariance, ShownInvariance, PTL DEF Spec, FreshScanShowsNothing
=============================================================================
