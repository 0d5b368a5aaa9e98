----------------------------- MODULE MCBusScan -----------------------------
(* Instances of BusScan small enough for TLC. *)
EXTENDS BusScan, TLC
CONSTANTS p1, p2, t1, s1, s2, c1, c2

NoDevice == {<<>>}
OneDevice == {<<>>, <<s1>>}
AllPorts == {SerialPorts \cup TcpPorts}
UpToTwoPorts == {ports \in SUBSET (SerialPorts \cup TcpPorts) : Cardinality(ports) <= 2}
NamesNone == {NoPort}
NamesOneOrNone == {{p} : p \in SerialPorts \cup TcpPorts} \cup {{}, NoPort}
=============================================================================
