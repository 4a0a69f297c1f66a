---------------------------- MODULE MCAppTraffic ----------------------------
(***************************************************************************)
(* The applications of every scenario's main(), in install order, with   *)
(* times in tenths of a second.  A node is its index in the container     *)
(* the scenario assigns addresses to, so Ifaces(n) is the interface       *)
(* container of n nodes.                                                  *)
(***************************************************************************)
EXTENDS AppTraffic

Ifaces(n) == [i \in 1..n |-> i - 1]

Server(kind, node, port, start, stop) ==
    [kind |-> kind, node |-> node, port |-> port, ifaces |-> <<>>, index |-> 0,
     start |-> start, stop |-> stop, interval |-> 0, max |-> 0]

Client(kind, node, ifs, index, port, start, stop, interval, max) ==
    [kind |-> kind, node |-> node, port |-> port, ifaces |-> ifs, index |-> index,
     start |-> start, stop |-> stop, interval |-> interval, max |-> max]

IotAppsServerPortShifted(n, interval, starts, stop) ==
    [j \in 1..(2 * (n - 2)) |->
        LET i == (j + 1) \div 2 IN
        IF j % 2 = 1
          THEN Client("udpClient", i, Ifaces(n), 0, 7000 + i, starts[i], stop,
                      interval, 200)
          ELSE Server("udpServer", 0, 7000 + i - 1, 10, stop)]

(* for (i = 1; i < n - 1; ++i): UdpClient to node 0, port 7000 + i,      *)
(* MaxPackets 200, then a UdpServer on node 0, port 7000 + i, from 1 s.   *)
IotApps(n, interval, starts, stop) ==
    [j \in 1..(2 * (n - 2)) |->
        LET i == (j + 1) \div 2 IN
        IF j % 2 = 1
          THEN Client("udpClient", i, Ifaces(n), 0, 7000 + i, starts[i], stop,
                      interval, 200)
          ELSE Server("udpServer", 0, 7000 + i, 10, stop)]

(* UE 0 and UE 9 exchange UDP (OnOff) and TCP (BulkSend) both ways. *)
PairApps(n, onA, onB, bulkA, bulkB, stop) ==
    << Server("udpServer", n - 1, 5000, 10, stop),
       Server("udpServer", 0, 5001, 10, stop),
       Client("onoff", 0, Ifaces(n), n - 1, 5000, onA, stop, 0, 0),
       Client("onoff", n - 1, Ifaces(n), 0, 5001, onB, stop, 0, 0),
       Server("tcpSink", n - 1, 6000, 10, stop),
       Server("tcpSink", 0, 6001, 10, stop),
       Client("bulk", 0, Ifaces(n), n - 1, 6000, bulkA, stop, 0, 0),
       Client("bulk", n - 1, Ifaces(n), 0, 6001, bulkB, stop, 0, 0) >>

(* lte_playfield_traces.cc lines 380-452: IoT start 5.0 + 0.1 i. *)
LteStarts == [i \in 1..8 |-> 50 + i]
LteApps == PairApps(10, 20, 25, 30, 35, 100) \o IotApps(10, 20, LteStarts, 100)

(* wifi_mesh_playfield_traces.cc lines 287-373: IoT groups start at     *)
(* 1.8, 2.2 and 2.6 s, 0.1 s apart within a group.                      *)
PlayfieldStarts == [i \in 1..8 |->
    IF i <= 3 THEN 18 + (i - 1) ELSE IF i <= 6 THEN 22 + (i - 4) ELSE 26 + (i - 7)]
PlayfieldApps ==
    PairApps(10, 15, 20, 25, 30, 100) \o IotApps(10, 15, PlayfieldStarts, 100)

(* wifi_mesh_playfield_traces_fixed.cc lines 286-316. *)
FixedApps ==
    << Server("udpServer", 9, 5000, 10, 150),
       Client("onoff", 0, Ifaces(10), 9, 5000, 30, 150, 0, 0),
       Server("tcpSink", 9, 6000, 10, 150),
       Client("bulk", 0, Ifaces(10), 9, 6000, 40, 150, 0, 0) >>

AdhocAppsSayedIndex ==
    << Server("tcpSink", 3, 7000, 0, 100),
       Client("bulk", 2, Ifaces(4), 2, 7000, 0, 100, 0, 1) >>

(* simple_tcp_wifi_test_adhoc.cc lines 108-149: allNodes = mesh APs 0-1, *)
(* Sayed 2, Sadia 3; 1 MB is sent within the first tenth of a second.    *)
AdhocApps ==
    << Server("tcpSink", 3, 7000, 0, 100),
       Client("bulk", 2, Ifaces(4), 3, 7000, 0, 100, 0, 1) >>

(* wifi_mesh.cc lines 115-159: allNodes = nodes 0-5, special node 6;     *)
(* echo servers on 6, 3 and 4, clients on node 0.                        *)
WifiMeshApps ==
    << Server("echoServer", 6, 950, 10, 90),
       Server("echoServer", 3, 950, 10, 90),
       Server("echoServer", 4, 950, 10, 90),
       Client("echoClient", 0, Ifaces(7), 7 - 1, 950, 20, 90, 10, 10),
       Client("echoClient", 0, Ifaces(7), 3, 950, 20, 90, 10, 10),
       Client("echoClient", 0, Ifaces(7), 4, 950, 20, 90, 10, 10) >>

(* simple_tcp_wifi_test.cc lines 155-168: both at 0 s; the client        *)
(* addresses staInterfaces, whose index 1 is Sadia (node 3).              *)
WifiTestApps ==
    << Server("tcpSink", 3, 7000, 0, 100),
       Client("bulk", 2, <<2, 3>>, 1, 7000, 0, 100, 0, 1) >>

(* simple_tcp_mesh_test.cc lines 180-192: sink from 1 s, client from 2 s. *)
MeshTestApps ==
    << Server("tcpSink", 3, 7000, 10, 100),
       Client("bulk", 2, <<2, 3>>, 1, 7000, 20, 100, 0, 1) >>

MCScenarios ==
    {[apps |-> LteApps, stop |-> 100], [apps |-> PlayfieldApps, stop |-> 100],
     [apps |-> FixedApps, stop |-> 150], [apps |-> AdhocApps, stop |-> 100],
     [apps |-> WifiMeshApps, stop |-> 100], [apps |-> WifiTestApps, stop |-> 100],
     [apps |-> MeshTestApps, stop |-> 100]}
=============================================================================
