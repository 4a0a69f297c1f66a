----------------------------- MODULE AppTraffic -----------------------------
(***************************************************************************)
(* The applications every scenario's main() installs, run by the ns-3    *)
(* event loop: servers (UdpServer, PacketSink, UdpEchoServer) bound to a  *)
(* port, and clients (OnOff, BulkSend, UdpClient, UdpEchoClient) that     *)
(* send to InetSocketAddress(ifaces.GetAddress(i), port).  The ns-3       *)
(* behaviour the set-up code relies on:                                   *)
(*  - every node is initialised at time 0, in node order; a node          *)
(*    initialises its applications in install order, and each schedules   *)
(*    its StartApplication and then its StopApplication event.  These get *)
(*    later insertion numbers than Simulator::Stop, called before Run;    *)
(*  - events fire in (time, insertion) order, and the stop event ends Run;*)
(*  - UdpClient and UdpEchoClient send at start and then every Interval   *)
(*    while fewer than MaxPackets (0: no limit) are sent; OnOff at a      *)
(*    constant rate and BulkSend send continuously, sampled here every    *)
(*    StreamTick; StopApplication cancels the pending send;              *)
(*  - BulkSend connects first: a SYN that finds no listening PacketSink   *)
(*    is refused and the sender never sends (it does not retry);         *)
(*  - a datagram or segment that finds no started, unstopped server of    *)
(*    its protocol on its port is answered with a port-unreachable;      *)
(*  - an echo server returns each request to the client's socket, which   *)
(*    StopApplication closes.                                             *)
(* Times are integer ticks (tenths of a second in the MC module); a       *)
(* packet takes one of Delays ticks to arrive.                            *)
(***************************************************************************)
EXTENDS Integers, Sequences, FiniteSets

CONSTANTS
    Scenarios,   \* [apps: Seq(App), stop: simulator stop time]
    Delays,      \* one-way delivery times, in ticks
    StreamTick,  \* sampling period of the constant-rate senders
    NoApp        \* the app field of the simulator's stop event

VARIABLES
    scn,         \* the scenario whose main() installed the applications
    now,         \* simulation time
    queue,       \* pending events [t, uid, ev, app]
    nextUid,     \* insertion number of the next scheduled event
    running,     \* started and not stopped
    sent,        \* packets (or stream samples) a client has sent
    delivered,   \* packets of a client that a listening server accepted
    conn,        \* BulkSend connection: "none", "syn", "open", "refused"
    closedHits,  \* packets that found no listening server (history)
    done         \* Simulator::Run has returned

vars == <<scn, now, queue, nextUid, running, sent, delivered, conn,
          closedHits, done>>

App(a) == scn.apps[a]
AppIds == DOMAIN scn.apps
Servers == {"udpServer", "tcpSink", "echoServer"}
IsClient(a) == App(a).kind \notin Servers
Proto(kind) == IF kind \in {"tcpSink", "bulk"} THEN "tcp" ELSE "udp"

(* InetSocketAddress(ifaces.GetAddress(index), port): the node owning the *)
(* index-th interface of the container the helper assigned addresses to. *)
DstNode(a) == App(a).ifaces[App(a).index + 1]

(* The servers that accept a packet of client a when it arrives. *)
Listeners(a) ==
    {s \in AppIds : /\ App(s).kind \in Servers
                    /\ App(s).node = DstNode(a)
                    /\ App(s).port = App(a).port
                    /\ Proto(App(s).kind) = Proto(App(a).kind)
                    /\ running[s]}

Period(a) == IF App(a).kind \in {"onoff", "bulk"} THEN StreamTick
             ELSE App(a).interval

Ev(t, uid, ev, a) == [t |-> t, uid |-> uid, ev |-> ev, app |-> a]

(* Node::Initialize order: by node, then by install order on the node. *)
Rank(a) ==
    Cardinality({b \in AppIds : \/ App(b).node < App(a).node
                                \/ App(b).node = App(a).node /\ b < a})

(* Simulator::Stop(simStop) is scheduled first; at time 0 every           *)
(* application schedules its start, then its stop.                        *)
InitialQueue ==
    {Ev(scn.stop, 0, "simstop", NoApp)}
    \cup {Ev(App(a).start, 2 * Rank(a) + 1, "start", a) : a \in AppIds}
    \cup {Ev(App(a).stop, 2 * Rank(a) + 2, "stop", a) : a \in AppIds}

Init ==
    /\ scn \in Scenarios
    /\ now = 0
    /\ queue = InitialQueue
    /\ nextUid = 2 * Len(scn.apps) + 1
    /\ running = [a \in AppIds |-> FALSE]
    /\ sent = [a \in AppIds |-> 0]
    /\ delivered = [a \in AppIds |-> 0]
    /\ conn = [a \in AppIds |-> "none"]
    /\ closedHits = 0
    /\ done = FALSE

\* e is the event the simulator processes next.
Earliest(e) ==
    \A f \in queue : e.t < f.t \/ (e.t = f.t /\ e.uid <= f.uid)

-----------------------------------------------------------------------------
(* One action per event handler; e is the event being processed. *)

SimulatorStop(e) ==
    /\ e.ev = "simstop"
    /\ done' = TRUE
    /\ queue' = queue \ {e}
    /\ UNCHANGED <<scn, nextUid, running, sent, delivered, conn, closedHits>>

(* A server's StartApplication binds its socket to the port. *)
StartServer(e) ==
    /\ e.ev = "start"
    /\ ~IsClient(e.app)
    /\ running' = [running EXCEPT ![e.app] = TRUE]
    /\ queue' = queue \ {e}
    /\ UNCHANGED <<scn, nextUid, sent, delivered, conn, closedHits, done>>

(* UdpClient, UdpEchoClient and OnOff schedule their first send now. *)
StartSender(e) ==
    /\ e.ev = "start"
    /\ IsClient(e.app)
    /\ App(e.app).kind # "bulk"
    /\ running' = [running EXCEPT ![e.app] = TRUE]
    /\ queue' = (queue \ {e}) \cup {Ev(e.t, nextUid, "send", e.app)}
    /\ nextUid' = nextUid + 1
    /\ UNCHANGED <<scn, sent, delivered, conn, closedHits, done>>

(* BulkSend::StartApplication: socket->Connect sends the SYN. *)
StartBulkSend(e) ==
    /\ e.ev = "start"
    /\ App(e.app).kind = "bulk"
    /\ running' = [running EXCEPT ![e.app] = TRUE]
    /\ conn' = [conn EXCEPT ![e.app] = "syn"]
    /\ \E d \in Delays :
         queue' = (queue \ {e}) \cup {Ev(e.t + d, nextUid, "syn", e.app)}
    /\ nextUid' = nextUid + 1
    /\ UNCHANGED <<scn, sent, delivered, closedHits, done>>

(* StopApplication closes the socket and cancels the pending send. *)
StopApplication(e) ==
    /\ e.ev = "stop"
    /\ running' = [running EXCEPT ![e.app] = FALSE]
    /\ queue' = {f \in queue \ {e} : ~(f.app = e.app /\ f.ev = "send")}
    /\ UNCHANGED <<scn, nextUid, sent, delivered, conn, closedHits, done>>

MoreToSendOffByOne(a) == App(a).max = 0 \/ sent[a] + 1 <= App(a).max

(* m_sent++; if (m_sent < m_count || m_count == 0) schedule the next send *)
MoreToSend(a) == App(a).max = 0 \/ sent[a] + 1 < App(a).max

(* One send of a client: the packet leaves, the next send is scheduled. *)
Send(e) ==
    /\ e.ev = "send"
    /\ sent' = [sent EXCEPT ![e.app] = @ + 1]
    /\ \E d \in Delays :
         queue' = (queue \ {e})
                  \cup {Ev(e.t + d, nextUid, "deliver", e.app)}
                  \cup (IF MoreToSend(e.app)
                        THEN {Ev(e.t + Period(e.app), nextUid + 1, "send", e.app)}
                        ELSE {})
    /\ nextUid' = nextUid + 2
    /\ UNCHANGED <<scn, running, delivered, conn, closedHits, done>>

(* A datagram or segment arrives: a listening UdpServer or PacketSink   *)
(* accepts it; with no listener the node answers port-unreachable.      *)
Receive(e) ==
    /\ e.ev = "deliver"
    /\ App(e.app).kind # "echoClient"
    /\ IF Listeners(e.app) # {}
         THEN /\ delivered' = [delivered EXCEPT ![e.app] = @ + 1]
              /\ closedHits' = closedHits
         ELSE /\ delivered' = delivered
              /\ closedHits' = closedHits + 1
    /\ queue' = queue \ {e}
    /\ UNCHANGED <<scn, nextUid, running, sent, conn, done>>

(* An echo request arrives: UdpEchoServer::HandleRead sends it back to   *)
(* its sender; with no listener the node answers port-unreachable.      *)
EchoRequest(e) ==
    /\ e.ev = "deliver"
    /\ App(e.app).kind = "echoClient"
    /\ IF Listeners(e.app) # {}
         THEN /\ delivered' = [delivered EXCEPT ![e.app] = @ + 1]
              /\ closedHits' = closedHits
              /\ \E d \in Delays :
                   queue' = (queue \ {e}) \cup {Ev(e.t + d, nextUid, "reply", e.app)}
         ELSE /\ delivered' = delivered
              /\ closedHits' = closedHits + 1
              /\ queue' = queue \ {e}
    /\ nextUid' = nextUid + 1
    /\ UNCHANGED <<scn, running, sent, conn, done>>

(* The echo reply reaches the client, whose socket is closed if stopped. *)
ReceiveReply(e) ==
    /\ e.ev = "reply"
    /\ closedHits' = IF running[e.app] THEN closedHits ELSE closedHits + 1
    /\ queue' = queue \ {e}
    /\ UNCHANGED <<scn, nextUid, running, sent, delivered, conn, done>>

(* The SYN arrives: a listening PacketSink answers with a SYN-ACK; with  *)
(* none the node answers RST, BulkSend's ConnectionFailed runs and the   *)
(* sender never retries.                                                 *)
SynArrives(e) ==
    /\ e.ev = "syn"
    /\ IF Listeners(e.app) # {}
         THEN /\ \E d \in Delays :
                   queue' = (queue \ {e}) \cup {Ev(e.t + d, nextUid, "synack", e.app)}
              /\ UNCHANGED <<conn, closedHits>>
         ELSE /\ closedHits' = closedHits + 1
              /\ conn' = [conn EXCEPT ![e.app] = "refused"]
              /\ queue' = queue \ {e}
    /\ nextUid' = nextUid + 1
    /\ UNCHANGED <<scn, running, sent, delivered, done>>

(* BulkSend::ConnectionSucceeded starts sending at once, unless the     *)
(* application was stopped meanwhile.                                    *)
ConnectionSucceeded(e) ==
    /\ e.ev = "synack"
    /\ IF running[e.app]
         THEN /\ conn' = [conn EXCEPT ![e.app] = "open"]
              /\ queue' = (queue \ {e}) \cup {Ev(e.t, nextUid, "send", e.app)}
         ELSE /\ conn' = conn
              /\ queue' = queue \ {e}
    /\ nextUid' = nextUid + 1
    /\ UNCHANGED <<scn, running, sent, delivered, closedHits, done>>

Handle(e) ==
    \/ SimulatorStop(e)
    \/ StartServer(e) \/ StartSender(e) \/ StartBulkSend(e)
    \/ StopApplication(e)
    \/ Send(e)
    \/ Receive(e) \/ EchoRequest(e) \/ ReceiveReply(e)
    \/ SynArrives(e) \/ ConnectionSucceeded(e)

Next ==
    /\ ~done
    /\ \E e \in queue :
         /\ Earliest(e)
         /\ now' = e.t
         /\ Handle(e)

Spec == Init /\ [][Next]_vars /\ WF_vars(Next)

-----------------------------------------------------------------------------
(* Type invariant; no client ever sends more than MaxPackets. *)
TypeOK ==
    /\ now \in Nat
    /\ running \in [AppIds -> BOOLEAN]
    /\ conn \in [AppIds -> {"none", "syn", "open", "refused"}]
    /\ \A a \in AppIds : App(a).max > 0 => sent[a] <= App(a).max
    /\ closedHits \in Nat

(* Every datagram, segment, SYN and echo reply the scenario's clients     *)
(* and echo servers send finds a started, unstopped application of its    *)
(* protocol on the node and port it is addressed to: the interface index *)
(* given to GetAddress, the ports of the client and server helpers, and   *)
(* the Start/Stop times all agree.                                        *)
NoTrafficToClosedPort == closedHits = 0

(* Every client that starts before the simulator stops eventually has a  *)
(* packet accepted by its server.                                          *)
EveryFlowDelivers ==
    <>(\A a \in AppIds :
          IsClient(a) /\ App(a).start < scn.stop => delivered[a] > 0)
=============================================================================
