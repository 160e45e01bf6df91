------------------------------- MODULE HANode -------------------------------
(***************************************************************************)
(* Starting high availability (internal/ha): main calls Manager.Start, which *)
(* calls Node.Start, which starts the heartbeats, the election and switch-  *)
(* over managers and the state monitor, all with n.mu held, while peers     *)
(* dial the heartbeat listener and the goroutines just started ask for the  *)
(* node's role.  Readers of n.mu hold it within one action.                 *)
(***************************************************************************)
EXTENDS Integers

CONSTANT Peers \* the other nodes of the cluster

VARIABLES
    starter,   \* where the goroutine of main is
    nodeMu,    \* n.mu is held for writing by Node.Start
    nodeRunning, nodeState,
    subsystems,\* the parts of the node whose isRunning is set
    sender,    \* the goroutine sendHeartbeats
    monitor,   \* the goroutine monitorState
    inbound,   \* the goroutine that serves a heartbeat of each peer
    outbound,  \* the goroutine that sends a heartbeat to each peer
    peerState, \* n.peers: what the node believes of each peer
    httpServer \* the management server has been started

haVars == <<starter, nodeMu, nodeRunning, nodeState, subsystems, sender, monitor,
            inbound, outbound, peerState, httpServer>>

\* NewManager and NewNode: every peer unknown, nothing started.
HAInit ==
    /\ starter = "idle"
    /\ nodeMu = FALSE
    /\ nodeRunning = FALSE /\ nodeState = "starting"
    /\ subsystems = {}
    /\ sender = "none" /\ monitor = "none"
    /\ inbound = [p \in Peers |-> "none"]
    /\ outbound = [p \in Peers |-> "none"]
    /\ peerState = [p \in Peers |-> "unknown"]
    /\ httpServer = FALSE

-----------------------------------------------------------------------------
\* Manager.Start and Node.Start.

\* n.mu is taken for the whole of Node.Start.
StartEnters ==
    /\ starter = "idle"
    /\ ~nodeMu
    /\ nodeMu' = TRUE
    /\ starter' = "heartbeat"
    /\ UNCHANGED <<nodeRunning, nodeState, subsystems, sender, monitor, inbound, outbound,
                   peerState, httpServer>>

\* Heartbeat.Start: the listener, the receiver and the sender.
HeartbeatStart ==
    /\ starter = "heartbeat"
    /\ subsystems' = subsystems \cup {"heartbeat"}
    /\ sender' = "waiting"
    /\ starter' = "election"
    /\ UNCHANGED <<nodeMu, nodeRunning, nodeState, monitor, inbound, outbound, peerState, httpServer>>

\* The address is in use: Start returns the error.
HeartbeatStartFails ==
    /\ starter = "heartbeat"
    /\ nodeMu' = FALSE
    /\ starter' = "failed"
    /\ UNCHANGED <<nodeRunning, nodeState, subsystems, sender, monitor, inbound, outbound,
                   peerState, httpServer>>

\* Election.Start and Switchover.Start set a flag; neither fails.
ManagersStart ==
    /\ \/ starter = "election" /\ subsystems' = subsystems \cup {"election"} /\ starter' = "switchover"
       \/ starter = "switchover" /\ subsystems' = subsystems \cup {"switchover"} /\ starter' = "state"
    /\ UNCHANGED <<nodeMu, nodeRunning, nodeState, sender, monitor, inbound, outbound,
                   peerState, httpServer>>

\* StateManager.Start: its monitor; then the virtual address, and isRunning.
StateManagerStart ==
    /\ starter = "state"
    /\ subsystems' = subsystems \cup {"state"}
    /\ monitor' = "waiting"
    /\ nodeRunning' = TRUE
    /\ starter' = "setState"
    /\ UNCHANGED <<nodeMu, nodeState, sender, inbound, outbound, peerState, httpServer>>

\* setState locks n.mu, which its caller Start holds until it returns.
SetState ==
    /\ starter = "setState"
    /\ ~nodeMu
    /\ nodeState' = "normal"
    /\ starter' = "return"
    /\ UNCHANGED <<nodeMu, nodeRunning, subsystems, sender, monitor, inbound, outbound,
                   peerState, httpServer>>

StartReturns ==
    /\ starter = "return"
    /\ nodeMu' = FALSE
    /\ starter' = "http"
    /\ UNCHANGED <<nodeRunning, nodeState, subsystems, sender, monitor, inbound, outbound,
                   peerState, httpServer>>

\* The rest of Manager.Start.
StartHTTPServer ==
    /\ starter = "http"
    /\ httpServer' = TRUE
    /\ starter' = "started"
    /\ UNCHANGED <<nodeMu, nodeRunning, nodeState, subsystems, sender, monitor, inbound,
                   outbound, peerState>>

-----------------------------------------------------------------------------
\* The goroutines.

\* A heartbeat of a peer of the cluster is read: UpdatePeerNode.
ReceiveHeartbeat(p) ==
    /\ "heartbeat" \in subsystems
    /\ inbound[p] = "none"
    /\ peerState' = [peerState EXCEPT ![p] = "normal"]
    /\ inbound' = [inbound EXCEPT ![p] = "reply"]
    /\ UNCHANGED <<starter, nodeMu, nodeRunning, nodeState, subsystems, sender, monitor,
                   outbound, httpServer>>

\* The answer carries the node's role and state.
AnswerHeartbeat(p) ==
    /\ inbound[p] = "reply"
    /\ ~nodeMu
    /\ inbound' = [inbound EXCEPT ![p] = "none"]
    /\ UNCHANGED <<starter, nodeMu, nodeRunning, nodeState, subsystems, sender, monitor,
                   outbound, peerState, httpServer>>

\* The ticker of the sender, or of the monitor.
Ticks ==
    /\ \/ sender = "waiting" /\ sender' = "role" /\ UNCHANGED monitor
       \/ monitor = "waiting" /\ monitor' = "role" /\ UNCHANGED sender
    /\ UNCHANGED <<starter, nodeMu, nodeRunning, nodeState, subsystems, inbound, outbound,
                   peerState, httpServer>>

\* sendHeartbeatToAllPeers reads role and state, then a goroutine per peer dials.
SendHeartbeats ==
    /\ sender = "role"
    /\ ~nodeMu
    /\ sender' = "waiting"
    /\ outbound' = [p \in Peers |-> "dial"]
    /\ UNCHANGED <<starter, nodeMu, nodeRunning, nodeState, subsystems, monitor, inbound,
                   peerState, httpServer>>

\* The peer answers, or cannot be reached, or fails in between.
HeartbeatEnds(p) ==
    /\ outbound[p] = "dial"
    /\ outbound' = [outbound EXCEPT ![p] = "none"]
    /\ \E s \in {"normal", "abnormal", peerState[p]} : peerState' = [peerState EXCEPT ![p] = s]
    /\ UNCHANGED <<starter, nodeMu, nodeRunning, nodeState, subsystems, sender, monitor,
                   inbound, httpServer>>

\* checkClusterState begins with the node's role; what it decides is left out.
CheckClusterState ==
    /\ monitor = "role"
    /\ ~nodeMu
    /\ monitor' = "waiting"
    /\ UNCHANGED <<starter, nodeMu, nodeRunning, nodeState, subsystems, sender, inbound,
                   outbound, peerState, httpServer>>

StartSteps ==
    \/ StartEnters \/ HeartbeatStart \/ HeartbeatStartFails \/ ManagersStart
    \/ StateManagerStart \/ SetState \/ StartReturns \/ StartHTTPServer

HANext ==
    \/ StartSteps \/ Ticks \/ SendHeartbeats \/ CheckClusterState
    \/ \E p \in Peers : ReceiveHeartbeat(p) \/ AnswerHeartbeat(p) \/ HeartbeatEnds(p)

\* Goroutines that can run do, and tickers tick; peers owe nothing.
HAFairness ==
    /\ WF_haVars(StartSteps) /\ WF_haVars(Ticks)
    /\ SF_haVars(SendHeartbeats) /\ SF_haVars(CheckClusterState)
    /\ \A p \in Peers : SF_haVars(AnswerHeartbeat(p)) /\ WF_haVars(HeartbeatEnds(p))

HASpec == HAInit /\ [][HANext]_haVars /\ HAFairness

-----------------------------------------------------------------------------
\* High availability starts, or its start fails with an error: main waits for
\* either before it starts the web interface and waits for signals.
\* (main.go:280, manager.go:38-63.)
HAStartReturns == <>(starter \in {"started", "failed"})
=============================================================================
