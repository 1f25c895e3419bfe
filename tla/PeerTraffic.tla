----------------------------- MODULE PeerTraffic -----------------------------
(***************************************************************************)
(* The peers' sockets (src/net.cpp) beside BlockDownload, and what ends    *)
(* the wait for a block.  Whatever ThreadSocketHandler reads from a peer   *)
(* counts as activity, but only a complete message with a good header and  *)
(* checksum comes to ProcessMessage, which moves nLastBlockProcess, and    *)
(* only while the peer takes what it is sent.  A peer can therefore be     *)
(* active and never be heard, and neither check ends its connection.       *)
(*                                                                         *)
(* A message is read and taken up in one step.  That it may wait in        *)
(* between makes the last read older than here, which only the inactivity  *)
(* check could tell, and a connection may be lost at any step.             *)
(***************************************************************************)
EXTENDS BlockDownload

CONSTANTS
    Inactivity,    \* the 90 minutes without a read, in ticks
    Watched        \* the peers whose reads are timed; of the others' sockets
                   \* nothing is assumed

ASSUME TrafficAssumption == Inactivity \in Nat /\ Watched \subseteq Peers

VARIABLE recvAge    \* the time since nLastRecv of each peer

trafficVars == <<vars, recvAge>>

TrafficInit == Init /\ recvAge = [p \in Peers |-> 0]

Read(p) == recvAge' = [recvAge EXCEPT ![p] = 0]

(* Bytes are read of which nothing comes to ProcessMessage: part of a      *)
(* message, a message dropped for its header or checksum, or one that has  *)
(* to wait because the peer does not read what it is sent.                 *)
Receive(p) == conn[p] = "connected" /\ Read(p) /\ UNCHANGED vars

(* Bytes are read and ProcessMessage has the message they complete. *)
Handle(p) ==
    /\ Other(p) \/ \E b \in Blocks : Inv(p, b) \/ Block(p, b)
    /\ Read(p)

(* "socket inactivity timeout". *)
InactivityCheck(p) ==
    /\ recvAge[p] > Inactivity
    /\ SocketGone(p) /\ UNCHANGED recvAge

(* The peer closes the connection, or an error ends it. *)
Lost(p) == SocketGone(p) /\ UNCHANGED recvAge

Deleted(p) == FinalizeNode(p) /\ Read(p)

TimePasses ==
    /\ Tick
    /\ recvAge' = [p \in Peers |-> IF p \in Watched /\ conn[p] = "connected"
                                   THEN Older(recvAge[p], Inactivity + 1)
                                   ELSE recvAge[p]]

(* What BlockDownload does without a socket. *)
Internal ==
    /\ \/ \E b \in Blocks : Submit(b)
       \/ \E p \in Peers : Connect(p) \/ SendStep(p)
    /\ UNCHANGED recvAge

TrafficNext ==
    \/ TimePasses \/ Internal
    \/ \E p \in Peers :
          Receive(p) \/ Handle(p) \/ InactivityCheck(p) \/ Lost(p) \/ Deleted(p)

(* ThreadMessageHandler sends to every peer in turn, ThreadSocketHandler   *)
(* checks and deletes every peer in turn, and both get cs_main however     *)
(* often the others do.  Nothing is assumed of what peers send.            *)
TrafficFairness ==
    /\ WF_trafficVars(TimePasses)
    /\ \A p \in Peers :
          /\ SF_trafficVars(SendMessages(p) /\ UNCHANGED recvAge)
          /\ WF_trafficVars((Request(p) \/ Sent(p)) /\ UNCHANGED recvAge)
          /\ WF_trafficVars(InactivityCheck(p))
          /\ SF_trafficVars(Deleted(p))

FairSpec == TrafficInit /\ [][TrafficNext]_trafficVars /\ TrafficFairness

-----------------------------------------------------------------------------
(* What is read from p again and again is not all lost on ProcessMessage,  *)
(* which nothing in the code can make a peer see to.  (Where a message     *)
(* would change nothing, reading it and having it are the same step.)      *)
Heard(p) ==
    []<><<Receive(p)>>_trafficVars => []<><<Handle(p)>>_trafficVars

(* A peer that is silent or is heard cannot hold a block: a request ends    *)
(* (the block arrives, from this peer or another, or the peer is            *)
(* disconnected), unless the peer delivers other blocks that it was asked   *)
(* for, again and again.  Only a peer of which bytes keep being read and    *)
(* none of them comes to ProcessMessage is waited for without end.          *)
RequestEnds ==
    \A p \in Watched : Heard(p) =>
        \A b \in Blocks : []<>(dl.mapBlocksInFlight[b] # p \/ dl.receiveAge[p] = 0)

(* Nor does a block stay queued for such a peer forever: it is requested,   *)
(* arrives otherwise, or is free to be announced by others.                 *)
QueueMoves ==
    \A p \in Watched : Heard(p) =>
        \A b \in Blocks : dl.mapBlocksToDownload[b] = p ~> dl.mapBlocksToDownload[b] # p

=============================================================================
