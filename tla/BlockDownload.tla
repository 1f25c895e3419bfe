---------------------------- MODULE BlockDownload ----------------------------
(***************************************************************************)
(* Which block is asked for from which peer (src/main.cpp): the blocks the *)
(* peers announce are queued per peer, requested a few at a time, and      *)
(* found again, when they arrive or their peer goes, through two maps of   *)
(* iterators into the lists of the peers.                                  *)
(*                                                                         *)
(* A peer is a NodeId, which is used once.  Peers may send anything in any *)
(* order.  A message with several hashes is several steps.  What           *)
(* ProcessBlock makes of a block (ChainActivation has it in full) is a     *)
(* choice among its outcomes; the getblocks messages sent on the way       *)
(* change no state of this module.                                         *)
(*                                                                         *)
(* Times are ages in ticks, none told apart beyond the longest that a      *)
(* comparison asks for: see Tick and Processed.                            *)
(***************************************************************************)
EXTENDS Integers, Sequences, FiniteSets, SequencesExt

CONSTANTS
    Blocks,        \* the hashes of the blocks the peers announce
    Peers,         \* the peers that connect
    NoNode,        \* no peer
    MaxInTransit,  \* MAX_BLOCKS_IN_TRANSIT_PER_PEER
    MaxOrphans,    \* MAX_ORPHAN_BLOCKS
    Timeout,       \* BLOCK_DOWNLOAD_TIMEOUT, in ticks
    QueueLimit,    \* the 5000 blocks a peer may have queued
    Penalty,       \* the misbehaviour of one more
    BanScore       \* -banscore

ASSUME DownloadAssumption ==
    /\ NoNode \notin Peers
    /\ {MaxInTransit, Penalty, BanScore} \subseteq Nat \ {0}
    /\ {MaxOrphans, Timeout, QueueLimit} \subseteq Nat

VARIABLES
    conn,       \* "new", "connected", "disconnecting" (fDisconnect), "gone"
    sending,    \* the peer whose SendMessages holds cs_main, or NoNode
    dl,         \* the lists, counters and maps of the download, see DownloadType
    peer,       \* nMisbehavior and fShouldBan of each peer
    index,      \* the blocks of mapBlockIndex
    orphans,    \* the blocks of mapOrphanBlocks
    submitted   \* history: blocks indexed otherwise than from a peer's message

vars == <<conn, sending, dl, peer, index, orphans, submitted>>

Have == index \cup orphans   \* AlreadyHave

ReceiveAges == 0 .. Timeout + 1
RequestAges == 0 .. 2 * Timeout + 1

(* An entry of vBlocksInFlight: late says that nTime is older than         *)
(* nLastBlockProcess by more than twice the timeout.                       *)
QueuedBlock == [hash : Blocks, age : RequestAges, late : BOOLEAN]

DownloadType ==
    [vBlocksToDownload : [Peers -> Seq(Blocks)],
     nBlocksToDownload : [Peers -> Int],
     mapBlocksToDownload : [Blocks -> Peers \cup {NoNode}],
     vBlocksInFlight : [Peers -> Seq(QueuedBlock)],
     nBlocksInFlight : [Peers -> Int],
     mapBlocksInFlight : [Blocks -> Peers \cup {NoNode}],
     receiveAge : [Peers -> ReceiveAges],  \* the time since nLastBlockReceive
     receiveLate : [Peers -> BOOLEAN]]     \* nLastBlockReceive is older than
                                           \* nLastBlockProcess by the timeout

Init ==
    /\ conn = [p \in Peers |-> "new"]
    /\ sending = NoNode
    /\ dl = [vBlocksToDownload |-> [p \in Peers |-> <<>>],
             nBlocksToDownload |-> [p \in Peers |-> 0],
             mapBlocksToDownload |-> [b \in Blocks |-> NoNode],
             vBlocksInFlight |-> [p \in Peers |-> <<>>],
             nBlocksInFlight |-> [p \in Peers |-> 0],
             mapBlocksInFlight |-> [b \in Blocks |-> NoNode],
             receiveAge |-> [p \in Peers |-> Timeout + 1],
             receiveLate |-> [p \in Peers |-> FALSE]]
    /\ peer = [p \in Peers |-> [nMisbehavior |-> 0, fShouldBan |-> FALSE]]
    /\ index = {} /\ orphans = {} /\ submitted = {}

-----------------------------------------------------------------------------
(* The lists and the maps.  An iterator of a map is the position of the    *)
(* hash in the list of the peer it names.                                  *)

InQueue(d, p, b) ==
    \E i \in DOMAIN d.vBlocksToDownload[p] : d.vBlocksToDownload[p][i] = b

InFlight(d, p, b) ==
    \E i \in DOMAIN d.vBlocksInFlight[p] : d.vBlocksInFlight[p][i].hash = b

QueuePos(d, p, b) ==
    CHOOSE i \in DOMAIN d.vBlocksToDownload[p] : d.vBlocksToDownload[p][i] = b

FlightPos(d, p, b) ==
    CHOOSE i \in DOMAIN d.vBlocksInFlight[p] : d.vBlocksInFlight[p][i].hash = b

(* Mutant: a block that arrives is left in the queue it is in. *)
StillQueued(d, b) == d

(* The first half of MarkBlockAsReceived. *)
Unqueued(d, b) ==
    LET p == d.mapBlocksToDownload[b]
    IN  IF p = NoNode THEN d
        ELSE [d EXCEPT !.vBlocksToDownload[p] = RemoveAt(@, QueuePos(d, p, b)),
                       !.nBlocksToDownload[p] = @ - 1,
                       !.mapBlocksToDownload[b] = NoNode]

(* Mutant: a block counts for the peer that sent it. *)
LandedForSender(d, b, from) ==
    LET p == d.mapBlocksInFlight[b]
    IN  IF p = NoNode THEN d
        ELSE [d EXCEPT !.vBlocksInFlight[p] = RemoveAt(@, FlightPos(d, p, b)),
                       !.nBlocksInFlight[IF from = NoNode THEN p ELSE from] = @ - 1,
                       !.mapBlocksInFlight[b] = NoNode]

(* The second half.  A block received from the peer it was requested from  *)
(* sets nLastBlockReceive, so that it is not behind nLastBlockProcess.     *)
Landed(d, b, from) ==
    LET p == d.mapBlocksInFlight[b]
    IN  IF p = NoNode THEN d
        ELSE [d EXCEPT !.vBlocksInFlight[p] = RemoveAt(@, FlightPos(d, p, b)),
                       !.nBlocksInFlight[p] = @ - 1,
                       !.receiveAge[p] = IF p = from THEN 0 ELSE @,
                       !.receiveLate[p] = @ /\ p # from,
                       !.mapBlocksInFlight[b] = NoNode]

MarkBlockAsReceived(d, b, from) == Landed(Unqueued(d, b), b, from)

AddBlockToQueue(d, p, b) ==
    [d EXCEPT !.vBlocksToDownload[p] = Append(@, b),
              !.nBlocksToDownload[p] = @ + 1,
              !.mapBlocksToDownload[b] = p]

(* Mutant: a request is put in front of the earlier ones. *)
PutFirst(list, b) == <<[hash |-> b, age |-> 0, late |-> FALSE]>> \o list

(* vBlocksInFlight.insert at the end. *)
Requested(list, b) == Append(list, [hash |-> b, age |-> 0, late |-> FALSE])

(* "Reset when a first request is sent." *)
FirstRequest(d, p) == d.nBlocksInFlight[p] = 0

MarkBlockAsInFlight(d0, p, b) ==
    LET d == MarkBlockAsReceived(d0, b, NoNode)
    IN  [d EXCEPT !.receiveAge[p] = IF FirstRequest(d, p) THEN 0 ELSE @,
                  !.receiveLate[p] = @ /\ ~FirstRequest(d, p),
                  !.vBlocksInFlight[p] = Requested(@, b),
                  !.nBlocksInFlight[p] = @ + 1,
                  !.mapBlocksInFlight[b] = p]

(* Mutant: FinalizeNode leaves the blocks in flight in their map. *)
OnlyQueueForgotten(d, p) ==
    [d EXCEPT !.mapBlocksToDownload =
       [b \in Blocks |-> IF InQueue(d, p, b) THEN NoNode ELSE @[b]]]

(* The entries that the lists of p name leave the maps. *)
Forgotten(d, p) ==
    [d EXCEPT
       !.mapBlocksInFlight =
          [b \in Blocks |-> IF InFlight(d, p, b) THEN NoNode ELSE @[b]],
       !.mapBlocksToDownload =
          [b \in Blocks |-> IF InQueue(d, p, b) THEN NoNode ELSE @[b]]]

(* The CNodeState of p and its lists are erased. *)
Erased(d, p) ==
    [d EXCEPT !.vBlocksToDownload[p] = <<>>, !.nBlocksToDownload[p] = 0,
              !.vBlocksInFlight[p] = <<>>, !.nBlocksInFlight[p] = 0,
              !.receiveAge[p] = Timeout + 1, !.receiveLate[p] = FALSE]

-----------------------------------------------------------------------------
(* Time.                                                                   *)

Older(age, most) == IF age < most THEN age + 1 ELSE age

Tick ==
    /\ dl' = [dl EXCEPT
         !.receiveAge = [p \in Peers |-> Older(dl.receiveAge[p], Timeout + 1)],
         !.vBlocksInFlight = [p \in Peers |->
            [i \in DOMAIN dl.vBlocksInFlight[p] |->
               [dl.vBlocksInFlight[p][i] EXCEPT !.age = Older(@, 2 * Timeout + 1)]]]]
    /\ UNCHANGED <<conn, sending, peer, index, orphans, submitted>>

(* nLastBlockProcess is set to now, for every message of p. *)
Processed(d, p) ==
    LET flight == d.vBlocksInFlight[p]
    IN  [d EXCEPT
           !.receiveLate[p] = d.receiveAge[p] > Timeout,
           !.vBlocksInFlight[p] = [i \in DOMAIN flight |->
              [flight[i] EXCEPT !.late = flight[i].age > 2 * Timeout]]]

-----------------------------------------------------------------------------
(* Messages.  ThreadMessageHandler takes them from peers whose fDisconnect *)
(* is not set, but tests it before the handler gets cs_main: the connection *)
(* may be lost in between.                                                 *)

HasState(p) == conn[p] \in {"connected", "disconnecting"}

Connect(p) ==
    /\ conn[p] = "new"
    /\ conn' = [conn EXCEPT ![p] = "connected"]
    /\ UNCHANGED <<sending, dl, peer, index, orphans, submitted>>

Receiving(p) == HasState(p) /\ sending = NoNode

(* A score beyond BanScore is not told apart from BanScore. *)
Misbehaving(p, howmuch) ==
    LET score == IF peer[p].nMisbehavior + howmuch < BanScore
                 THEN peer[p].nMisbehavior + howmuch ELSE BanScore
    IN  peer' = [peer EXCEPT ![p] = [nMisbehavior |-> score,
                                     fShouldBan |-> @.fShouldBan \/ score = BanScore]]

(* AddBlockToQueue refuses what anybody has queued or in flight. *)
Wanted(b) == dl.mapBlocksToDownload[b] = NoNode /\ dl.mapBlocksInFlight[b] = NoNode

(* An inv message. *)
Inv(p, b) ==
    /\ Receiving(p)
    /\ LET d == Processed(dl, p)
       IN  IF b \notin Have /\ Wanted(b)
           THEN /\ dl' = AddBlockToQueue(d, p, b)
                /\ IF dl'.nBlocksToDownload[p] > QueueLimit
                   THEN Misbehaving(p, Penalty) ELSE UNCHANGED peer
           ELSE dl' = d /\ UNCHANGED peer
    /\ UNCHANGED <<conn, sending, index, orphans, submitted>>

(* ProcessBlock accepts b, and of the orphans the ones that descend from   *)
(* it, some of which AcceptBlock then refuses.                             *)
Accept(b) ==
    \E descendants \in SUBSET orphans : \E accepted \in SUBSET descendants :
        /\ index' = index \cup {b} \cup accepted
        /\ orphans' = orphans \ descendants

(* It keeps b as an orphan, in the place of a random one if they are many. *)
KeepOrphan(b) ==
    /\ IF Cardinality(orphans) > MaxOrphans
       THEN \E evicted \in orphans : orphans' = (orphans \ {evicted}) \cup {b}
       ELSE orphans' = orphans \cup {b}
    /\ UNCHANGED index

(* A block message; b is kept if it is new and passes the checks. *)
Block(p, b) ==
    /\ Receiving(p)
    /\ dl' = MarkBlockAsReceived(Processed(dl, p), b, p)
    /\ \/ b \notin Have /\ Accept(b)
       \/ b \notin Have /\ KeepOrphan(b)
       \/ UNCHANGED <<index, orphans>>
    /\ UNCHANGED <<conn, sending, peer, submitted>>

(* Any other message, a ping or a transaction. *)
Other(p) ==
    /\ Receiving(p)
    /\ dl' = Processed(dl, p)
    /\ UNCHANGED <<conn, sending, peer, index, orphans, submitted>>

(* A block of the miner or of submitblock, which has no peer. *)
Submit(b) ==
    /\ sending = NoNode /\ b \notin Have
    /\ Accept(b)
    /\ submitted' = submitted \cup {b}
    /\ UNCHANGED <<conn, sending, dl, peer>>

-----------------------------------------------------------------------------
(* SendMessages, which holds cs_main until its loop has ended.             *)

(* Mutant: a peer is never found to stall. *)
NeverStalled(p) == FALSE

Stalled(p) ==
    /\ dl.nBlocksInFlight[p] # 0
    /\ dl.receiveLate[p]
    /\ Head(dl.vBlocksInFlight[p]).late

(* A peer at a local address is spared. *)
MayBeBanned(p) == IF peer[p].fShouldBan THEN BOOLEAN ELSE {FALSE}

Room(d, p) == d.nBlocksInFlight[p] < MaxInTransit

(* Mutant: the loop ends one block early. *)
MoreThanOne(connection, d, p) ==
    connection[p] = "connected" /\ d.nBlocksToDownload[p] > 1 /\ Room(d, p)

(* The condition of the loop that asks for blocks. *)
More(connection, d, p) ==
    connection[p] = "connected" /\ d.nBlocksToDownload[p] # 0 /\ Room(d, p)

(* The ban, and the detection of stalled peers. *)
SendMessages(p) ==
    /\ HasState(p) /\ sending = NoNode
    /\ \E banned \in MayBeBanned(p) :
          conn' = [conn EXCEPT ![p] = IF banned \/ Stalled(p) THEN "disconnecting" ELSE @]
    /\ peer' = [peer EXCEPT ![p].fShouldBan = FALSE]
    /\ sending' = IF More(conn', dl, p) THEN p ELSE NoNode
    /\ UNCHANGED <<dl, index, orphans, submitted>>

(* One turn of the loop. *)
Request(p) ==
    /\ sending = p /\ More(conn, dl, p)
    /\ dl' = MarkBlockAsInFlight(dl, p, Head(dl.vBlocksToDownload[p]))
    /\ sending' = IF More(conn, dl', p) THEN p ELSE NoNode
    /\ UNCHANGED <<conn, peer, index, orphans, submitted>>

(* The connection was lost during the loop. *)
Sent(p) ==
    /\ sending = p /\ ~More(conn, dl, p)
    /\ sending' = NoNode
    /\ UNCHANGED <<conn, dl, peer, index, orphans, submitted>>

-----------------------------------------------------------------------------
(* Disconnection.                                                          *)

(* The socket thread sets fDisconnect, without cs_main: the connection is  *)
(* lost, or nothing was read from it for too long (see PeerTraffic).       *)
SocketGone(p) ==
    /\ conn[p] = "connected"
    /\ conn' = [conn EXCEPT ![p] = "disconnecting"]
    /\ UNCHANGED <<sending, dl, peer, index, orphans, submitted>>

(* ~CNode, when no thread has a reference. *)
FinalizeNode(p) ==
    /\ conn[p] = "disconnecting" /\ sending = NoNode
    /\ conn' = [conn EXCEPT ![p] = "gone"]
    /\ dl' = Erased(Forgotten(dl, p), p)
    /\ UNCHANGED <<sending, peer, index, orphans, submitted>>

-----------------------------------------------------------------------------
NetworkStep(p) ==
    \/ Connect(p) \/ SocketGone(p) \/ Other(p)
    \/ \E b \in Blocks : Inv(p, b) \/ Block(p, b)

SendStep(p) == SendMessages(p) \/ Request(p) \/ Sent(p)

Next ==
    \/ Tick
    \/ \E b \in Blocks : Submit(b)
    \/ \E p \in Peers : NetworkStep(p) \/ SendStep(p) \/ FinalizeNode(p)

Spec == Init /\ [][Next]_vars

-----------------------------------------------------------------------------
Connections == {"new", "connected", "disconnecting", "gone"}

(* Every variable has its type; a score is bounded by the ban's threshold, *)
(* and a peer has at most MAX_BLOCKS_IN_TRANSIT_PER_PEER blocks in flight.  *)
TypeOK ==
    /\ conn \in [Peers -> Connections]
    /\ sending \in Peers \cup {NoNode}
    /\ dl \in DownloadType
    /\ \A p \in Peers : dl.nBlocksInFlight[p] \in 0 .. MaxInTransit
    /\ peer \in [Peers -> [nMisbehavior : 0 .. BanScore, fShouldBan : BOOLEAN]]
    /\ index \subseteq Blocks /\ orphans \subseteq Blocks /\ submitted \subseteq Blocks

(* Each map names exactly the lists its blocks are in, the lists of two     *)
(* peers or the two lists of one never share a block or hold it twice, and  *)
(* the counters count them, through any order of announcements, arrivals,   *)
(* requests and disconnections: no iterator of a map dangles, and no State  *)
(* that MarkBlockAsReceived dereferences is NULL.                           *)
QueueMatches(d) ==
    \A p \in Peers :
        /\ \A b \in Blocks : InQueue(d, p, b) <=> d.mapBlocksToDownload[b] = p
        /\ \A i, j \in DOMAIN d.vBlocksToDownload[p] :
              d.vBlocksToDownload[p][i] = d.vBlocksToDownload[p][j] => i = j
        /\ d.nBlocksToDownload[p] = Len(d.vBlocksToDownload[p])

FlightMatches(d) ==
    \A p \in Peers :
        /\ \A b \in Blocks : InFlight(d, p, b) <=> d.mapBlocksInFlight[b] = p
        /\ \A i, j \in DOMAIN d.vBlocksInFlight[p] :
              d.vBlocksInFlight[p][i].hash = d.vBlocksInFlight[p][j].hash => i = j
        /\ d.nBlocksInFlight[p] = Len(d.vBlocksInFlight[p])

Disjoint(d) ==
    \A b \in Blocks : d.mapBlocksToDownload[b] = NoNode \/ d.mapBlocksInFlight[b] = NoNode

OwnersHaveState ==
    \A b \in Blocks :
        {dl.mapBlocksToDownload[b], dl.mapBlocksInFlight[b]}
            \subseteq {NoNode} \cup {p \in Peers : HasState(p)}

ListsMatchMaps ==
    QueueMatches(dl) /\ FlightMatches(dl) /\ Disjoint(dl) /\ OwnersHaveState

(* Nothing that is already there waits to be downloaded, in whatever order  *)
(* the copies of a block arrive and orphans are resolved or evicted, unless *)
(* the node's own miner made it.                                            *)
OnlyMissingWanted == \A b \in Have \ submitted : Wanted(b)

(* The front of the blocks in flight is the oldest, which is what the       *)
(* detection of stalled peers compares.                                     *)
FrontIsOldest ==
    \A p \in Peers : \A i \in DOMAIN dl.vBlocksInFlight[p] :
        dl.vBlocksInFlight[p][i].age <= Head(dl.vBlocksInFlight[p]).age

(* main.cpp:5003: a peer is found to stall only when "all blocks are in     *)
(* flight for over two minutes".                                            *)
StalledMeansAllOld ==
    \A p \in Peers :
        conn[p] = "connected" /\ sending = NoNode /\ Stalled(p)
          => \A i \in DOMAIN dl.vBlocksInFlight[p] :
                dl.vBlocksInFlight[p][i].age > 2 * Timeout

=============================================================================
