------------------------ MODULE BlockDownloadProofs ------------------------
(* Proofs about BlockDownload: the lists, the counters and the maps of the  *)
(* download agree, for any number of peers and blocks.                      *)
EXTENDS BlockDownload, SequenceTheorems, TLAPS

(* What list.erase does. *)
LEMMA RemoveAtFacts ==
    ASSUME NEW S, NEW s \in Seq(S), NEW i \in 1 .. Len(s)
    PROVE  /\ RemoveAt(s, i) \in Seq(S)
           /\ Len(RemoveAt(s, i)) = Len(s) - 1
           /\ \A j \in 1 .. Len(s) - 1 :
                 RemoveAt(s, i)[j] = IF j < i THEN s[j] ELSE s[j + 1]
<1> DEFINE front == SubSeq(s, 1, i - 1)
           back  == SubSeq(s, i + 1, Len(s))
<1>1. /\ front \in Seq(S) /\ Len(front) = i - 1
      /\ \A j \in 1 .. i - 1 : front[j] = s[j]
  <2>1. \A j \in 1 .. i - 1 : s[j] \in S
    BY ElementOfSeq
  <2>2. QED
    BY <2>1, SubSeqProperties
<1>2. /\ back \in Seq(S) /\ Len(back) = Len(s) - i
      /\ \A j \in 1 .. Len(s) - i : back[j] = s[i + j]
  <2>1. \A j \in i + 1 .. Len(s) : s[j] \in S
    BY ElementOfSeq
  <2>2. QED
    BY <2>1, SubSeqProperties
<1> HIDE DEF front, back
<1>3. /\ front \o back \in Seq(S)
      /\ Len(front \o back) = Len(front) + Len(back)
      /\ \A j \in 1 .. Len(front) + Len(back) :
            (front \o back)[j] = IF j <= Len(front) THEN front[j] ELSE back[j - Len(front)]
  BY <1>1, <1>2, ConcatProperties
<1>4. RemoveAt(s, i) = front \o back
  BY DEF RemoveAt, front, back
<1>5. Len(s) \in Nat
  OBVIOUS
<1>6. \A j \in 1 .. Len(s) - 1 :
         (front \o back)[j] = IF j < i THEN s[j] ELSE s[j + 1]
  <2> TAKE j \in 1 .. Len(s) - 1
  <2>1. CASE j < i
    BY <2>1, <1>1, <1>2, <1>3, <1>5
  <2>2. CASE ~(j < i)
    <3>1. back[j - (i - 1)] = s[i + (j - (i - 1))]
      BY <2>2, <1>2, <1>5
    <3>2. i + (j - (i - 1)) = j + 1
      OBVIOUS
    <3>3. (front \o back)[j] = back[j - (i - 1)]
      <4>1. Len(front) = i - 1 /\ j \in 1 .. Len(front) + Len(back) /\ ~(j <= Len(front))
        <5>1. Len(front) = i - 1 /\ Len(back) = Len(s) - i
          BY <1>1, <1>2
        <5> QED
          BY <2>2, <5>1, <1>5
      <4>2. (front \o back)[j] = IF j <= Len(front) THEN front[j] ELSE back[j - Len(front)]
        BY <4>1, <1>3
      <4> QED
        BY <4>1, <4>2
    <3>4. QED
      BY <2>2, <3>1, <3>2, <3>3
  <2>3. QED
    BY <2>1, <2>2
<1>7. QED
  BY <1>1, <1>2, <1>3, <1>4, <1>5, <1>6

(* The same as facts about members: only the one at i goes. *)
LEMMA RemoveAtMembers ==
    ASSUME NEW S, NEW s \in Seq(S), NEW i \in 1 .. Len(s),
           NEW r, r = RemoveAt(s, i)
    PROVE  /\ r \in Seq(S) /\ Len(r) = Len(s) - 1
           /\ \A j \in DOMAIN r :
                 \E k \in DOMAIN s : k # i /\ r[j] = s[k] /\ k = IF j < i THEN j ELSE j + 1
           /\ \A k \in DOMAIN s : k # i => \E j \in DOMAIN r : r[j] = s[k]
<1>1. /\ r \in Seq(S) /\ Len(r) = Len(s) - 1
      /\ \A j \in 1 .. Len(s) - 1 : r[j] = IF j < i THEN s[j] ELSE s[j + 1]
  BY RemoveAtFacts
<1>2. DOMAIN r = 1 .. Len(s) - 1 /\ DOMAIN s = 1 .. Len(s) /\ Len(s) \in Nat
  BY <1>1
<1>3. ASSUME NEW j \in DOMAIN r
      PROVE  \E k \in DOMAIN s : k # i /\ r[j] = s[k] /\ k = IF j < i THEN j ELSE j + 1
  <2>1. CASE j < i
    BY <2>1, <1>1, <1>2
  <2>2. CASE ~(j < i)
    BY <2>2, <1>1, <1>2
  <2>3. QED
    BY <2>1, <2>2
<1>4. ASSUME NEW k \in DOMAIN s, k # i
      PROVE  \E j \in DOMAIN r : r[j] = s[k]
  <2>1. CASE k < i
    BY <2>1, <1>1, <1>2
  <2>2. CASE k > i
    <3>1. k - 1 \in DOMAIN r /\ ~(k - 1 < i) /\ (k - 1) + 1 = k
      BY <2>2, <1>2
    <3>2. r[k - 1] = s[k]
      BY <3>1, <1>1, <1>2
    <3>3. QED
      BY <3>1, <3>2
  <2>3. QED
    BY <2>1, <2>2, <1>2, <1>4
<1>5. QED
  BY <1>1, <1>3, <1>4

-----------------------------------------------------------------------------
SameQueue(d, e) ==
    /\ e.vBlocksToDownload = d.vBlocksToDownload
    /\ e.nBlocksToDownload = d.nBlocksToDownload
    /\ e.mapBlocksToDownload = d.mapBlocksToDownload

SameFlight(d, e) ==
    /\ e.vBlocksInFlight = d.vBlocksInFlight
    /\ e.nBlocksInFlight = d.nBlocksInFlight
    /\ e.mapBlocksInFlight = d.mapBlocksInFlight

(* The requests of a peer lie in its list in the order they were sent.      *)
OldestFirst(d) ==
    \A p \in Peers : \A i, j \in DOMAIN d.vBlocksInFlight[p] :
        i < j => d.vBlocksInFlight[p][j].age <= d.vBlocksInFlight[p][i].age

LEMMA SameQueueMatches ==
    ASSUME NEW d, NEW e, QueueMatches(d), SameQueue(d, e)
    PROVE  QueueMatches(e)
BY DEF QueueMatches, SameQueue, InQueue

LEMMA SameFlightMatches ==
    ASSUME NEW d, NEW e, FlightMatches(d), OldestFirst(d), SameFlight(d, e)
    PROVE  FlightMatches(e) /\ OldestFirst(e)
BY DEF FlightMatches, OldestFirst, SameFlight, InFlight

LEMMA FieldTypes ==
    ASSUME NEW d \in DownloadType, NEW p \in Peers
    PROVE  /\ d.vBlocksToDownload[p] \in Seq(Blocks)
           /\ d.nBlocksToDownload[p] \in Int
           /\ d.vBlocksInFlight[p] \in Seq(QueuedBlock)
           /\ d.nBlocksInFlight[p] \in Int
           /\ d.receiveAge[p] \in ReceiveAges
           /\ d.receiveLate[p] \in BOOLEAN
BY DEF DownloadType

(* The state of the download, field by field. *)
AsRecord(d) ==
    [vBlocksToDownload |-> d.vBlocksToDownload, nBlocksToDownload |-> d.nBlocksToDownload,
     mapBlocksToDownload |-> d.mapBlocksToDownload, vBlocksInFlight |-> d.vBlocksInFlight,
     nBlocksInFlight |-> d.nBlocksInFlight, mapBlocksInFlight |-> d.mapBlocksInFlight,
     receiveAge |-> d.receiveAge, receiveLate |-> d.receiveLate]

LEMMA DownloadIsRecord ==
    ASSUME NEW d \in DownloadType
    PROVE  d = AsRecord(d)
BY DEF DownloadType, AsRecord

LEMMA AgesKept ==
    ASSUME NEW d \in DownloadType, NEW p \in Peers, NEW c
    PROVE  [d.receiveAge EXCEPT ![p] = IF c THEN 0 ELSE d.receiveAge[p]] \in [Peers -> ReceiveAges]
<1>1. d.receiveAge \in [Peers -> ReceiveAges]
  BY DEF DownloadType
<1>2. 0 \in ReceiveAges
  BY DownloadAssumption, SMT DEF ReceiveAges
<1> QED
  BY <1>1, <1>2

(* MarkBlockAsReceived finds the block in the queue its map names, and      *)
(* takes exactly it out of both.                                            *)
LEMMA UnqueuedMatches ==
    ASSUME NEW d \in DownloadType, NEW b \in Blocks, QueueMatches(d),
           NEW u, u = Unqueued(d, b)
    PROVE  /\ u \in DownloadType /\ QueueMatches(u)
           /\ SameFlight(d, u)
           /\ u.mapBlocksToDownload = [d.mapBlocksToDownload EXCEPT ![b] = NoNode]
<1>1. CASE d.mapBlocksToDownload[b] = NoNode
  BY <1>1 DEF Unqueued, SameFlight, DownloadType
<1>2. CASE d.mapBlocksToDownload[b] # NoNode
  <2>1. PICK p \in Peers : p = d.mapBlocksToDownload[b]
    BY <1>2 DEF DownloadType
  <2>2. PICK list \in Seq(Blocks) : list = d.vBlocksToDownload[p]
    BY FieldTypes
  <2>3. PICK pos \in 1 .. Len(list) : pos = QueuePos(d, p, b) /\ list[pos] = b
    <3>1. InQueue(d, p, b)
      BY <2>1 DEF QueueMatches
    <3>2. QED
      BY <3>1, <2>2 DEF InQueue, QueuePos
  <2>4. PICK r : r = RemoveAt(list, pos)
    OBVIOUS
  <2>5. /\ \A c \in Blocks : (\E k \in DOMAIN list : list[k] = c)
                                <=> d.mapBlocksToDownload[c] = p
        /\ \A i, j \in DOMAIN list : list[i] = list[j] => i = j
        /\ d.nBlocksToDownload[p] = Len(list)
    BY <2>2 DEF QueueMatches, InQueue
  <2>6. /\ r \in Seq(Blocks) /\ Len(r) = Len(list) - 1
        /\ \A j \in DOMAIN r :
              \E k \in DOMAIN list : k # pos /\ r[j] = list[k]
                                     /\ k = IF j < pos THEN j ELSE j + 1
        /\ \A k \in DOMAIN list : k # pos => \E j \in DOMAIN r : r[j] = list[k]
    BY <2>4, RemoveAtMembers
  <2>61. DOMAIN r \subseteq Nat /\ pos \in Nat /\ Len(r) = Len(list) - 1
    <3>1. r \in Seq(Blocks) /\ Len(r) = Len(list) - 1
      BY <2>4, RemoveAtMembers
    <3> QED
      BY <3>1
  <2>62. d.nBlocksToDownload[p] - 1 = Len(r)
    BY <2>2, <2>61 DEF QueueMatches
  <2>7. \A j, k \in DOMAIN r : r[j] = r[k] => j = k
    <3> SUFFICES ASSUME NEW j \in DOMAIN r, NEW k \in DOMAIN r, r[j] = r[k]
                 PROVE  j = k
      OBVIOUS
    <3>1. PICK m \in DOMAIN list : r[j] = list[m] /\ m = IF j < pos THEN j ELSE j + 1
      BY <2>6
    <3>2. PICK n \in DOMAIN list : r[k] = list[n] /\ n = IF k < pos THEN k ELSE k + 1
      BY <2>6
    <3>3. m = n
      <4>1. list[m] = list[n]
        BY <3>1, <3>2
      <4> QED
        BY <4>1, <2>5
    <3>4. j \in Nat /\ k \in Nat /\ pos \in Nat
      BY <2>61
    <3>5. QED
      BY <3>1, <3>2, <3>3, <3>4
  <2>8. \A k \in DOMAIN list : list[k] = b <=> k = pos
    BY <2>3, <2>5
  <2>9. \A c \in Blocks : (\E j \in DOMAIN r : r[j] = c)
                             <=> c # b /\ d.mapBlocksToDownload[c] = p
    <3>1. ASSUME NEW c \in Blocks, NEW j \in DOMAIN r, r[j] = c
          PROVE  c # b /\ d.mapBlocksToDownload[c] = p
      BY <3>1, <2>5, <2>6, <2>8
    <3>2. ASSUME NEW c \in Blocks, c # b, d.mapBlocksToDownload[c] = p
          PROVE  \E j \in DOMAIN r : r[j] = c
      <4>1. PICK k \in DOMAIN list : list[k] = c
        BY <3>2, <2>5
      <4>2. k # pos
        BY <4>1, <3>2, <2>8
      <4>3. QED
        BY <4>1, <4>2, <2>6
    <3>3. QED
      BY <3>1, <3>2
  <2> DEFINE lists == [d.vBlocksToDownload EXCEPT ![p] = r]
             counts == [d.nBlocksToDownload EXCEPT ![p] = d.nBlocksToDownload[p] - 1]
             map == [d.mapBlocksToDownload EXCEPT ![b] = NoNode]
  <2>10. lists \in [Peers -> Seq(Blocks)]
    BY <2>6 DEF DownloadType
  <2>11. counts \in [Peers -> Int]
    BY FieldTypes DEF DownloadType
  <2>12. map \in [Blocks -> Peers \cup {NoNode}]
    BY DEF DownloadType
  <2>13. u = [d EXCEPT !.vBlocksToDownload = lists, !.nBlocksToDownload = counts,
                       !.mapBlocksToDownload = map]
    BY <1>2, <2>1, <2>2, <2>3, <2>4 DEF Unqueued
  <2>14. /\ u \in DownloadType /\ SameFlight(d, u)
         /\ u.vBlocksToDownload = lists /\ u.nBlocksToDownload = counts
         /\ u.mapBlocksToDownload = map
    <3> HIDE DEF lists, counts, map
    <3>1. QED
      BY <2>10, <2>11, <2>12, <2>13 DEF DownloadType, SameFlight
  <2>15. ASSUME NEW q \in Peers
         PROVE  /\ \A c \in Blocks : InQueue(u, q, c) <=> u.mapBlocksToDownload[c] = q
                /\ \A i, j \in DOMAIN u.vBlocksToDownload[q] :
                      u.vBlocksToDownload[q][i] = u.vBlocksToDownload[q][j] => i = j
                /\ u.nBlocksToDownload[q] = Len(u.vBlocksToDownload[q])
    <3>1. \A c \in Blocks :
             u.mapBlocksToDownload[c] = q <=> c # b /\ d.mapBlocksToDownload[c] = q
      <4>1. q # NoNode
        BY DownloadAssumption
      <4>2. \A c \in Blocks : map[c] = IF c = b THEN NoNode ELSE d.mapBlocksToDownload[c]
        BY DEF DownloadType
      <4> HIDE DEF map, lists, counts
      <4> QED
        BY <4>1, <4>2, <2>14
    <3>2. CASE q = p
      <4>1. u.vBlocksToDownload[q] = r /\ u.nBlocksToDownload[q] = Len(r)
        BY <3>2, <2>14, <2>62 DEF DownloadType
      <4>2. \A c \in Blocks : InQueue(u, q, c) <=> u.mapBlocksToDownload[c] = q
        BY <3>1, <3>2, <4>1, <2>9 DEF InQueue
      <4>3. QED
        BY <4>1, <4>2, <2>7
    <3>3. CASE q # p
      <4>1. /\ u.vBlocksToDownload[q] = d.vBlocksToDownload[q]
            /\ u.nBlocksToDownload[q] = d.nBlocksToDownload[q]
        BY <3>3, <2>14 DEF DownloadType
      <4>2. \A c \in Blocks : InQueue(d, q, c) => c # b
        BY <2>1, <3>3 DEF QueueMatches
      <4>3. QED
        BY <3>1, <4>1, <4>2 DEF QueueMatches, InQueue
    <3>4. QED
      BY <3>2, <3>3
  <2>16. QueueMatches(u)
    BY <2>15 DEF QueueMatches
  <2>17. QED
    BY <2>14, <2>16
<1>3. QED
  BY <1>1, <1>2

(* The same for the block in flight; the requests keep their order.         *)
LEMMA LandedMatches ==
    ASSUME NEW d \in DownloadType, NEW b \in Blocks, NEW from,
           FlightMatches(d), OldestFirst(d),
           NEW u, u = Landed(d, b, from)
    PROVE  /\ u \in DownloadType /\ FlightMatches(u) /\ OldestFirst(u)
           /\ SameQueue(d, u)
           /\ u.mapBlocksInFlight = [d.mapBlocksInFlight EXCEPT ![b] = NoNode]
           /\ \A q \in Peers : u.nBlocksInFlight[q] <= d.nBlocksInFlight[q]
<1>1. CASE d.mapBlocksInFlight[b] = NoNode
  <2>1. u = d
    BY <1>1 DEF Landed
  <2>2. d.mapBlocksInFlight = [d.mapBlocksInFlight EXCEPT ![b] = NoNode]
    BY <1>1 DEF DownloadType
  <2>3. \A q \in Peers : d.nBlocksInFlight[q] \in Int
    BY FieldTypes
  <2>4. QED
    BY <2>1, <2>2, <2>3 DEF SameQueue
<1>2. CASE d.mapBlocksInFlight[b] # NoNode
  <2>1. PICK p \in Peers : p = d.mapBlocksInFlight[b]
    BY <1>2 DEF DownloadType
  <2>2. PICK list \in Seq(QueuedBlock) : list = d.vBlocksInFlight[p]
    BY FieldTypes
  <2>3. PICK pos \in 1 .. Len(list) : pos = FlightPos(d, p, b) /\ list[pos].hash = b
    <3>1. InFlight(d, p, b)
      BY <2>1 DEF FlightMatches
    <3>2. QED
      BY <3>1, <2>2 DEF InFlight, FlightPos
  <2>4. PICK r : r = RemoveAt(list, pos)
    OBVIOUS
  <2>5. /\ \A c \in Blocks : (\E k \in DOMAIN list : list[k].hash = c)
                                <=> d.mapBlocksInFlight[c] = p
        /\ \A i, j \in DOMAIN list : list[i].hash = list[j].hash => i = j
        /\ d.nBlocksInFlight[p] = Len(list)
    BY <2>2 DEF FlightMatches, InFlight
  <2>6. /\ r \in Seq(QueuedBlock) /\ Len(r) = Len(list) - 1
        /\ \A j \in DOMAIN r :
              \E k \in DOMAIN list : k # pos /\ r[j] = list[k]
                                     /\ k = IF j < pos THEN j ELSE j + 1
        /\ \A k \in DOMAIN list : k # pos => \E j \in DOMAIN r : r[j] = list[k]
    BY <2>4, RemoveAtMembers
  <2>61. DOMAIN r \subseteq Nat /\ pos \in Nat /\ Len(r) = Len(list) - 1
    <3>1. r \in Seq(QueuedBlock) /\ Len(r) = Len(list) - 1
      BY <2>4, RemoveAtMembers
    <3> QED
      BY <3>1
  <2>62. d.nBlocksInFlight[p] - 1 = Len(r) /\ Len(r) <= d.nBlocksInFlight[p]
    BY <2>2, <2>61 DEF FlightMatches
  <2>7. ASSUME NEW j \in DOMAIN r, NEW k \in DOMAIN r
        PROVE  /\ r[j].hash = r[k].hash => j = k
               /\ j < k => r[k].age <= r[j].age
    <3>1. PICK m \in DOMAIN list : r[j] = list[m] /\ m = IF j < pos THEN j ELSE j + 1
      BY <2>6
    <3>2. PICK n \in DOMAIN list : r[k] = list[n] /\ n = IF k < pos THEN k ELSE k + 1
      BY <2>6
    <3>3. j \in Nat /\ k \in Nat /\ pos \in Nat
      BY <2>61
    <3>4. j < k => m < n
      BY <3>1, <3>2, <3>3
    <3>5. m = n => j = k
      BY <3>1, <3>2, <3>3
    <3>6. \A i, l \in DOMAIN list : i < l => list[l].age <= list[i].age
      BY <2>2 DEF OldestFirst
    <3>7. QED
      BY <3>1, <3>2, <3>4, <3>5, <3>6, <2>5
  <2>8. \A k \in DOMAIN list : list[k].hash = b <=> k = pos
    BY <2>3, <2>5
  <2>9. \A c \in Blocks : (\E j \in DOMAIN r : r[j].hash = c)
                             <=> c # b /\ d.mapBlocksInFlight[c] = p
    <3>1. ASSUME NEW c \in Blocks, NEW j \in DOMAIN r, r[j].hash = c
          PROVE  c # b /\ d.mapBlocksInFlight[c] = p
      BY <3>1, <2>5, <2>6, <2>8
    <3>2. ASSUME NEW c \in Blocks, c # b, d.mapBlocksInFlight[c] = p
          PROVE  \E j \in DOMAIN r : r[j].hash = c
      <4>1. PICK k \in DOMAIN list : list[k].hash = c
        BY <3>2, <2>5
      <4>2. k # pos
        BY <4>1, <3>2, <2>8
      <4>3. QED
        BY <4>1, <4>2, <2>6
    <3>3. QED
      BY <3>1, <3>2
  <2> DEFINE lists == [d.vBlocksInFlight EXCEPT ![p] = r]
             counts == [d.nBlocksInFlight EXCEPT ![p] = d.nBlocksInFlight[p] - 1]
             map == [d.mapBlocksInFlight EXCEPT ![b] = NoNode]
             ages == [d.receiveAge EXCEPT ![p] = IF p = from THEN 0 ELSE d.receiveAge[p]]
             lates == [d.receiveLate EXCEPT ![p] = d.receiveLate[p] /\ p # from]
  <2>10. lists \in [Peers -> Seq(QueuedBlock)]
    BY <2>6 DEF DownloadType
  <2>11. counts \in [Peers -> Int]
    BY FieldTypes DEF DownloadType
  <2>12. map \in [Blocks -> Peers \cup {NoNode}]
    BY DEF DownloadType
  <2>13. ages \in [Peers -> ReceiveAges]
    BY AgesKept
  <2>14. lates \in [Peers -> BOOLEAN]
    BY FieldTypes DEF DownloadType
  <2>15. u = [d EXCEPT !.vBlocksInFlight = lists, !.nBlocksInFlight = counts,
                       !.receiveAge = ages, !.receiveLate = lates,
                       !.mapBlocksInFlight = map]
    BY <1>2, <2>1, <2>2, <2>3, <2>4 DEF Landed
  <2>16. /\ u \in DownloadType /\ SameQueue(d, u)
         /\ u.vBlocksInFlight = lists /\ u.nBlocksInFlight = counts
         /\ u.mapBlocksInFlight = map
    <3> HIDE DEF lists, counts, map, ages, lates
    <3>1. QED
      BY <2>10, <2>11, <2>12, <2>13, <2>14, <2>15 DEF DownloadType, SameQueue
  <2>17. ASSUME NEW q \in Peers
         PROVE  /\ \A c \in Blocks : InFlight(u, q, c) <=> u.mapBlocksInFlight[c] = q
                /\ \A i, j \in DOMAIN u.vBlocksInFlight[q] :
                      u.vBlocksInFlight[q][i].hash = u.vBlocksInFlight[q][j].hash => i = j
                /\ u.nBlocksInFlight[q] = Len(u.vBlocksInFlight[q])
                /\ u.nBlocksInFlight[q] <= d.nBlocksInFlight[q]
                /\ \A i, j \in DOMAIN u.vBlocksInFlight[q] :
                      i < j => u.vBlocksInFlight[q][j].age <= u.vBlocksInFlight[q][i].age
    <3>1. \A c \in Blocks :
             u.mapBlocksInFlight[c] = q <=> c # b /\ d.mapBlocksInFlight[c] = q
      <4>1. q # NoNode
        BY DownloadAssumption
      <4>2. d.mapBlocksInFlight \in [Blocks -> Peers \cup {NoNode}]
        BY DEF DownloadType
      <4>3. \A c \in Blocks : map[c] = IF c = b THEN NoNode ELSE d.mapBlocksInFlight[c]
        BY <4>2
      <4> HIDE DEF map, lists, counts, ages, lates
      <4>4. QED
        BY <4>1, <4>3, <2>16
    <3>2. CASE q = p
      <4>1. /\ u.vBlocksInFlight[q] = r /\ u.nBlocksInFlight[q] = Len(r)
            /\ u.nBlocksInFlight[q] <= d.nBlocksInFlight[q]
        BY <3>2, <2>16, <2>62 DEF DownloadType
      <4>2. \A c \in Blocks : InFlight(u, q, c) <=> u.mapBlocksInFlight[c] = q
        BY <3>1, <3>2, <4>1, <2>9 DEF InFlight
      <4>3. QED
        BY <4>1, <4>2, <2>7
    <3>3. CASE q # p
      <4>1. /\ u.vBlocksInFlight[q] = d.vBlocksInFlight[q]
            /\ u.nBlocksInFlight[q] = d.nBlocksInFlight[q]
            /\ d.nBlocksInFlight[q] \in Int
        BY <3>3, <2>16 DEF DownloadType
      <4>2. \A c \in Blocks : InFlight(d, q, c) => c # b
        BY <2>1, <3>3 DEF FlightMatches
      <4>3. QED
        BY <3>1, <4>1, <4>2 DEF FlightMatches, InFlight, OldestFirst
    <3>4. QED
      BY <3>2, <3>3
  <2>18. FlightMatches(u) /\ OldestFirst(u)
    BY <2>17 DEF FlightMatches, OldestFirst
  <2>19. QED
    BY <2>16, <2>17, <2>18
<1>3. QED
  BY <1>1, <1>2

(* MarkBlockAsReceived: the block is in no list and no map any more.        *)
LEMMA ReceivedMatches ==
    ASSUME NEW d \in DownloadType, NEW b \in Blocks, NEW from,
           QueueMatches(d), FlightMatches(d), OldestFirst(d),
           NEW e, e = MarkBlockAsReceived(d, b, from)
    PROVE  /\ e \in DownloadType /\ QueueMatches(e) /\ FlightMatches(e) /\ OldestFirst(e)
           /\ e.mapBlocksToDownload = [d.mapBlocksToDownload EXCEPT ![b] = NoNode]
           /\ e.mapBlocksInFlight = [d.mapBlocksInFlight EXCEPT ![b] = NoNode]
           /\ \A q \in Peers : e.nBlocksInFlight[q] <= d.nBlocksInFlight[q]
<1>1. PICK u : u = Unqueued(d, b)
  OBVIOUS
<1>2. /\ u \in DownloadType /\ QueueMatches(u) /\ SameFlight(d, u)
      /\ u.mapBlocksToDownload = [d.mapBlocksToDownload EXCEPT ![b] = NoNode]
  BY <1>1, UnqueuedMatches
<1>3. FlightMatches(u) /\ OldestFirst(u)
  BY <1>2, SameFlightMatches
<1>4. e = Landed(u, b, from)
  BY <1>1 DEF MarkBlockAsReceived
<1>5. /\ e \in DownloadType /\ FlightMatches(e) /\ OldestFirst(e) /\ SameQueue(u, e)
      /\ e.mapBlocksInFlight = [u.mapBlocksInFlight EXCEPT ![b] = NoNode]
      /\ \A q \in Peers : e.nBlocksInFlight[q] <= u.nBlocksInFlight[q]
  BY <1>2, <1>3, <1>4, LandedMatches
<1>6. QueueMatches(e)
  BY <1>2, <1>5, SameQueueMatches
<1>7. QED
  BY <1>2, <1>5, <1>6 DEF SameFlight, SameQueue

(* A block that nobody has queued joins the end of a queue.                 *)
LEMMA AddedMatches ==
    ASSUME NEW d \in DownloadType, NEW p \in Peers, NEW b \in Blocks,
           QueueMatches(d), d.mapBlocksToDownload[b] = NoNode,
           NEW e, e = AddBlockToQueue(d, p, b)
    PROVE  /\ e \in DownloadType /\ QueueMatches(e) /\ SameFlight(d, e)
           /\ e.mapBlocksToDownload = [d.mapBlocksToDownload EXCEPT ![b] = p]
<1>1. PICK list \in Seq(Blocks) : list = d.vBlocksToDownload[p]
  BY FieldTypes
<1>2. PICK r : r = Append(list, b)
  OBVIOUS
<1>3. /\ r \in Seq(Blocks) /\ Len(r) = Len(list) + 1
      /\ r[Len(r)] = b /\ \A i \in 1 .. Len(list) : r[i] = list[i]
  BY <1>2
<1>4. DOMAIN r = DOMAIN list \cup {Len(r)} /\ DOMAIN list = 1 .. Len(list)
  BY <1>3
<1>5. /\ \A c \in Blocks : (\E k \in DOMAIN list : list[k] = c)
                              <=> d.mapBlocksToDownload[c] = p
      /\ \A i, j \in DOMAIN list : list[i] = list[j] => i = j
      /\ d.nBlocksToDownload[p] = Len(list)
  BY <1>1 DEF QueueMatches, InQueue
<1>51. d.nBlocksToDownload[p] + 1 = Len(r)
  BY <1>1, <1>3 DEF QueueMatches
<1>6. \A k \in DOMAIN list : list[k] # b
  BY <1>5, DownloadAssumption
<1>7. \A i, j \in DOMAIN r : r[i] = r[j] => i = j
  BY <1>3, <1>4, <1>5, <1>6
<1>8. \A c \in Blocks : (\E k \in DOMAIN r : r[k] = c)
                           <=> c = b \/ d.mapBlocksToDownload[c] = p
  BY <1>3, <1>4, <1>5
<1> DEFINE lists == [d.vBlocksToDownload EXCEPT ![p] = r]
           counts == [d.nBlocksToDownload EXCEPT ![p] = d.nBlocksToDownload[p] + 1]
           map == [d.mapBlocksToDownload EXCEPT ![b] = p]
<1>9. lists \in [Peers -> Seq(Blocks)]
  BY <1>3 DEF DownloadType
<1>10. counts \in [Peers -> Int]
  BY FieldTypes DEF DownloadType
<1>11. map \in [Blocks -> Peers \cup {NoNode}]
  BY DEF DownloadType
<1>12. e = [d EXCEPT !.vBlocksToDownload = lists, !.nBlocksToDownload = counts,
                     !.mapBlocksToDownload = map]
  BY <1>1, <1>2 DEF AddBlockToQueue
<1>13. /\ e \in DownloadType /\ SameFlight(d, e)
       /\ e.vBlocksToDownload = lists /\ e.nBlocksToDownload = counts
       /\ e.mapBlocksToDownload = map
  <2> HIDE DEF lists, counts, map
  <2>1. QED
    BY <1>9, <1>10, <1>11, <1>12 DEF DownloadType, SameFlight
<1>14. ASSUME NEW q \in Peers
       PROVE  /\ \A c \in Blocks : InQueue(e, q, c) <=> e.mapBlocksToDownload[c] = q
              /\ \A i, j \in DOMAIN e.vBlocksToDownload[q] :
                    e.vBlocksToDownload[q][i] = e.vBlocksToDownload[q][j] => i = j
              /\ e.nBlocksToDownload[q] = Len(e.vBlocksToDownload[q])
  <2>1. CASE q = p
    <3>1. e.vBlocksToDownload[q] = r /\ e.nBlocksToDownload[q] = Len(r)
      BY <2>1, <1>13, <1>51 DEF DownloadType
    <3>2. \A c \in Blocks : InQueue(e, q, c) <=> e.mapBlocksToDownload[c] = q
      BY <2>1, <3>1, <1>8, <1>13 DEF InQueue, DownloadType
    <3>3. QED
      BY <3>1, <3>2, <1>7
  <2>2. CASE q # p
    <3>1. /\ e.vBlocksToDownload[q] = d.vBlocksToDownload[q]
          /\ e.nBlocksToDownload[q] = d.nBlocksToDownload[q]
      BY <2>2, <1>13 DEF DownloadType
    <3>2. \A c \in Blocks : e.mapBlocksToDownload[c] = q <=> d.mapBlocksToDownload[c] = q
      <4>1. d.mapBlocksToDownload[b] # q
        BY DownloadAssumption
      <4>2. \A c \in Blocks : map[c] = IF c = b THEN p ELSE d.mapBlocksToDownload[c]
        BY DEF DownloadType
      <4> HIDE DEF map, lists, counts
      <4> QED
        BY <4>1, <4>2, <2>2, <1>13
    <3>3. QED
      BY <3>1, <3>2 DEF QueueMatches, InQueue
  <2>3. QED
    BY <2>1, <2>2
<1>15. QED
  BY <1>13, <1>14 DEF QueueMatches

(* A request joins the end of the blocks in flight, and is the youngest.    *)
LEMMA RequestedMatches ==
    ASSUME NEW d \in DownloadType, NEW p \in Peers, NEW b \in Blocks,
           QueueMatches(d), FlightMatches(d), OldestFirst(d),
           NEW e, e = MarkBlockAsInFlight(d, p, b)
    PROVE  /\ e \in DownloadType /\ QueueMatches(e) /\ FlightMatches(e) /\ OldestFirst(e)
           /\ \A c \in Blocks : e.mapBlocksToDownload[c]
                 = IF c = b THEN NoNode ELSE d.mapBlocksToDownload[c]
           /\ \A c \in Blocks : e.mapBlocksInFlight[c]
                 = IF c = b THEN p ELSE d.mapBlocksInFlight[c]
           /\ Room(d, p) /\ (\A q \in Peers : d.nBlocksInFlight[q] <= MaxInTransit)
              => \A q \in Peers : e.nBlocksInFlight[q] <= MaxInTransit
<1>1. PICK u : u = MarkBlockAsReceived(d, b, NoNode)
  OBVIOUS
<1>2. /\ u \in DownloadType /\ QueueMatches(u) /\ FlightMatches(u) /\ OldestFirst(u)
      /\ u.mapBlocksToDownload = [d.mapBlocksToDownload EXCEPT ![b] = NoNode]
      /\ u.mapBlocksInFlight = [d.mapBlocksInFlight EXCEPT ![b] = NoNode]
      /\ \A q \in Peers : u.nBlocksInFlight[q] <= d.nBlocksInFlight[q]
  BY <1>1, ReceivedMatches
<1>3. PICK list \in Seq(QueuedBlock) : list = u.vBlocksInFlight[p]
  BY <1>2, FieldTypes
<1>4. PICK entry \in QueuedBlock : entry = [hash |-> b, age |-> 0, late |-> FALSE]
  <2>1. Timeout \in Nat
    BY DownloadAssumption
  <2>2. 0 \in RequestAges
    BY <2>1, SMT DEF RequestAges
  <2>3. [hash |-> b, age |-> 0, late |-> FALSE] \in QueuedBlock
    BY <2>2 DEF QueuedBlock
  <2>4. QED
    BY <2>3
<1>5. PICK r : r = Append(list, entry)
  OBVIOUS
<1>6. /\ r \in Seq(QueuedBlock) /\ Len(r) = Len(list) + 1
      /\ r[Len(r)] = entry /\ \A i \in 1 .. Len(list) : r[i] = list[i]
  BY <1>5
<1>7. DOMAIN r = DOMAIN list \cup {Len(r)} /\ DOMAIN list = 1 .. Len(list)
  BY <1>6
<1>8. /\ \A c \in Blocks : (\E k \in DOMAIN list : list[k].hash = c)
                              <=> u.mapBlocksInFlight[c] = p
      /\ \A i, j \in DOMAIN list : list[i].hash = list[j].hash => i = j
      /\ \A i, j \in DOMAIN list : i < j => list[j].age <= list[i].age
      /\ u.nBlocksInFlight[p] = Len(list)
  BY <1>2, <1>3 DEF FlightMatches, OldestFirst, InFlight
<1>9. u.mapBlocksInFlight[b] = NoNode
  BY <1>2 DEF DownloadType
<1>10. \A k \in DOMAIN list : list[k].hash # b
  BY <1>8, <1>9, DownloadAssumption
<1>11. \A k \in DOMAIN list : list[k] \in QueuedBlock
  BY ElementOfSeq
<1>12. /\ \A i, j \in DOMAIN r : r[i].hash = r[j].hash => i = j
       /\ \A i, j \in DOMAIN r : i < j => r[j].age <= r[i].age
  <2> SUFFICES ASSUME NEW i \in DOMAIN r, NEW j \in DOMAIN r
               PROVE  /\ r[i].hash = r[j].hash => i = j
                      /\ i < j => r[j].age <= r[i].age
    OBVIOUS
  <2>1. CASE i \in DOMAIN list /\ j \in DOMAIN list
    BY <2>1, <1>6, <1>7, <1>8
  <2>2. CASE i \in DOMAIN list /\ j = Len(r)
    BY <2>2, <1>4, <1>6, <1>7, <1>10, <1>11 DEF QueuedBlock, RequestAges
  <2>3. CASE i = Len(r) /\ j \in DOMAIN list
    BY <2>3, <1>4, <1>6, <1>7, <1>10
  <2>4. CASE i = Len(r) /\ j = Len(r)
    BY <2>4
  <2>5. QED
    BY <2>1, <2>2, <2>3, <2>4, <1>7
<1>13. \A c \in Blocks : (\E k \in DOMAIN r : r[k].hash = c)
                            <=> c = b \/ u.mapBlocksInFlight[c] = p
  BY <1>4, <1>6, <1>7, <1>8
<1> DEFINE lists == [u.vBlocksInFlight EXCEPT ![p] = r]
           counts == [u.nBlocksInFlight EXCEPT ![p] = u.nBlocksInFlight[p] + 1]
           map == [u.mapBlocksInFlight EXCEPT ![b] = p]
           ages == [u.receiveAge EXCEPT ![p] = IF FirstRequest(u, p) THEN 0 ELSE u.receiveAge[p]]
           lates == [u.receiveLate EXCEPT ![p] = u.receiveLate[p] /\ ~FirstRequest(u, p)]
<1>14. lists \in [Peers -> Seq(QueuedBlock)] /\ counts \in [Peers -> Int]
  BY <1>2, <1>6, FieldTypes DEF DownloadType
<1>15. map \in [Blocks -> Peers \cup {NoNode}]
  BY <1>2 DEF DownloadType
<1>16. ages \in [Peers -> ReceiveAges]
  BY <1>2, AgesKept
<1>17. lates \in [Peers -> BOOLEAN]
  BY <1>2, FieldTypes DEF DownloadType
<1>18. e = [u EXCEPT !.receiveAge = ages, !.receiveLate = lates, !.vBlocksInFlight = lists,
                     !.nBlocksInFlight = counts, !.mapBlocksInFlight = map]
  BY <1>1, <1>3, <1>4, <1>5 DEF MarkBlockAsInFlight, Requested
<1>19. /\ e \in DownloadType /\ SameQueue(u, e)
       /\ e.vBlocksInFlight = lists /\ e.nBlocksInFlight = counts
       /\ e.mapBlocksInFlight = map
  <2> HIDE DEF lists, counts, map, ages, lates
  <2>1. u \in DownloadType
    BY <1>2
  <2>2. e = [vBlocksToDownload |-> u.vBlocksToDownload,
             nBlocksToDownload |-> u.nBlocksToDownload,
             mapBlocksToDownload |-> u.mapBlocksToDownload,
             vBlocksInFlight |-> lists, nBlocksInFlight |-> counts,
             mapBlocksInFlight |-> map, receiveAge |-> ages, receiveLate |-> lates]
    <3>1. u = AsRecord(u)
      BY <2>1, DownloadIsRecord
    <3> QED
      BY <1>18, <3>1 DEF AsRecord
  <2>3. e \in DownloadType
    BY <2>1, <2>2, <1>14, <1>15, <1>16, <1>17 DEF DownloadType
  <2> QED
    BY <2>2, <2>3 DEF SameQueue
<1>20. ASSUME NEW q \in Peers
       PROVE  /\ \A c \in Blocks : InFlight(e, q, c) <=> e.mapBlocksInFlight[c] = q
              /\ \A i, j \in DOMAIN e.vBlocksInFlight[q] :
                    e.vBlocksInFlight[q][i].hash = e.vBlocksInFlight[q][j].hash => i = j
              /\ e.nBlocksInFlight[q] = Len(e.vBlocksInFlight[q])
              /\ \A i, j \in DOMAIN e.vBlocksInFlight[q] :
                    i < j => e.vBlocksInFlight[q][j].age <= e.vBlocksInFlight[q][i].age
              /\ q = p => e.nBlocksInFlight[q] <= d.nBlocksInFlight[q] + 1
              /\ q # p => e.nBlocksInFlight[q] <= d.nBlocksInFlight[q]
  <2>0. /\ u.nBlocksInFlight[q] \in Int /\ d.nBlocksInFlight[q] \in Int
        /\ u.nBlocksInFlight[q] <= d.nBlocksInFlight[q]
    BY <1>2, FieldTypes
  <2>1. CASE q = p
    <3>1. e.vBlocksInFlight[q] = r /\ e.nBlocksInFlight[q] = u.nBlocksInFlight[q] + 1
      BY <2>1, <1>2, <1>19 DEF DownloadType
    <3>11. \A c \in Blocks : map[c] = IF c = b THEN p ELSE u.mapBlocksInFlight[c]
      BY <1>2 DEF DownloadType
    <3>2. \A c \in Blocks : InFlight(e, q, c) <=> e.mapBlocksInFlight[c] = q
      <4> HIDE DEF map, lists, counts, ages, lates
      <4> QED
        BY <2>1, <3>1, <3>11, <1>13, <1>19 DEF InFlight
    <3>3. QED
      BY <2>0, <2>1, <3>1, <3>2, <1>6, <1>8, <1>12
  <2>2. CASE q # p
    <3>1. /\ e.vBlocksInFlight[q] = u.vBlocksInFlight[q]
          /\ e.nBlocksInFlight[q] = u.nBlocksInFlight[q]
      BY <2>2, <1>2, <1>19 DEF DownloadType
    <3>2. \A c \in Blocks : e.mapBlocksInFlight[c] = q <=> u.mapBlocksInFlight[c] = q
      BY <2>2, <1>2, <1>9, <1>19, DownloadAssumption DEF DownloadType
    <3>3. QED
      BY <2>0, <2>2, <3>1, <3>2, <1>2 DEF FlightMatches, OldestFirst, InFlight
  <2>3. QED
    BY <2>1, <2>2
<1>21. FlightMatches(e) /\ OldestFirst(e)
  BY <1>20 DEF FlightMatches, OldestFirst
<1>22. QueueMatches(e)
  BY <1>2, <1>19, SameQueueMatches
<1>23. e.mapBlocksToDownload = u.mapBlocksToDownload
  BY <1>19 DEF SameQueue
<1>24. /\ \A c \in Blocks : e.mapBlocksToDownload[c]
             = IF c = b THEN NoNode ELSE d.mapBlocksToDownload[c]
       /\ \A c \in Blocks : e.mapBlocksInFlight[c]
             = IF c = b THEN p ELSE d.mapBlocksInFlight[c]
  BY <1>2, <1>19, <1>23 DEF DownloadType
<1>25. ASSUME Room(d, p), \A q \in Peers : d.nBlocksInFlight[q] <= MaxInTransit
       PROVE  \A q \in Peers : e.nBlocksInFlight[q] <= MaxInTransit
  <2> TAKE q \in Peers
  <2>1. /\ e.nBlocksInFlight[q] \in Int /\ d.nBlocksInFlight[q] \in Int
        /\ MaxInTransit \in Int
    <3> HIDE DEF lists, counts, map, ages, lates
    <3>1. e \in DownloadType /\ MaxInTransit \in Int
      BY <1>19, DownloadAssumption
    <3>2. QED
      BY <3>1, FieldTypes
  <2>2. CASE q = p
    BY <2>1, <2>2, <1>20, <1>25 DEF Room
  <2>3. CASE q # p
    BY <2>1, <2>3, <1>20, <1>25
  <2>4. QED
    BY <2>2, <2>3
<1>26. QED
  BY <1>19, <1>21, <1>22, <1>24, <1>25

(* FinalizeNode: the blocks of p leave the maps, and its lists are emptied. *)
LEMMA FinalizedMatches ==
    ASSUME NEW d \in DownloadType, NEW p \in Peers,
           QueueMatches(d), FlightMatches(d), OldestFirst(d),
           NEW e, e = Erased(Forgotten(d, p), p)
    PROVE  /\ e \in DownloadType /\ QueueMatches(e) /\ FlightMatches(e) /\ OldestFirst(e)
           /\ \A c \in Blocks : e.mapBlocksToDownload[c]
                 = IF d.mapBlocksToDownload[c] = p THEN NoNode ELSE d.mapBlocksToDownload[c]
           /\ \A c \in Blocks : e.mapBlocksInFlight[c]
                 = IF d.mapBlocksInFlight[c] = p THEN NoNode ELSE d.mapBlocksInFlight[c]
           /\ \A q \in Peers : e.nBlocksInFlight[q] <= d.nBlocksInFlight[q]
<1> DEFINE queues == [d.vBlocksToDownload EXCEPT ![p] = <<>>]
           queued == [d.nBlocksToDownload EXCEPT ![p] = 0]
           queueMap == [c \in Blocks |-> IF InQueue(d, p, c) THEN NoNode
                                         ELSE d.mapBlocksToDownload[c]]
           flights == [d.vBlocksInFlight EXCEPT ![p] = <<>>]
           flying == [d.nBlocksInFlight EXCEPT ![p] = 0]
           flightMap == [c \in Blocks |-> IF InFlight(d, p, c) THEN NoNode
                                          ELSE d.mapBlocksInFlight[c]]
           ages == [d.receiveAge EXCEPT ![p] = Timeout + 1]
           lates == [d.receiveLate EXCEPT ![p] = FALSE]
<1>1. /\ queues \in [Peers -> Seq(Blocks)] /\ queued \in [Peers -> Int]
      /\ flights \in [Peers -> Seq(QueuedBlock)] /\ flying \in [Peers -> Int]
  BY DEF DownloadType
<1>2. /\ queueMap \in [Blocks -> Peers \cup {NoNode}]
      /\ flightMap \in [Blocks -> Peers \cup {NoNode}]
      /\ ages \in [Peers -> ReceiveAges] /\ lates \in [Peers -> BOOLEAN]
  BY DownloadAssumption DEF DownloadType, ReceiveAges
<1>3. e = [d EXCEPT !.vBlocksToDownload = queues, !.nBlocksToDownload = queued,
                    !.mapBlocksToDownload = queueMap, !.vBlocksInFlight = flights,
                    !.nBlocksInFlight = flying, !.mapBlocksInFlight = flightMap,
                    !.receiveAge = ages, !.receiveLate = lates]
  BY DEF Erased, Forgotten, DownloadType
<1>4. /\ e \in DownloadType
      /\ e.vBlocksToDownload = queues /\ e.nBlocksToDownload = queued
      /\ e.mapBlocksToDownload = queueMap /\ e.vBlocksInFlight = flights
      /\ e.nBlocksInFlight = flying /\ e.mapBlocksInFlight = flightMap
  <2> HIDE DEF queues, queued, queueMap, flights, flying, flightMap, ages, lates
  <2>1. e = [vBlocksToDownload |-> queues, nBlocksToDownload |-> queued,
             mapBlocksToDownload |-> queueMap, vBlocksInFlight |-> flights,
             nBlocksInFlight |-> flying, mapBlocksInFlight |-> flightMap,
             receiveAge |-> ages, receiveLate |-> lates]
    <3>1. d = AsRecord(d)
      BY DownloadIsRecord
    <3> QED
      BY <1>3, <3>1 DEF AsRecord
  <2>2. e \in DownloadType
    BY <2>1, <1>1, <1>2 DEF DownloadType
  <2> QED
    BY <2>1, <2>2
<1>5. /\ \A c \in Blocks : InQueue(d, p, c) <=> d.mapBlocksToDownload[c] = p
      /\ \A c \in Blocks : InFlight(d, p, c) <=> d.mapBlocksInFlight[c] = p
  BY DEF QueueMatches, FlightMatches
<1>6. /\ \A c \in Blocks : e.mapBlocksToDownload[c]
            = IF d.mapBlocksToDownload[c] = p THEN NoNode ELSE d.mapBlocksToDownload[c]
      /\ \A c \in Blocks : e.mapBlocksInFlight[c]
            = IF d.mapBlocksInFlight[c] = p THEN NoNode ELSE d.mapBlocksInFlight[c]
  BY <1>4, <1>5
<1>7. ASSUME NEW q \in Peers
      PROVE  /\ \A c \in Blocks : InQueue(e, q, c) <=> e.mapBlocksToDownload[c] = q
             /\ \A i, j \in DOMAIN e.vBlocksToDownload[q] :
                   e.vBlocksToDownload[q][i] = e.vBlocksToDownload[q][j] => i = j
             /\ e.nBlocksToDownload[q] = Len(e.vBlocksToDownload[q])
  <2>1. CASE q = p
    <3>1. e.vBlocksToDownload[q] = <<>> /\ e.nBlocksToDownload[q] = 0
      BY <2>1, <1>4 DEF DownloadType
    <3>2. \A c \in Blocks : ~InQueue(e, q, c) /\ e.mapBlocksToDownload[c] # q
      BY <2>1, <3>1, <1>6, DownloadAssumption DEF InQueue
    <3>3. QED
      BY <3>1, <3>2
  <2>2. CASE q # p
    <3>1. /\ e.vBlocksToDownload[q] = d.vBlocksToDownload[q]
          /\ e.nBlocksToDownload[q] = d.nBlocksToDownload[q]
      BY <2>2, <1>4 DEF DownloadType
    <3>2. \A c \in Blocks : e.mapBlocksToDownload[c] = q <=> d.mapBlocksToDownload[c] = q
      BY <2>2, <1>6, DownloadAssumption
    <3>3. QED
      BY <3>1, <3>2 DEF QueueMatches, InQueue
  <2>3. QED
    BY <2>1, <2>2
<1>8. ASSUME NEW q \in Peers
      PROVE  /\ \A c \in Blocks : InFlight(e, q, c) <=> e.mapBlocksInFlight[c] = q
             /\ \A i, j \in DOMAIN e.vBlocksInFlight[q] :
                   e.vBlocksInFlight[q][i].hash = e.vBlocksInFlight[q][j].hash => i = j
             /\ e.nBlocksInFlight[q] = Len(e.vBlocksInFlight[q])
             /\ \A i, j \in DOMAIN e.vBlocksInFlight[q] :
                   i < j => e.vBlocksInFlight[q][j].age <= e.vBlocksInFlight[q][i].age
             /\ e.nBlocksInFlight[q] <= d.nBlocksInFlight[q]
  <2>1. CASE q = p
    <3>1. e.vBlocksInFlight[q] = <<>> /\ e.nBlocksInFlight[q] = 0
      BY <2>1, <1>4 DEF DownloadType
    <3>2. \A c \in Blocks : ~InFlight(e, q, c) /\ e.mapBlocksInFlight[c] # q
      BY <2>1, <3>1, <1>6, DownloadAssumption DEF InFlight
    <3>3. d.vBlocksInFlight[q] \in Seq(QueuedBlock) /\ d.nBlocksInFlight[q] = Len(d.vBlocksInFlight[q])
      BY FieldTypes DEF FlightMatches
    <3>4. QED
      BY <3>1, <3>2, <3>3
  <2>2. CASE q # p
    <3>1. /\ e.vBlocksInFlight[q] = d.vBlocksInFlight[q]
          /\ e.nBlocksInFlight[q] = d.nBlocksInFlight[q]
      BY <2>2, <1>4 DEF DownloadType
    <3>2. \A c \in Blocks : e.mapBlocksInFlight[c] = q <=> d.mapBlocksInFlight[c] = q
      BY <2>2, <1>6, DownloadAssumption
    <3>3. d.nBlocksInFlight[q] \in Int
      BY FieldTypes
    <3>4. QED
      BY <3>1, <3>2, <3>3 DEF FlightMatches, OldestFirst, InFlight
  <2>3. QED
    BY <2>1, <2>2
<1>9. QED
  BY <1>4, <1>6, <1>7, <1>8 DEF QueueMatches, FlightMatches, OldestFirst

LEMMA FunctionIsSeq ==
    ASSUME NEW S, NEW n \in Nat, NEW f \in [1 .. n -> S]
    PROVE  f \in Seq(S) /\ Len(f) = n
BY SeqDef

(* What changes the times of the requests, and not their order, keeps the   *)
(* lists and the maps.                                                      *)
LEMMA AgedMatches ==
    ASSUME NEW d \in DownloadType, FlightMatches(d), OldestFirst(d), QueueMatches(d),
           NEW e \in DownloadType, SameQueue(d, e),
           e.nBlocksInFlight = d.nBlocksInFlight,
           e.mapBlocksInFlight = d.mapBlocksInFlight,
           \A q \in Peers :
              /\ DOMAIN e.vBlocksInFlight[q] = DOMAIN d.vBlocksInFlight[q]
              /\ \A i \in DOMAIN d.vBlocksInFlight[q] :
                    e.vBlocksInFlight[q][i].hash = d.vBlocksInFlight[q][i].hash
              /\ \A i, j \in DOMAIN d.vBlocksInFlight[q] :
                    d.vBlocksInFlight[q][j].age <= d.vBlocksInFlight[q][i].age
                    => e.vBlocksInFlight[q][j].age <= e.vBlocksInFlight[q][i].age
    PROVE  QueueMatches(e) /\ FlightMatches(e) /\ OldestFirst(e)
<1>1. QueueMatches(e)
  BY SameQueueMatches
<1>2. OldestFirst(e)
  BY DEF OldestFirst
<1>3. ASSUME NEW q \in Peers
      PROVE  Len(e.vBlocksInFlight[q]) = Len(d.vBlocksInFlight[q])
  <2>1. e.vBlocksInFlight[q] \in Seq(QueuedBlock) /\ d.vBlocksInFlight[q] \in Seq(QueuedBlock)
    BY FieldTypes
  <2>2. 1 .. Len(e.vBlocksInFlight[q]) = 1 .. Len(d.vBlocksInFlight[q])
    BY <2>1
  <2>3. Len(e.vBlocksInFlight[q]) \in Nat /\ Len(d.vBlocksInFlight[q]) \in Nat
    BY <2>1
  <2>4. QED
    BY <2>2, <2>3
<1>4. FlightMatches(e)
  BY <1>3 DEF FlightMatches, InFlight
<1>5. QED
  BY <1>1, <1>2, <1>4

(* A message of p changes what is late, and nothing the lists are about.    *)
LEMMA ProcessedMatches ==
    ASSUME NEW d \in DownloadType, NEW p \in Peers,
           QueueMatches(d), FlightMatches(d), OldestFirst(d),
           NEW e, e = Processed(d, p)
    PROVE  /\ e \in DownloadType /\ QueueMatches(e) /\ FlightMatches(e) /\ OldestFirst(e)
           /\ e.mapBlocksToDownload = d.mapBlocksToDownload
           /\ e.mapBlocksInFlight = d.mapBlocksInFlight
           /\ e.nBlocksInFlight = d.nBlocksInFlight
<1>1. PICK flight \in Seq(QueuedBlock) : flight = d.vBlocksInFlight[p]
  BY FieldTypes
<1>2. PICK r : r = [i \in DOMAIN flight |->
                      [flight[i] EXCEPT !.late = flight[i].age > 2 * Timeout]]
  OBVIOUS
<1>3. Len(flight) \in Nat /\ DOMAIN flight = 1 .. Len(flight)
  BY LenProperties
<1>4. \A i \in DOMAIN flight : flight[i] \in QueuedBlock
  BY ElementOfSeq, <1>3
<1>5. \A i \in DOMAIN flight :
         r[i] \in QueuedBlock /\ r[i].hash = flight[i].hash /\ r[i].age = flight[i].age
  <2> TAKE i \in DOMAIN flight
  <2>1. PICK late \in BOOLEAN : late = (flight[i].age > 2 * Timeout)
    <3>1. Timeout \in Int /\ flight[i].age \in Int
      BY <1>4, DownloadAssumption DEF QueuedBlock, RequestAges
    <3>2. (flight[i].age > 2 * Timeout) \in BOOLEAN
      BY <3>1
    <3>3. QED
      BY <3>2, Zenon
  <2>2. r[i] = [flight[i] EXCEPT !.late = late]
    BY <2>1, <1>2
  <2>3. flight[i] \in QueuedBlock
    BY <1>4
  <2>4. QED
    BY <2>2, <2>3 DEF QueuedBlock
<1>6. r \in [1 .. Len(flight) -> QueuedBlock]
  BY <1>2, <1>3, <1>5
<1>7. r \in Seq(QueuedBlock) /\ DOMAIN r = DOMAIN flight
  BY <1>2, <1>3, <1>6, FunctionIsSeq
<1> DEFINE lists == [d.vBlocksInFlight EXCEPT ![p] = r]
           lates == [d.receiveLate EXCEPT ![p] = d.receiveAge[p] > Timeout]
<1>8. lists \in [Peers -> Seq(QueuedBlock)] /\ lates \in [Peers -> BOOLEAN]
  BY <1>7 DEF DownloadType
<1>9. e = [d EXCEPT !.receiveLate = lates, !.vBlocksInFlight = lists]
  BY <1>1, <1>2 DEF Processed
<1>10. /\ e \in DownloadType /\ SameQueue(d, e) /\ e.vBlocksInFlight = lists
       /\ e.nBlocksInFlight = d.nBlocksInFlight /\ e.mapBlocksInFlight = d.mapBlocksInFlight
  <2> HIDE DEF lists, lates
  <2>1. QED
    BY <1>8, <1>9 DEF DownloadType, SameQueue
<1>11. ASSUME NEW q \in Peers
       PROVE  /\ DOMAIN e.vBlocksInFlight[q] = DOMAIN d.vBlocksInFlight[q]
              /\ \A i \in DOMAIN d.vBlocksInFlight[q] :
                    /\ e.vBlocksInFlight[q][i].hash = d.vBlocksInFlight[q][i].hash
                    /\ e.vBlocksInFlight[q][i].age = d.vBlocksInFlight[q][i].age
  <2>1. CASE q = p
    <3>1. e.vBlocksInFlight[q] = r
      BY <2>1, <1>10 DEF DownloadType
    <3>2. QED
      BY <2>1, <3>1, <1>1, <1>5, <1>7
  <2>2. CASE q # p
    <3>1. e.vBlocksInFlight[q] = d.vBlocksInFlight[q]
      BY <2>2, <1>10 DEF DownloadType
    <3>2. QED
      BY <3>1
  <2>3. QED
    BY <2>1, <2>2
<1> HIDE DEF lists, lates
<1>12. ASSUME NEW q \in Peers, NEW i \in DOMAIN d.vBlocksInFlight[q],
              NEW j \in DOMAIN d.vBlocksInFlight[q],
              d.vBlocksInFlight[q][j].age <= d.vBlocksInFlight[q][i].age
       PROVE  e.vBlocksInFlight[q][j].age <= e.vBlocksInFlight[q][i].age
  <2>1. /\ e.vBlocksInFlight[q][j].age = d.vBlocksInFlight[q][j].age
        /\ e.vBlocksInFlight[q][i].age = d.vBlocksInFlight[q][i].age
    BY <1>11
  <2>2. QED
    BY <2>1, <1>12
<1>13. QueueMatches(e) /\ FlightMatches(e) /\ OldestFirst(e)
  <2>1. /\ e \in DownloadType /\ SameQueue(d, e)
        /\ e.nBlocksInFlight = d.nBlocksInFlight
        /\ e.mapBlocksInFlight = d.mapBlocksInFlight
    BY <1>10
  <2>2. QED
    BY <2>1, <1>11, <1>12, AgedMatches
<1>14. QED
  BY <1>10, <1>13 DEF SameQueue

LEMMA OlderGrows ==
    ASSUME NEW most \in Nat, NEW a \in 0 .. most, NEW b \in 0 .. most
    PROVE  /\ Older(a, most) \in 0 .. most
           /\ a <= b => Older(a, most) <= Older(b, most)
BY DEF Older

(* Time passes for every request alike.                                     *)
LEMMA TickMatches ==
    ASSUME dl \in DownloadType, QueueMatches(dl), FlightMatches(dl), OldestFirst(dl), Tick
    PROVE  /\ dl' \in DownloadType /\ QueueMatches(dl') /\ FlightMatches(dl')
           /\ OldestFirst(dl')
           /\ dl'.mapBlocksToDownload = dl.mapBlocksToDownload
           /\ dl'.mapBlocksInFlight = dl.mapBlocksInFlight
           /\ dl'.nBlocksInFlight = dl.nBlocksInFlight
<1>1. PICK d \in DownloadType : d = dl
  OBVIOUS
<1>2. PICK e : e = dl'
  OBVIOUS
<1>3. Timeout \in Nat
  BY DownloadAssumption
<1> DEFINE ages == [p \in Peers |-> Older(d.receiveAge[p], Timeout + 1)]
           lists == [p \in Peers |->
                       [i \in DOMAIN d.vBlocksInFlight[p] |->
                          [d.vBlocksInFlight[p][i] EXCEPT
                             !.age = Older(d.vBlocksInFlight[p][i].age, 2 * Timeout + 1)]]]
<1>4. e = [d EXCEPT !.receiveAge = ages, !.vBlocksInFlight = lists]
  BY <1>1, <1>2 DEF Tick
<1>5. ages \in [Peers -> ReceiveAges]
  BY <1>3, FieldTypes, OlderGrows DEF ReceiveAges
<1>6. ASSUME NEW q \in Peers
      PROVE  /\ lists[q] \in Seq(QueuedBlock)
             /\ DOMAIN lists[q] = DOMAIN d.vBlocksInFlight[q]
             /\ \A i \in DOMAIN d.vBlocksInFlight[q] :
                   lists[q][i].hash = d.vBlocksInFlight[q][i].hash
             /\ \A i, j \in DOMAIN d.vBlocksInFlight[q] :
                   d.vBlocksInFlight[q][j].age <= d.vBlocksInFlight[q][i].age
                   => lists[q][j].age <= lists[q][i].age
  <2>1. PICK flight \in Seq(QueuedBlock) : flight = d.vBlocksInFlight[q]
    BY FieldTypes
  <2>2. PICK r : r = [i \in DOMAIN flight |->
                        [flight[i] EXCEPT !.age = Older(flight[i].age, 2 * Timeout + 1)]]
    OBVIOUS
  <2>3. Len(flight) \in Nat /\ DOMAIN flight = 1 .. Len(flight)
    BY LenProperties
  <2>4. \A i \in DOMAIN flight : flight[i] \in QueuedBlock
    BY ElementOfSeq, <2>3
  <2>5. \A i \in DOMAIN flight : flight[i].age \in 0 .. 2 * Timeout + 1
    BY <2>4 DEF QueuedBlock, RequestAges
  <2>6. \A i \in DOMAIN flight :
           /\ r[i] = [flight[i] EXCEPT !.age = Older(flight[i].age, 2 * Timeout + 1)]
           /\ Older(flight[i].age, 2 * Timeout + 1) \in RequestAges
    <3> TAKE i \in DOMAIN flight
    <3>1. r[i] = [flight[i] EXCEPT !.age = Older(flight[i].age, 2 * Timeout + 1)]
      BY <2>2
    <3>2. 2 * Timeout + 1 \in Nat
      BY <1>3
    <3>3. flight[i].age \in 0 .. 2 * Timeout + 1
      BY <2>5
    <3>4. Older(flight[i].age, 2 * Timeout + 1) \in RequestAges
      BY <3>2, <3>3, OlderGrows, Zenon DEF RequestAges
    <3>5. QED
      BY <3>1, <3>4
  <2>7. \A i \in DOMAIN flight :
           /\ r[i] \in QueuedBlock /\ r[i].hash = flight[i].hash
           /\ r[i].age = Older(flight[i].age, 2 * Timeout + 1)
    BY <2>4, <2>6 DEF QueuedBlock
  <2>8. ASSUME NEW i \in DOMAIN flight, NEW j \in DOMAIN flight,
               flight[j].age <= flight[i].age
        PROVE  r[j].age <= r[i].age
    <3>1. 2 * Timeout + 1 \in Nat
      BY <1>3
    <3>2. /\ flight[i].age \in 0 .. 2 * Timeout + 1
          /\ flight[j].age \in 0 .. 2 * Timeout + 1
      BY <2>5
    <3>3. Older(flight[j].age, 2 * Timeout + 1) <= Older(flight[i].age, 2 * Timeout + 1)
      BY <2>8, <3>1, <3>2, OlderGrows, Zenon
    <3>4. QED
      BY <3>3, <2>7
  <2>9. r \in [1 .. Len(flight) -> QueuedBlock]
    BY <2>2, <2>3, <2>7
  <2>10. r \in Seq(QueuedBlock) /\ DOMAIN r = DOMAIN flight
    BY <2>2, <2>3, <2>9, FunctionIsSeq
  <2>11. lists[q] = r
    BY <2>1, <2>2
  <2> HIDE DEF lists
  <2>12. QED
    BY <2>1, <2>7, <2>8, <2>10, <2>11
<1>7. lists \in [Peers -> Seq(QueuedBlock)]
  BY <1>6
<1>8. /\ e \in DownloadType /\ SameQueue(d, e) /\ e.vBlocksInFlight = lists
      /\ e.nBlocksInFlight = d.nBlocksInFlight /\ e.mapBlocksInFlight = d.mapBlocksInFlight
  <2> HIDE DEF lists, ages
  <2>1. QED
    BY <1>4, <1>5, <1>7 DEF DownloadType, SameQueue
<1> HIDE DEF lists, ages
<1>9. QueueMatches(e) /\ FlightMatches(e) /\ OldestFirst(e)
  <2>1. QueueMatches(d) /\ FlightMatches(d) /\ OldestFirst(d)
    BY <1>1
  <2>2. QED
    BY <2>1, <1>6, <1>8, AgedMatches
<1>10. QED
  BY <1>1, <1>2, <1>8, <1>9 DEF SameQueue

-----------------------------------------------------------------------------
(* The inductive invariant.  OldestFirst, which orders every two requests   *)
(* of a peer, is needed for FrontIsOldest: once the front is received, the  *)
(* next one has to be the oldest of the rest.                               *)
Typed ==
    /\ conn \in [Peers -> Connections]
    /\ sending \in Peers \cup {NoNode}
    /\ dl \in DownloadType
    /\ \A p \in Peers : dl.nBlocksInFlight[p] <= MaxInTransit
    /\ peer \in [Peers -> [nMisbehavior : 0 .. BanScore, fShouldBan : BOOLEAN]]
    /\ index \subseteq Blocks /\ orphans \subseteq Blocks /\ submitted \subseteq Blocks

IInv == Typed /\ ListsMatchMaps /\ OldestFirst(dl) /\ OnlyMissingWanted

LEMMA InitIInv == Init => IInv
<1> SUFFICES ASSUME Init PROVE IInv
  OBVIOUS
<1>1. Timeout \in Nat /\ MaxInTransit \in Nat /\ BanScore \in Nat
  BY DownloadAssumption
<1>2. dl \in DownloadType
  <2>1. Timeout + 1 \in ReceiveAges
    BY <1>1 DEF ReceiveAges
  <2>2. QED
    BY <2>1 DEF Init, DownloadType
<1>3. \A p \in Peers : /\ dl.vBlocksToDownload[p] = <<>> /\ dl.nBlocksToDownload[p] = 0
                       /\ dl.vBlocksInFlight[p] = <<>> /\ dl.nBlocksInFlight[p] = 0
  BY DEF Init
<1>4. \A b \in Blocks : /\ dl.mapBlocksToDownload[b] = NoNode
                        /\ dl.mapBlocksInFlight[b] = NoNode
  BY DEF Init
<1>5. peer \in [Peers -> [nMisbehavior : 0 .. BanScore, fShouldBan : BOOLEAN]]
  BY <1>1 DEF Init
<1>6. Typed
  BY <1>1, <1>2, <1>3, <1>5 DEF Init, Typed, Connections
<1>7. QueueMatches(dl)
  BY <1>3, <1>4, DownloadAssumption DEF QueueMatches, InQueue
<1>8. FlightMatches(dl) /\ OldestFirst(dl)
  BY <1>3, <1>4, DownloadAssumption DEF FlightMatches, InFlight, OldestFirst
<1>9. Disjoint(dl) /\ OwnersHaveState
  BY <1>4 DEF Disjoint, OwnersHaveState
<1>10. OnlyMissingWanted
  BY <1>4 DEF OnlyMissingWanted, Have, Wanted, Init
<1>11. QED
  BY <1>6, <1>7, <1>8, <1>9, <1>10 DEF IInv, ListsMatchMaps

(* Steps that leave the lists and the maps alone.                           *)
LEMMA UntouchedDownloads ==
    ASSUME IInv, dl' = dl, \A p \in Peers : HasState(p) => HasState(p)',
           conn' \in [Peers -> Connections], sending' \in Peers \cup {NoNode},
           peer' \in [Peers -> [nMisbehavior : 0 .. BanScore, fShouldBan : BOOLEAN]],
           index' \subseteq Blocks, orphans' \subseteq Blocks, submitted' \subseteq Blocks,
           Have' \ submitted' \subseteq Have \ submitted
    PROVE  IInv'
<1>1. Typed'
  BY DEF IInv, Typed
<1>2. QueueMatches(dl)' /\ FlightMatches(dl)' /\ Disjoint(dl)' /\ OldestFirst(dl)'
  BY DEF IInv, ListsMatchMaps, QueueMatches, FlightMatches, Disjoint, OldestFirst,
         InQueue, InFlight
<1>3. OwnersHaveState'
  <2>1. OwnersHaveState
    BY DEF IInv, ListsMatchMaps
  <2>2. QED
    BY <2>1 DEF OwnersHaveState
<1>4. OnlyMissingWanted'
  BY DEF IInv, OnlyMissingWanted, Wanted
<1>5. QED
  BY <1>1, <1>2, <1>3, <1>4 DEF IInv, ListsMatchMaps

(* Steps that change them, by what they make of the maps: a block is wanted *)
(* by the peer that had it, or by nobody, or newly, and only if missing, by *)
(* one that is connected.                                                   *)
LEMMA ChangedDownloads ==
    ASSUME IInv, dl' \in DownloadType, QueueMatches(dl)', FlightMatches(dl)', OldestFirst(dl)',
           \A p \in Peers : dl'.nBlocksInFlight[p] <= MaxInTransit,
           conn' \in [Peers -> Connections], sending' \in Peers \cup {NoNode},
           peer' \in [Peers -> [nMisbehavior : 0 .. BanScore, fShouldBan : BOOLEAN]],
           index' \subseteq Blocks, orphans' \subseteq Blocks, submitted' \subseteq Blocks,
           Disjoint(dl)', OwnersHaveState', OnlyMissingWanted'
    PROVE  IInv'
BY DEF IInv, ListsMatchMaps, Typed

LEMMA MisbehavingType ==
    ASSUME NEW p \in Peers, IInv, Misbehaving(p, Penalty)
    PROVE  peer' \in [Peers -> [nMisbehavior : 0 .. BanScore, fShouldBan : BOOLEAN]]
<1>1. /\ peer \in [Peers -> [nMisbehavior : 0 .. BanScore, fShouldBan : BOOLEAN]]
      /\ Penalty \in Nat /\ BanScore \in Nat
  BY DownloadAssumption DEF IInv, Typed
<1>2. PICK score : score = IF peer[p].nMisbehavior + Penalty < BanScore
                           THEN peer[p].nMisbehavior + Penalty ELSE BanScore
  OBVIOUS
<1>3. score \in 0 .. BanScore
  BY <1>1, <1>2
<1>4. PICK ban \in BOOLEAN : ban = (peer[p].fShouldBan \/ score = BanScore)
  BY <1>1
<1>5. peer' = [peer EXCEPT ![p] = [nMisbehavior |-> score, fShouldBan |-> ban]]
  BY <1>2, <1>4 DEF Misbehaving
<1>6. QED
  BY <1>1, <1>3, <1>5

LEMMA DownloadFacts ==
    ASSUME IInv
    PROVE  /\ dl \in DownloadType /\ QueueMatches(dl) /\ FlightMatches(dl) /\ OldestFirst(dl)
           /\ Disjoint(dl) /\ OwnersHaveState /\ OnlyMissingWanted
           /\ \A p \in Peers : dl.nBlocksInFlight[p] <= MaxInTransit
           /\ conn \in [Peers -> Connections] /\ sending \in Peers \cup {NoNode}
           /\ peer \in [Peers -> [nMisbehavior : 0 .. BanScore, fShouldBan : BOOLEAN]]
           /\ index \subseteq Blocks /\ orphans \subseteq Blocks /\ submitted \subseteq Blocks
           /\ Have \subseteq Blocks
BY DEF IInv, ListsMatchMaps, Typed, Have

LEMMA TickStep == ASSUME IInv, Tick PROVE IInv'
<1>1. /\ dl \in DownloadType /\ QueueMatches(dl) /\ FlightMatches(dl) /\ OldestFirst(dl)
      /\ Disjoint(dl) /\ OwnersHaveState /\ OnlyMissingWanted
  BY DownloadFacts
<1>2. UNCHANGED <<conn, sending, peer, index, orphans, submitted>>
  BY DEF Tick
<1>3. /\ dl' \in DownloadType /\ QueueMatches(dl') /\ FlightMatches(dl') /\ OldestFirst(dl')
      /\ dl'.mapBlocksToDownload = dl.mapBlocksToDownload
      /\ dl'.mapBlocksInFlight = dl.mapBlocksInFlight
      /\ dl'.nBlocksInFlight = dl.nBlocksInFlight
  BY <1>1, TickMatches
<1>4. QueueMatches(dl)' /\ FlightMatches(dl)' /\ OldestFirst(dl)'
  BY <1>3 DEF QueueMatches, FlightMatches, OldestFirst, InQueue, InFlight
<1>5. Disjoint(dl)' /\ OwnersHaveState' /\ OnlyMissingWanted'
  BY <1>1, <1>2, <1>3 DEF Disjoint, OwnersHaveState, HasState, OnlyMissingWanted, Wanted, Have
<1>6. QED
  BY <1>2, <1>3, <1>4, <1>5, DownloadFacts, ChangedDownloads

(* What a block message, an announcement and any other do first.            *)
LEMMA MessageFacts ==
    ASSUME IInv, NEW p \in Peers, Receiving(p), NEW d, d = Processed(dl, p)
    PROVE  /\ d \in DownloadType /\ QueueMatches(d) /\ FlightMatches(d) /\ OldestFirst(d)
           /\ d.mapBlocksToDownload = dl.mapBlocksToDownload
           /\ d.mapBlocksInFlight = dl.mapBlocksInFlight
           /\ d.nBlocksInFlight = dl.nBlocksInFlight
           /\ HasState(p)
<1>1. HasState(p)
  BY DEF Receiving, HasState
<1>2. QED
  BY <1>1, DownloadFacts, ProcessedMatches

LEMMA OtherStep == ASSUME IInv, NEW p \in Peers, Other(p) PROVE IInv'
<1>1. /\ Disjoint(dl) /\ OwnersHaveState /\ OnlyMissingWanted
  BY DownloadFacts
<1>2. UNCHANGED <<conn, sending, peer, index, orphans, submitted>> /\ dl' = Processed(dl, p)
  BY DEF Other
<1>3. /\ dl' \in DownloadType /\ QueueMatches(dl') /\ FlightMatches(dl') /\ OldestFirst(dl')
      /\ dl'.mapBlocksToDownload = dl.mapBlocksToDownload
      /\ dl'.mapBlocksInFlight = dl.mapBlocksInFlight
      /\ dl'.nBlocksInFlight = dl.nBlocksInFlight
  BY <1>2, MessageFacts DEF Other
<1>4. QueueMatches(dl)' /\ FlightMatches(dl)' /\ OldestFirst(dl)'
  BY <1>3 DEF QueueMatches, FlightMatches, OldestFirst, InQueue, InFlight
<1>5. Disjoint(dl)' /\ OwnersHaveState' /\ OnlyMissingWanted'
  BY <1>1, <1>2, <1>3 DEF Disjoint, OwnersHaveState, HasState, OnlyMissingWanted, Wanted, Have
<1>6. QED
  BY <1>2, <1>3, <1>4, <1>5, DownloadFacts, ChangedDownloads

(* An announced block that is missing and wanted from nobody is queued.     *)
LEMMA InvStep == ASSUME IInv, NEW p \in Peers, NEW b \in Blocks, Inv(p, b) PROVE IInv'
<1>1. /\ Disjoint(dl) /\ OwnersHaveState /\ OnlyMissingWanted
      /\ \A q \in Peers : dl.nBlocksInFlight[q] <= MaxInTransit
  BY DownloadFacts
<1>2. UNCHANGED <<conn, sending, index, orphans, submitted>>
  BY DEF Inv
<1>3. PICK d : d = Processed(dl, p)
  OBVIOUS
<1>4. /\ d \in DownloadType /\ QueueMatches(d) /\ FlightMatches(d) /\ OldestFirst(d)
      /\ d.mapBlocksToDownload = dl.mapBlocksToDownload
      /\ d.mapBlocksInFlight = dl.mapBlocksInFlight
      /\ d.nBlocksInFlight = dl.nBlocksInFlight
      /\ HasState(p)
  BY <1>3, MessageFacts DEF Inv
<1>5. peer' \in [Peers -> [nMisbehavior : 0 .. BanScore, fShouldBan : BOOLEAN]]
  BY DownloadFacts, MisbehavingType DEF Inv
<1>6. CASE b \notin Have /\ Wanted(b)
  <2>1. dl' = AddBlockToQueue(d, p, b)
    BY <1>3, <1>6 DEF Inv
  <2>2. d.mapBlocksToDownload[b] = NoNode /\ d.mapBlocksInFlight[b] = NoNode
    BY <1>4, <1>6 DEF Wanted
  <2>3. /\ dl' \in DownloadType /\ QueueMatches(dl') /\ SameFlight(d, dl')
        /\ dl'.mapBlocksToDownload = [d.mapBlocksToDownload EXCEPT ![b] = p]
    BY <1>4, <2>1, <2>2, AddedMatches
  <2>4. FlightMatches(dl') /\ OldestFirst(dl')
    BY <1>4, <2>3, SameFlightMatches
  <2>5. /\ \A c \in Blocks : dl'.mapBlocksToDownload[c]
              = IF c = b THEN p ELSE dl.mapBlocksToDownload[c]
        /\ dl'.mapBlocksInFlight = dl.mapBlocksInFlight
        /\ dl'.nBlocksInFlight = dl.nBlocksInFlight
    BY <1>4, <2>3 DEF SameFlight, DownloadType
  <2>6. QueueMatches(dl)' /\ FlightMatches(dl)' /\ OldestFirst(dl)'
    BY <2>3, <2>4 DEF QueueMatches, FlightMatches, OldestFirst, InQueue, InFlight
  <2>7. Disjoint(dl)'
    BY <1>1, <1>4, <2>2, <2>5 DEF Disjoint
  <2>8. OwnersHaveState'
    BY <1>1, <1>2, <1>4, <2>5 DEF OwnersHaveState, HasState
  <2>9. OnlyMissingWanted'
    <3>1. Have' = Have /\ submitted' = submitted /\ Have \subseteq Blocks
      BY <1>2, DownloadFacts DEF Have
    <3>2. QED
      BY <3>1, <1>1, <1>6, <2>5 DEF OnlyMissingWanted, Wanted
  <2>10. QED
    BY <1>1, <1>2, <1>5, <2>3, <2>5, <2>6, <2>7, <2>8, <2>9, DownloadFacts, ChangedDownloads
<1>7. CASE ~(b \notin Have /\ Wanted(b))
  <2>1. dl' = d
    BY <1>3, <1>7 DEF Inv
  <2>2. QueueMatches(dl)' /\ FlightMatches(dl)' /\ OldestFirst(dl)'
    BY <1>4, <2>1 DEF QueueMatches, FlightMatches, OldestFirst, InQueue, InFlight
  <2>3. Disjoint(dl)' /\ OwnersHaveState' /\ OnlyMissingWanted'
    BY <1>1, <1>2, <1>4, <2>1
       DEF Disjoint, OwnersHaveState, HasState, OnlyMissingWanted, Wanted, Have
  <2>4. QED
    BY <1>1, <1>2, <1>4, <1>5, <2>1, <2>2, <2>3, DownloadFacts, ChangedDownloads
<1>8. QED
  BY <1>6, <1>7

(* A block that arrives is wanted by nobody any more, and the ones it makes *)
(* known were known already.                                                *)
LEMMA BlockStep == ASSUME IInv, NEW p \in Peers, NEW b \in Blocks, Block(p, b) PROVE IInv'
<1>1. /\ Disjoint(dl) /\ OwnersHaveState /\ OnlyMissingWanted
      /\ \A q \in Peers : dl.nBlocksInFlight[q] <= MaxInTransit
      /\ index \subseteq Blocks /\ orphans \subseteq Blocks
  BY DownloadFacts
<1>2. UNCHANGED <<conn, sending, peer, submitted>>
  BY DEF Block
<1>3. PICK d : d = Processed(dl, p)
  OBVIOUS
<1>4. /\ d \in DownloadType /\ QueueMatches(d) /\ FlightMatches(d) /\ OldestFirst(d)
      /\ d.mapBlocksToDownload = dl.mapBlocksToDownload
      /\ d.mapBlocksInFlight = dl.mapBlocksInFlight
      /\ d.nBlocksInFlight = dl.nBlocksInFlight
  BY <1>3, MessageFacts DEF Block
<1>5. dl' = MarkBlockAsReceived(d, b, p)
  BY <1>3 DEF Block
<1>6. /\ dl' \in DownloadType /\ QueueMatches(dl') /\ FlightMatches(dl') /\ OldestFirst(dl')
      /\ dl'.mapBlocksToDownload = [d.mapBlocksToDownload EXCEPT ![b] = NoNode]
      /\ dl'.mapBlocksInFlight = [d.mapBlocksInFlight EXCEPT ![b] = NoNode]
      /\ \A q \in Peers : dl'.nBlocksInFlight[q] <= d.nBlocksInFlight[q]
  BY <1>4, <1>5, ReceivedMatches
<1>7. /\ \A c \in Blocks : dl'.mapBlocksToDownload[c]
            = IF c = b THEN NoNode ELSE dl.mapBlocksToDownload[c]
      /\ \A c \in Blocks : dl'.mapBlocksInFlight[c]
            = IF c = b THEN NoNode ELSE dl.mapBlocksInFlight[c]
  BY <1>4, <1>6 DEF DownloadType
<1>8. \A q \in Peers : dl'.nBlocksInFlight[q] <= MaxInTransit
  <2> TAKE q \in Peers
  <2>1. /\ dl'.nBlocksInFlight[q] \in Int /\ dl.nBlocksInFlight[q] \in Int
        /\ MaxInTransit \in Int
    BY <1>4, <1>6, FieldTypes, DownloadAssumption
  <2>2. QED
    BY <2>1, <1>1, <1>4, <1>6
<1>9. QueueMatches(dl)' /\ FlightMatches(dl)' /\ OldestFirst(dl)'
  BY <1>6 DEF QueueMatches, FlightMatches, OldestFirst, InQueue, InFlight
<1>10. index' \subseteq Blocks /\ orphans' \subseteq Blocks /\ Have' \subseteq Have \cup {b}
  <2>1. CASE Accept(b)
    BY <2>1, <1>1 DEF Accept, Have
  <2>2. CASE KeepOrphan(b)
    BY <2>2, <1>1 DEF KeepOrphan, Have
  <2>3. CASE UNCHANGED <<index, orphans>>
    BY <2>3, <1>1 DEF Have
  <2>4. QED
    BY <2>1, <2>2, <2>3 DEF Block
<1>11. Disjoint(dl)' /\ OwnersHaveState'
  BY <1>1, <1>2, <1>7 DEF Disjoint, OwnersHaveState, HasState
<1>12. OnlyMissingWanted'
  <2>1. Have \subseteq Blocks
    BY DownloadFacts
  <2>2. QED
    BY <2>1, <1>1, <1>2, <1>7, <1>10 DEF OnlyMissingWanted, Wanted
<1>13. QED
  BY <1>2, <1>6, <1>8, <1>9, <1>10, <1>11, <1>12, DownloadFacts, ChangedDownloads

(* A block of the node's own is the only one that may be wanted although it *)
(* is there.                                                                *)
LEMMA SubmitStep == ASSUME IInv, NEW b \in Blocks, Submit(b) PROVE IInv'
<1>1. UNCHANGED <<conn, sending, dl, peer>> /\ submitted' = submitted \cup {b}
  BY DEF Submit
<1>2. index \subseteq Blocks /\ orphans \subseteq Blocks /\ submitted \subseteq Blocks
  BY DownloadFacts
<1>3. index' \subseteq Blocks /\ orphans' \subseteq Blocks /\ Have' \subseteq Have \cup {b}
  BY <1>2 DEF Submit, Accept, Have
<1>4. Have' \ submitted' \subseteq Have \ submitted
  BY <1>1, <1>3
<1>5. QED
  BY <1>1, <1>2, <1>3, <1>4, DownloadFacts, UntouchedDownloads DEF HasState

LEMMA ConnectStep == ASSUME IInv, NEW p \in Peers, Connect(p) PROVE IInv'
<1>1. UNCHANGED <<sending, dl, peer, index, orphans, submitted>>
  BY DEF Connect
<1>2. conn' \in [Peers -> Connections] /\ \A q \in Peers : HasState(q) => HasState(q)'
  BY DownloadFacts DEF Connect, Connections, HasState
<1>3. QED
  BY <1>1, <1>2, DownloadFacts, UntouchedDownloads DEF Have

LEMMA SocketGoneStep == ASSUME IInv, NEW p \in Peers, SocketGone(p) PROVE IInv'
<1>1. UNCHANGED <<sending, dl, peer, index, orphans, submitted>>
  BY DEF SocketGone
<1>2. conn' \in [Peers -> Connections] /\ \A q \in Peers : HasState(q) => HasState(q)'
  BY DownloadFacts DEF SocketGone, Connections, HasState
<1>3. QED
  BY <1>1, <1>2, DownloadFacts, UntouchedDownloads DEF Have

LEMMA SentStep == ASSUME IInv, NEW p \in Peers, Sent(p) PROVE IInv'
BY DownloadFacts, UntouchedDownloads DEF Sent, HasState, Have

LEMMA SendMessagesStep == ASSUME IInv, NEW p \in Peers, SendMessages(p) PROVE IInv'
<1>1. UNCHANGED <<dl, index, orphans, submitted>>
  BY DEF SendMessages
<1>2. PICK to : /\ conn' = [conn EXCEPT ![p] = to]
                /\ to \in {"disconnecting", conn[p]}
  BY DEF SendMessages
<1>3. conn \in [Peers -> Connections] /\ conn[p] \in {"connected", "disconnecting"}
  BY DownloadFacts DEF SendMessages, HasState
<1>4. conn' \in [Peers -> Connections] /\ \A q \in Peers : HasState(q) => HasState(q)'
  BY <1>2, <1>3 DEF Connections, HasState
<1>5. peer' \in [Peers -> [nMisbehavior : 0 .. BanScore, fShouldBan : BOOLEAN]]
  BY DownloadFacts DEF SendMessages
<1>6. sending' \in Peers \cup {NoNode}
  BY DEF SendMessages
<1>7. QED
  BY <1>1, <1>4, <1>5, <1>6, DownloadFacts, UntouchedDownloads DEF Have

(* The block at the head of the queue of p is missing, since it is queued.  *)
LEMMA RequestStep == ASSUME IInv, NEW p \in Peers, Request(p) PROVE IInv'
<1>1. /\ dl \in DownloadType /\ QueueMatches(dl) /\ FlightMatches(dl) /\ OldestFirst(dl)
      /\ Disjoint(dl) /\ OwnersHaveState /\ OnlyMissingWanted /\ Have \subseteq Blocks
      /\ \A q \in Peers : dl.nBlocksInFlight[q] <= MaxInTransit
  BY DownloadFacts
<1>2. UNCHANGED <<conn, peer, index, orphans, submitted>>
      /\ sending' \in Peers \cup {NoNode} /\ HasState(p)
  BY DEF Request, More, HasState
<1>3. PICK queue \in Seq(Blocks) : queue = dl.vBlocksToDownload[p]
  BY <1>1, FieldTypes
<1>4. Len(queue) # 0 /\ Room(dl, p)
  BY <1>1, <1>3 DEF Request, More, QueueMatches
<1>5. PICK b : b = Head(queue)
  OBVIOUS
<1>6. 1 \in DOMAIN queue /\ queue[1] = b /\ b \in Blocks
  BY <1>4, <1>5
<1>7. dl.mapBlocksToDownload[b] = p
  BY <1>1, <1>3, <1>6 DEF QueueMatches, InQueue
<1>8. b \notin Have \ submitted
  BY <1>1, <1>7, DownloadAssumption DEF OnlyMissingWanted, Wanted
<1>9. dl' = MarkBlockAsInFlight(dl, p, b)
  BY <1>3, <1>5 DEF Request
<1>10. /\ dl' \in DownloadType /\ QueueMatches(dl') /\ FlightMatches(dl') /\ OldestFirst(dl')
       /\ Room(dl, p) /\ (\A q \in Peers : dl.nBlocksInFlight[q] <= MaxInTransit)
          => \A q \in Peers : dl'.nBlocksInFlight[q] <= MaxInTransit
  BY <1>1, <1>6, <1>9, RequestedMatches
<1>11. /\ \A c \in Blocks : dl'.mapBlocksToDownload[c]
             = IF c = b THEN NoNode ELSE dl.mapBlocksToDownload[c]
       /\ \A c \in Blocks : dl'.mapBlocksInFlight[c]
             = IF c = b THEN p ELSE dl.mapBlocksInFlight[c]
  BY <1>1, <1>6, <1>9, RequestedMatches
<1>12. \A q \in Peers : dl'.nBlocksInFlight[q] <= MaxInTransit
  BY <1>1, <1>4, <1>10
<1>13. QueueMatches(dl)' /\ FlightMatches(dl)' /\ OldestFirst(dl)'
  BY <1>10 DEF QueueMatches, FlightMatches, OldestFirst, InQueue, InFlight
<1>14. Disjoint(dl)' /\ OwnersHaveState'
  BY <1>1, <1>2, <1>11 DEF Disjoint, OwnersHaveState, HasState
<1>15. OnlyMissingWanted'
  <2>1. Have' = Have /\ submitted' = submitted
    BY <1>2 DEF Have
  <2>2. QED
    BY <2>1, <1>1, <1>8, <1>11 DEF OnlyMissingWanted, Wanted
<1>16. QED
  BY <1>2, <1>10, <1>12, <1>13, <1>14, <1>15, DownloadFacts, ChangedDownloads

(* Whatever the maps had for p is free again, and p has nothing left that   *)
(* an iterator could name.                                                  *)
LEMMA FinalizeStep == ASSUME IInv, NEW p \in Peers, FinalizeNode(p) PROVE IInv'
<1>1. /\ dl \in DownloadType /\ QueueMatches(dl) /\ FlightMatches(dl) /\ OldestFirst(dl)
      /\ Disjoint(dl) /\ OwnersHaveState /\ OnlyMissingWanted /\ Have \subseteq Blocks
      /\ conn \in [Peers -> Connections]
      /\ \A q \in Peers : dl.nBlocksInFlight[q] <= MaxInTransit
  BY DownloadFacts
<1>2. UNCHANGED <<sending, peer, index, orphans, submitted>>
      /\ conn' = [conn EXCEPT ![p] = "gone"] /\ dl' = Erased(Forgotten(dl, p), p)
  BY DEF FinalizeNode
<1>3. /\ dl' \in DownloadType /\ QueueMatches(dl') /\ FlightMatches(dl') /\ OldestFirst(dl')
      /\ \A c \in Blocks : dl'.mapBlocksToDownload[c]
            = IF dl.mapBlocksToDownload[c] = p THEN NoNode ELSE dl.mapBlocksToDownload[c]
      /\ \A c \in Blocks : dl'.mapBlocksInFlight[c]
            = IF dl.mapBlocksInFlight[c] = p THEN NoNode ELSE dl.mapBlocksInFlight[c]
      /\ \A q \in Peers : dl'.nBlocksInFlight[q] <= dl.nBlocksInFlight[q]
  BY <1>1, <1>2, FinalizedMatches
<1>4. \A q \in Peers : dl'.nBlocksInFlight[q] <= MaxInTransit
  <2> TAKE q \in Peers
  <2>1. /\ dl'.nBlocksInFlight[q] \in Int /\ dl.nBlocksInFlight[q] \in Int
        /\ MaxInTransit \in Int
    BY <1>1, <1>3, FieldTypes, DownloadAssumption
  <2>2. QED
    BY <2>1, <1>1, <1>3
<1>5. QueueMatches(dl)' /\ FlightMatches(dl)' /\ OldestFirst(dl)'
  BY <1>3 DEF QueueMatches, FlightMatches, OldestFirst, InQueue, InFlight
<1>6. conn' \in [Peers -> Connections]
      /\ \A q \in Peers \ {p} : HasState(q) => HasState(q)'
  BY <1>1, <1>2 DEF Connections, HasState
<1>7. Disjoint(dl)'
  BY <1>1, <1>3 DEF Disjoint
<1>8. OwnersHaveState'
  <2>1. {q \in Peers : HasState(q)} \ {p} \subseteq {q \in Peers : HasState(q)'}
    BY <1>6
  <2>2. ASSUME NEW c \in Blocks
        PROVE  {dl'.mapBlocksToDownload[c], dl'.mapBlocksInFlight[c]}
                  \subseteq {NoNode} \cup {q \in Peers : HasState(q)'}
    <3>1. {dl.mapBlocksToDownload[c], dl.mapBlocksInFlight[c]}
             \subseteq {NoNode} \cup {q \in Peers : HasState(q)}
      BY <1>1 DEF OwnersHaveState
    <3>2. {dl'.mapBlocksToDownload[c], dl'.mapBlocksInFlight[c]}
             \subseteq {NoNode} \cup ({q \in Peers : HasState(q)} \ {p})
      <4> HIDE DEF HasState
      <4>1. QED
        BY <3>1, <1>3
    <3>3. QED
      BY <2>1, <3>2
  <2>3. QED
    BY <2>2 DEF OwnersHaveState
<1>9. OnlyMissingWanted'
  <2>1. Have' = Have /\ submitted' = submitted
    BY <1>2 DEF Have
  <2>2. QED
    BY <2>1, <1>1, <1>3 DEF OnlyMissingWanted, Wanted
<1>10. QED
  BY <1>2, <1>3, <1>4, <1>5, <1>6, <1>7, <1>8, <1>9, DownloadFacts, ChangedDownloads

LEMMA NextIInv == IInv /\ [Next]_vars => IInv'
<1> SUFFICES ASSUME IInv, [Next]_vars PROVE IInv'
  OBVIOUS
<1>1. CASE Tick
  BY <1>1, TickStep
<1>2. CASE \E b \in Blocks : Submit(b)
  BY <1>2, SubmitStep
<1>3. ASSUME NEW p \in Peers, NetworkStep(p) PROVE IInv'
  BY <1>3, ConnectStep, SocketGoneStep, OtherStep, InvStep, BlockStep DEF NetworkStep
<1>4. ASSUME NEW p \in Peers, SendStep(p) PROVE IInv'
  BY <1>4, SendMessagesStep, RequestStep, SentStep DEF SendStep
<1>5. ASSUME NEW p \in Peers, FinalizeNode(p) PROVE IInv'
  BY <1>5, FinalizeStep
<1>6. CASE UNCHANGED vars
  BY <1>6, DownloadFacts, UntouchedDownloads DEF vars, HasState, Have
<1>7. QED
  BY <1>1, <1>2, <1>3, <1>4, <1>5, <1>6 DEF Next

(* The inductive invariant holds in every reachable state.                  *)
THEOREM InvariantHolds == Spec => []IInv
<1>1. QED
  BY InitIInv, NextIInv, PTL DEF Spec

(* Every variable has its type, and no peer is asked for more than          *)
(* MAX_BLOCKS_IN_TRANSIT_PER_PEER blocks at a time.                         *)
THEOREM TypeCorrect == Spec => []TypeOK
<1>1. ASSUME IInv PROVE TypeOK
  <2>1. \A p \in Peers : dl.vBlocksInFlight[p] \in Seq(QueuedBlock)
    BY <1>1 DEF IInv, Typed, DownloadType
  <2>2. \A p \in Peers : dl.nBlocksInFlight[p] \in 0 .. MaxInTransit
    <3> TAKE p \in Peers
    <3>1. dl.nBlocksInFlight[p] = Len(dl.vBlocksInFlight[p])
      BY <1>1 DEF IInv, ListsMatchMaps, FlightMatches
    <3>2. Len(dl.vBlocksInFlight[p]) \in Nat
      BY <2>1
    <3>3. MaxInTransit \in Int /\ dl.nBlocksInFlight[p] <= MaxInTransit
      BY <1>1, DownloadAssumption DEF IInv, Typed
    <3>4. QED
      BY <3>1, <3>2, <3>3
  <2>3. QED
    BY <1>1, <2>2 DEF IInv, Typed, TypeOK
<1>2. QED
  BY <1>1, InvariantHolds, PTL

(* No iterator of mapBlocksToDownload or mapBlocksInFlight dangles and no   *)
(* counter is off, for any number of peers and blocks.                      *)
THEOREM MapsMatchLists == Spec => []ListsMatchMaps
<1>1. IInv => ListsMatchMaps
  BY DEF IInv
<1>2. QED
  BY <1>1, InvariantHolds, PTL

(* A block that is there is not waited for, unless the node made it.        *)
THEOREM OnlyMissingAreWanted == Spec => []OnlyMissingWanted
<1>1. IInv => OnlyMissingWanted
  BY DEF IInv
<1>2. QED
  BY <1>1, InvariantHolds, PTL

(* The detection of stalled peers looks at the oldest request of a peer.    *)
THEOREM FrontAlwaysOldest == Spec => []FrontIsOldest
<1>1. IInv => FrontIsOldest
  <2> SUFFICES ASSUME IInv, NEW p \in Peers, NEW i \in DOMAIN dl.vBlocksInFlight[p]
               PROVE  dl.vBlocksInFlight[p][i].age <= Head(dl.vBlocksInFlight[p]).age
    BY DEF FrontIsOldest
  <2>1. PICK list \in Seq(QueuedBlock) : list = dl.vBlocksInFlight[p]
    BY DownloadFacts, FieldTypes
  <2>2. \A j, k \in DOMAIN list : j < k => list[k].age <= list[j].age
    BY <2>1, DownloadFacts DEF OldestFirst
  <2>3. i \in 1 .. Len(list) /\ Len(list) \in Nat
    BY <2>1, LenProperties
  <2>4. list[i].age \in Int
    <3>1. list[i] \in QueuedBlock
      BY <2>3, ElementOfSeq
    <3>2. Timeout \in Nat
      BY DownloadAssumption
    <3>3. QED
      BY <3>1, <3>2 DEF QueuedBlock, RequestAges
  <2>5. Head(list) = list[1] /\ 1 \in DOMAIN list
    BY <2>3
  <2>6. list[i].age <= list[1].age
    BY <2>1, <2>2, <2>3, <2>4, <2>5
  <2>7. QED
    BY <2>1, <2>5, <2>6
<1>2. QED
  BY <1>1, InvariantHolds, PTL

=============================================================================
