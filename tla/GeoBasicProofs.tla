---------------------------- MODULE GeoBasicProofs ----------------------------
(***************************************************************************)
(* What GeoBasic guarantees in every network, for any number of hosts,     *)
(* packets and beacons, whatever the radio loses.                          *)
(*                                                                         *)
(* The lemmas about the packets take the next hop as a parameter and ask   *)
(* of it only that it be closer: they serve every layer that forwards as   *)
(* GeoBasic does, however it chooses the next hop.                         *)
(***************************************************************************)
EXTENDS GeoBasic, GeoNeighborsProofs

USE GeoNeighborsAssumption, GeoBasicAssumption

\* What findNextNode promises: the host itself, or a strictly closer one.
CloserNext(n, p, next) == next # n => DistToDest[p][next] < DistToDest[p][n]

\* The copies of a broadcast are copies to hosts in range.
LEMMA CopiesType ==
    ASSUME NEW n \in Node, NEW p \in Packet, NEW next \in Node,
           NEW route \in Seq(Node), NEW length \in Nat, NEW heard \in Reach(n)
    PROVE  /\ Copies(n, p, next, route, length, heard) \subseteq Copy
           /\ heard \subseteq InRange[n]
<1>1. heard \subseteq InRange[n]
  BY DEF Reach
<1>2. \A m \in heard : [packet |-> p, interNode |-> next, route |-> route,
                        length |-> length, from |-> n, to |-> m] \in Copy
  BY <1>1 DEF Copy
<1>3. Copies(n, p, next, route, length, heard) \subseteq Copy
  BY <1>2 DEF Copies
<1> QED
  BY <1>1, <1>3

LEMMA CopyFields ==
    ASSUME NEW n \in Node, NEW p, NEW next, NEW route, NEW length,
           NEW heard \in Reach(n),
           NEW c \in Copies(n, p, next, route, length, heard)
    PROVE  /\ c.packet = p /\ c.interNode = next /\ c.from = n
           /\ c.to \in InRange[n] /\ c.to # n
           /\ c = [packet |-> p, interNode |-> next, route |-> route,
                  length |-> length, from |-> n, to |-> c.to]
<1>1. PICK m \in heard : c = [packet |-> p, interNode |-> next, route |-> route,
                             length |-> length, from |-> n, to |-> m]
  BY DEF Copies
<1>2. m \in InRange[n]
  BY DEF Reach
<1> QED BY <1>1, <1>2

\* A decreasing trail stays so when a host closer than its last one is added.
LEMMA AppendApproaching ==
    ASSUME NEW p \in Packet, NEW t \in Seq(Node), NEW n \in Node,
           Len(t) # 0, Approaching(p, t),
           DistToDest[p][n] < DistToDest[p][t[Len(t)]]
    PROVE  Approaching(p, Append(t, n))
<1> DEFINE l == Len(t)
           u == Append(t, n)
<1>1. /\ l \in Nat \ {0} /\ l \in 1..l
      /\ Len(u) = l + 1 /\ u[l + 1] = n
      /\ \A k \in 1..l : t[k] \in Node /\ u[k] = t[k]
  <2>1. l \in Nat \ {0} /\ l \in 1..l
    BY AppendEntries
  <2> QED BY <2>1, AppendEntries
<1>2. DistToDest[p][n] < DistToDest[p][t[l]]
  OBVIOUS
<1> HIDE DEF l, u
<1>3. ASSUME NEW k \in 1..l
      PROVE  DistToDest[p][n] < DistToDest[p][t[k]]
  <2>1. /\ DistToDest[p][n] \in Nat /\ DistToDest[p][t[k]] \in Nat
        /\ DistToDest[p][t[l]] \in Nat
    <3>1. \A m \in Node : DistToDest[p][m] \in Nat
      OBVIOUS
    <3>2. t[k] \in Node /\ t[l] \in Node
      BY <1>1
    <3> QED BY ONLY <3>1, <3>2, n \in Node
  <2>2. CASE k = l
    BY <1>2, <2>2
  <2>3. CASE k < l
    <3>1. DistToDest[p][t[l]] < DistToDest[p][t[k]]
      BY <1>1, <2>3 DEF Approaching, l
    <3>2. \A x, y, z \in Nat : x < y /\ y < z => x < z
      OBVIOUS
    <3> QED BY ONLY <1>2, <2>1, <3>1, <3>2
  <2> QED BY <1>1, <2>2, <2>3
<1>4. ASSUME NEW i \in 1..l + 1, NEW j \in 1..l + 1, i < j
      PROVE  DistToDest[p][u[j]] < DistToDest[p][u[i]]
  <2>1. i \in 1..l /\ (j \in 1..l \/ j = l + 1)
    <3>1. l \in Nat
      BY <1>1
    <3> QED BY ONLY <1>4, <3>1, i \in 1..l + 1, j \in 1..l + 1
  <2>2. CASE j \in 1..l
    BY <1>1, <1>4, <2>1, <2>2 DEF Approaching, l
  <2>3. CASE j = l + 1
    BY <1>1, <1>3, <2>1, <2>3
  <2> QED BY <2>1, <2>2, <2>3
<1> QED BY <1>1, <1>4 DEF Approaching, u

-----------------------------------------------------------------------------
\* The two handlers that transmit a GreedyPkt keep the types of the packets.
LEMMA TypeSendFirst ==
    ASSUME PktTypeOK, NEW p \in Packet, NEW next \in Node, SendFirst(p, next),
           pending' \subseteq pending, outcome' = outcome
    PROVE  PktTypeOK'
<1> DEFINE n == Origin[p]
<1>1. /\ n \in Node /\ Dist[n][next] \in Nat /\ <<n>> \in Seq(Node)
      /\ air \subseteq Copy /\ trail \in [Packet -> Seq(Node)]
  BY DEF PktTypeOK
<1>2. PICK heard \in Reach(n) :
        air' = air \cup Copies(n, p, next, <<n>>, Dist[n][next], heard)
  BY DEF SendFirst
<1>3. trail' = [trail EXCEPT ![p] = <<n>>]
  BY DEF SendFirst
<1> HIDE DEF n
<1>4. Copies(n, p, next, <<n>>, Dist[n][next], heard) \subseteq Copy
  BY <1>1, CopiesType
<1>5. air' \subseteq Copy /\ trail' \in [Packet -> Seq(Node)]
  BY <1>1, <1>2, <1>3, <1>4
<1> QED BY <1>5 DEF PktTypeOK

LEMMA TypeReceive ==
    ASSUME PktTypeOK, NEW c \in air, NEW next \in Node, Receive(c, next)
    PROVE  PktTypeOK'
<1>1. /\ c.to \in Node /\ c.packet \in Packet /\ c.route \in Seq(Node)
      /\ c.length \in Nat
      /\ air \subseteq Copy /\ trail \in [Packet -> Seq(Node)]
      /\ outcome \in {Running} \cup Arrived \cup Stuck
  BY DEF PktTypeOK, Copy
<1> DEFINE Good == /\ air' \subseteq Copy
                   /\ trail' \in [Packet -> Seq(Node)]
                   /\ outcome' \in {Running} \cup Arrived \cup Stuck
<1>2. Good
  <2>1. CASE Discard(c)
    BY <1>1, <2>1 DEF Discard, Consumed
  <2>2. CASE Arrive(c)
    BY <1>1, <2>2 DEF Arrive, Arrived, Consumed
  <2>3. CASE GiveUp(c, next)
    BY <1>1, <2>3 DEF GiveUp, Stuck, Consumed
  <2>4. CASE Forward(c, next)
    <3> DEFINE n == c.to
               route == Append(c.route, n)
               length == c.length + Dist[n][next]
    <3>1. length \in Nat
      <4>1. Dist[n][next] \in Nat
        BY <1>1
      <4>2. c.length \in Nat
        BY <1>1
      <4> QED BY <4>1, <4>2
    <3>2. PICK heard \in Reach(n) :
            air' = (air \ {c}) \cup Copies(n, c.packet, next, route, length, heard)
      BY <2>4 DEF Forward, Consumed, LongerRoute, LongerLength
    <3>3. trail' \in [Packet -> Seq(Node)] /\ outcome' = outcome
      BY <1>1, <2>4 DEF Forward
    <3>4. n \in Node /\ route \in Seq(Node)
      BY <1>1
    <3> HIDE DEF n, route, length
    <3>5. Copies(n, c.packet, next, route, length, heard) \subseteq Copy
      BY <1>1, <3>1, <3>4, CopiesType
    <3> QED BY <1>1, <3>2, <3>3, <3>5
  <2> QED BY <2>1, <2>2, <2>3, <2>4 DEF Receive
<1> QED BY <1>1, <1>2 DEF PktTypeOK, Receive

LEMMA PktTypeStutter == PktTypeOK /\ UNCHANGED pktVars => PktTypeOK'
BY DEF pktVars, PktTypeOK

\* The next hops of GeoBasic.
LEMMA NextHopCloser ==
    ASSUME NbTypeOK, NEW n \in Node, NEW p \in Packet
    PROVE  FindNextNode(n, p) \in Node /\ CloserNext(n, p, FindNextNode(n, p))
<1>1. nbTable[n] \in Seq(Node)
  BY DEF NbTypeOK
<1> QED BY <1>1, FindNextNodeType DEF CloserNext

-----------------------------------------------------------------------------
TypeInv == NbTypeInv /\ PktTypeOK

LEMMA TypeInit == Init => TypeInv
BY NbTypeInit DEF Init, TypeInv, PktTypeOK, Running

LEMMA TypeStep == TypeInv /\ [Next]_vars => TypeInv'
<1> SUFFICES ASSUME TypeInv, [Next]_vars PROVE TypeInv'
  OBVIOUS
<1>0. NbTypeInv /\ PktTypeOK /\ NbTypeOK
  BY DEF TypeInv, NbTypeInv
<1>1. ASSUME NEW n \in Node, HandleSelfMsg(n), UNCHANGED pktVars
      PROVE  TypeInv'
  BY <1>0, <1>1, NbTypeSend, PktTypeStutter DEF TypeInv
<1>2. ASSUME NEW n \in Node, NEW m \in Node, HandleNbBroadcast(n, m),
             UNCHANGED pktVars
      PROVE  TypeInv'
  BY <1>0, <1>2, NbTypeHear, PktTypeStutter DEF TypeInv
<1>3. ASSUME NEW p \in Packet, HandleUpperMsg(p)
      PROVE  TypeInv'
  <2>1. NbTypeInv'
    BY <1>0, <1>3, NbTypeStutter DEF HandleUpperMsg
  <2>2. PktTypeOK'
    <3>1. pending' \subseteq pending /\ outcome' = outcome
      BY <1>3 DEF HandleUpperMsg
    <3>2. FindNextNode(Origin[p], p) \in Node
      BY <1>0, NextHopCloser
    <3>3. CASE Origin[p] \in SourceNodes
      BY <1>0, <1>3, <3>1, <3>2, <3>3, TypeSendFirst DEF HandleUpperMsg
    <3>4. CASE Origin[p] \notin SourceNodes
      BY <1>0, <1>3, <3>1, <3>4 DEF HandleUpperMsg, PktTypeOK
    <3> QED BY <3>3, <3>4
  <2> QED BY <2>1, <2>2 DEF TypeInv
<1>4. ASSUME NEW c \in air, HandleGreedyPkt(c)
      PROVE  TypeInv'
  <2>1. c.to \in Node /\ c.packet \in Packet
    BY <1>0 DEF PktTypeOK, Copy
  <2>2. FindNextNode(c.to, c.packet) \in Node
    BY <1>0, <2>1, NextHopCloser
  <2>3. PktTypeOK'
    BY <1>0, <1>4, <2>2, TypeReceive DEF HandleGreedyPkt
  <2> QED BY <1>0, <1>4, <2>3, NbTypeStutter DEF HandleGreedyPkt, TypeInv
<1>5. CASE UNCHANGED vars
  BY <1>0, <1>5, NbTypeStutter, PktTypeStutter DEF vars, TypeInv
<1> QED BY <1>1, <1>2, <1>3, <1>4, <1>5 DEF Next

(***************************************************************************)
(* Type correctness; with it, no host ever sends more than                 *)
(* NbUpdateLimit + 1 beacons (handleSelfMsg).                              *)
(***************************************************************************)
THEOREM TypeCorrect == Spec => []TypeOK
<1>1. TypeInv => TypeOK
  BY DEF TypeInv, TypeOK, NbTypeInv
<1> QED BY <1>1, TypeInit, TypeStep, PTL DEF Spec

(***************************************************************************)
(* A table has no host twice and only hosts that have really been heard    *)
(* (updateNbTable), however beacons are lost, delayed and repeated.        *)
(***************************************************************************)
THEOREM Tables == Spec => []TableFromBeacons
<1>1. Init => NbTableInv
  BY NbTableInit DEF Init
<1>2. TypeOK /\ NbTableInv /\ [Next]_vars => NbTableInv'
  <2> SUFFICES ASSUME TypeOK, NbTableInv, [Next]_vars PROVE NbTableInv'
    OBVIOUS
  <2>1. CASE UNCHANGED nbVars
    BY <2>1, NbTableStutter
  <2>2. ASSUME NEW n \in Node, HandleSelfMsg(n) PROVE NbTableInv'
    BY <2>2, NbTableSend DEF TypeOK
  <2>3. ASSUME NEW n \in Node, NEW m \in Node, HandleNbBroadcast(n, m)
        PROVE  NbTableInv'
    BY <2>3, NbTableHear DEF TypeOK
  <2> QED BY <2>1, <2>2, <2>3 DEF Next, HandleUpperMsg, HandleGreedyPkt, vars
<1>3. TypeOK /\ NbTableInv => TableFromBeacons
  BY NbTableSound DEF TypeOK
<1> QED BY <1>1, <1>2, <1>3, TypeCorrect, PTL DEF Spec

(***************************************************************************)
(* While packets travel, beacons move a next hop only to a strictly closer *)
(* host (findNextNode keeps the first heard of equals, and tables only     *)
(* grow at their end).                                                     *)
(***************************************************************************)
THEOREM NextHops == Spec => NextHopImproves
<1>1. TypeOK /\ [Next]_vars =>
        [\A n \in Node, p \in Packet :
          LET old == FindNextNode(n, p)
              new == FindNextNode(n, p)'
          IN  new # old => DistToDest[p][new] < DistToDest[p][old]]_nbVars
  <2> SUFFICES ASSUME TypeOK, [Next]_vars, NEW n \in Node, NEW p \in Packet,
                      FindNextNode(n, p)' # FindNextNode(n, p)
               PROVE  DistToDest[p][FindNextNode(n, p)'] < DistToDest[p][FindNextNode(n, p)]
    OBVIOUS
  <2>1. nbTable' # nbTable
    BY FindNextIsChoice
  <2>2. PICK h \in Node, m \in Node : HandleNbBroadcast(h, m)
    BY <2>1 DEF Next, vars, nbVars, HandleSelfMsg, HandleUpperMsg, HandleGreedyPkt
  <2> QED BY <2>2, NextHopStep DEF TypeOK, NbTypeOK, HandleNbBroadcast
<1> QED BY <1>1, TypeCorrect, PTL DEF Spec, NextHopImproves

-----------------------------------------------------------------------------
(***************************************************************************)
(* PathInv is inductive with the types.  Only the two handlers that        *)
(* transmit a GreedyPkt lengthen a trail; the others take copies away.     *)
(***************************************************************************)
LEMMA PathInit == Init => PathInv
BY DEF Init, PathInv, HeardOnTrail, CustodyAtHolder, FreshPending,
       SingleCustody, LoopFree, Approaching, Custody

\* A copy taken away, a packet handed down and deleted.
LEMMA FewerCopies ==
    ASSUME PathInv, air' \subseteq air, trail' = trail, pending' \subseteq pending
    PROVE  PathInv'
<1>1. HeardOnTrail' /\ CustodyAtHolder'
  BY DEF PathInv, HeardOnTrail, CustodyAtHolder
<1>2. FreshPending' /\ LoopFree'
  BY DEF PathInv, FreshPending, LoopFree, Approaching
<1>3. SingleCustody'
  BY DEF PathInv, SingleCustody, Custody
<1> QED BY <1>1, <1>2, <1>3 DEF PathInv

\* A source sends: the packet has no copy and no trail before.
LEMMA PathSendFirst ==
    ASSUME PktTypeOK, PathInv, NEW p \in pending, pending' = pending \ {p},
           NEW next \in Node, CloserNext(Origin[p], p, next), SendFirst(p, next)
    PROVE  PathInv'
<1> DEFINE n == Origin[p]
           route == <<n>>
           length == Dist[n][next]
           new(h) == Copies(n, p, next, route, length, h)
<1>1. /\ n \in Node /\ p \in Packet
      /\ air \subseteq Copy /\ trail \in [Packet -> Seq(Node)]
      /\ pending \subseteq Packet
  BY DEF PktTypeOK
<1>2. next # n => DistToDest[p][next] < DistToDest[p][n]
  BY DEF CloserNext
<1>3. PICK h \in Reach(n) : air' = air \cup new(h)
  BY DEF SendFirst
<1>4. trail' = [trail EXCEPT ![p] = <<n>>]
  BY DEF SendFirst
<1>5. /\ trail'[p] = <<n>>
      /\ Len(trail'[p]) = 1 /\ trail'[p][1] = n
      /\ \A r \in Packet : r # p => trail'[r] = trail[r]
  BY <1>1, <1>4
<1>6. \A c \in air : c.packet \in Packet /\ c.packet # p
  <2>1. trail[p] = <<>>
    BY DEF PathInv, FreshPending
  <2>2. ASSUME NEW c \in air PROVE Len(trail[c.packet]) # 0
    <3>1. trail[c.packet] \in Seq(Node) /\ Len(trail[c.packet]) \in Nat
      BY <1>1, SeqEntries DEF Copy
    <3>2. \E i \in 1..Len(trail[c.packet]) : trail[c.packet][i] = c.from
      BY DEF PathInv, HeardOnTrail
    <3> QED BY <3>1, <3>2
  <2> QED BY <1>1, <2>1, <2>2 DEF Copy
<1>7. \A c \in new(h) :
        /\ c.packet = p /\ c.interNode = next /\ c.from = n
        /\ c.to \in InRange[n] /\ c.to # n
        /\ c = [packet |-> p, interNode |-> next, route |-> route,
                length |-> length, from |-> n, to |-> c.to]
  <2> HIDE DEF n, route, length
  <2> QED BY <1>1, CopyFields
<1> HIDE DEF n, route, length, new
<1>8. HeardOnTrail'
  <2>1. 1 \in 1..Len(trail'[p])
    BY <1>5
  <2>2. \A c \in new(h) : \E i \in 1..Len(trail'[c.packet]) :
                              trail'[c.packet][i] = c.from
    <3> SUFFICES ASSUME NEW c \in new(h)
                 PROVE  \E i \in 1..Len(trail'[c.packet]) :
                              trail'[c.packet][i] = c.from
      OBVIOUS
    <3>1. c.packet = p /\ c.from = n
      BY <1>7
    <3>2. 1 \in 1..Len(trail'[c.packet]) /\ trail'[c.packet][1] = c.from
      BY ONLY <1>5, <2>1, <3>1
    <3> QED BY ONLY <3>2
  <2>3. \A c \in air : trail'[c.packet] = trail[c.packet]
    BY <1>5, <1>6
  <2> QED BY <1>3, <1>7, <2>2, <2>3 DEF PathInv, HeardOnTrail
<1>9. CustodyAtHolder'
  <2>1. \A c \in air : trail'[c.packet] = trail[c.packet]
    BY <1>5, <1>6
  <2>2. \A c \in new(h) : c.interNode = c.to =>
          /\ c.from = trail'[c.packet][Len(trail'[c.packet])]
          /\ DistToDest[c.packet][c.to] < DistToDest[c.packet][c.from]
    BY <1>2, <1>5, <1>7
  <2> QED BY <1>3, <2>1, <2>2 DEF PathInv, CustodyAtHolder
<1>10. FreshPending'
  BY <1>1, <1>5 DEF PathInv, FreshPending
<1>11. SingleCustody'
  BY <1>3, <1>6, <1>7 DEF PathInv, SingleCustody, Custody
<1>12. LoopFree'
  <2>1. Approaching(p, trail'[p])
    BY <1>5 DEF Approaching
  <2> QED BY <1>5, <2>1 DEF PathInv, LoopFree, Approaching
<1> QED BY <1>8, <1>9, <1>10, <1>11, <1>12 DEF PathInv

(***************************************************************************)
(* A next hop forwards: it consumes the only copy that obliges anyone, and *)
(* it is closer than the last of the trail, hence than all of the trail.   *)
(***************************************************************************)
LEMMA PathForward ==
    ASSUME PktTypeOK, PathInv, NEW c \in air, NEW next \in Node,
           CloserNext(c.to, c.packet, next), Forward(c, next), pending' = pending
    PROVE  PathInv'
<1> DEFINE n == c.to
           p == c.packet
           route == Append(c.route, n)
           length == c.length + Dist[n][next]
           new(h) == Copies(n, p, next, route, length, h)
<1>1. /\ n \in Node /\ p \in Packet
      /\ c.from \in Node
      /\ air \subseteq Copy /\ trail \in [Packet -> Seq(Node)]
      /\ pending \subseteq Packet
  BY DEF PktTypeOK, Copy
<1>2. DistToDest[p][next] < DistToDest[p][n]
  BY DEF Forward, CloserNext
<1>3. PICK h \in Reach(n) : air' = (air \ {c}) \cup new(h)
  BY DEF Forward, Consumed, LongerRoute, LongerLength
<1>4. /\ trail'[p] = Append(trail[p], n)
      /\ \A r \in Packet : r # p => trail'[r] = trail[r]
  BY <1>1 DEF Forward
<1>5. /\ Len(trail[p]) \in Nat \ {0}
      /\ c.from = trail[p][Len(trail[p])]
      /\ DistToDest[p][n] < DistToDest[p][c.from]
  <2>1. \E i \in 1..Len(trail[p]) : trail[p][i] = c.from
    BY DEF PathInv, HeardOnTrail
  <2>2. Len(trail[p]) \in Nat \ {0}
    BY <1>1, <2>1
  <2>3. c.interNode = c.to
    BY DEF Forward, IsNextHop
  <2>4. /\ c.from = trail[p][Len(trail[p])]
        /\ DistToDest[p][n] < DistToDest[p][c.from]
    BY <2>3 DEF PathInv, CustodyAtHolder
  <2> QED BY <2>2, <2>4
<1>6. \A d \in new(h) :
        /\ d.packet = p /\ d.interNode = next /\ d.from = n
        /\ d.to \in InRange[n]
        /\ d = [packet |-> p, interNode |-> next, route |-> route,
                length |-> length, from |-> n, to |-> d.to]
  <2> HIDE DEF n, p, route, length
  <2> QED BY <1>1, CopyFields
<1>7. \A d \in air \ {c} : /\ d.packet \in Packet
                           /\ d.packet = p => d.interNode # d.to
  <2>1. c \in Custody(p)
    BY DEF Custody, Forward, IsNextHop
  <2> QED BY <1>1, <2>1 DEF PathInv, SingleCustody, Custody, Copy
<1>8. /\ Len(trail'[p]) = Len(trail[p]) + 1
      /\ trail'[p][Len(trail[p]) + 1] = n
      /\ \A i \in 1..Len(trail[p]) : trail'[p][i] = trail[p][i]
  <2>1. trail[p] \in Seq(Node)
    BY <1>1
  <2> HIDE DEF n, p
  <2> QED BY <1>1, <1>4, <2>1, AppendEntries
<1> HIDE DEF n, p, route, length, new
<1>9. HeardOnTrail'
  <2>1. \A d \in air \ {c} : \E i \in 1..Len(trail'[d.packet]) :
                              trail'[d.packet][i] = d.from
    <3> SUFFICES ASSUME NEW d \in air \ {c}
                 PROVE  \E i \in 1..Len(trail'[d.packet]) :
                              trail'[d.packet][i] = d.from
      OBVIOUS
    <3>1. PICK i \in 1..Len(trail[d.packet]) : trail[d.packet][i] = d.from
      BY DEF PathInv, HeardOnTrail
    <3>2. CASE d.packet = p
      <4>1. i \in 1..Len(trail'[p]) /\ trail'[p][i] = d.from
        BY <1>5, <1>8, <3>1, <3>2
      <4> QED BY <3>2, <4>1
    <3>3. CASE d.packet # p
      BY <1>4, <1>7, <3>1, <3>3
    <3> QED BY <3>2, <3>3
  <2>2. \A d \in new(h) : \E i \in 1..Len(trail'[d.packet]) :
                              trail'[d.packet][i] = d.from
    <3>1. Len(trail[p]) + 1 \in 1..Len(trail'[p])
      BY <1>5, <1>8
    <3> SUFFICES ASSUME NEW d \in new(h)
                 PROVE  \E i \in 1..Len(trail'[d.packet]) :
                              trail'[d.packet][i] = d.from
      OBVIOUS
    <3>2. d.packet = p /\ d.from = n
      BY <1>6
    <3> QED BY <1>8, <3>1, <3>2
  <2> QED BY <1>3, <1>6, <2>1, <2>2 DEF PathInv, HeardOnTrail
<1>10. CustodyAtHolder'
  <2> SUFFICES ASSUME NEW d \in air', d.interNode = d.to
               PROVE  /\ d.from = trail'[d.packet][Len(trail'[d.packet])]
                      /\ DistToDest[d.packet][d.to] < DistToDest[d.packet][d.from]
    BY DEF CustodyAtHolder
  <2>1. CASE d \in air \ {c}
    <3>1. d.packet # p /\ trail'[d.packet] = trail[d.packet]
      BY <1>4, <1>7, <2>1
    <3> QED BY <2>1, <3>1 DEF PathInv, CustodyAtHolder
  <2>2. CASE d \in new(h)
    <3>1. d.packet = p /\ d.from = n /\ d.to = next
      BY <1>6, <2>2
    <3> QED BY <1>2, <1>8, <3>1
  <2> QED BY <1>3, <2>1, <2>2
<1>11. FreshPending'
  <2>1. p \notin pending
    <3>1. trail[p] # <<>>
      BY <1>5
    <3> QED BY <3>1 DEF PathInv, FreshPending
  <2> QED BY <1>1, <1>4, <2>1 DEF PathInv, FreshPending
<1>12. SingleCustody'
  BY <1>3, <1>6, <1>7 DEF PathInv, SingleCustody, Custody
<1>13. LoopFree'
  <2>1. /\ trail[p] \in Seq(Node) /\ Len(trail[p]) # 0
        /\ Approaching(p, trail[p])
    BY <1>1, <1>5 DEF PathInv, LoopFree
  <2>2. Approaching(p, trail'[p])
    <3>1. /\ n \in Node /\ p \in Packet
          /\ DistToDest[p][n] < DistToDest[p][trail[p][Len(trail[p])]]
      BY <1>1, <1>5
    <3>2. Approaching(p, Append(trail[p], n))
      BY <2>1, <3>1, AppendApproaching
    <3> QED BY <1>4, <3>2
  <2> QED BY <1>4, <2>2 DEF PathInv, LoopFree, Approaching
<1> QED BY <1>9, <1>10, <1>11, <1>12, <1>13 DEF PathInv

LEMMA PathReceive ==
    ASSUME PktTypeOK, PathInv, NEW c \in air, NEW next \in Node,
           CloserNext(c.to, c.packet, next), Receive(c, next)
    PROVE  PathInv'
<1>1. pending' = pending
  BY DEF Receive
<1>2. CASE Discard(c) \/ Arrive(c) \/ GiveUp(c, next)
  BY <1>1, <1>2, FewerCopies DEF Discard, Arrive, GiveUp, Consumed
<1>3. CASE Forward(c, next)
  BY <1>1, <1>3, PathForward
<1> QED BY <1>2, <1>3 DEF Receive

LEMMA PathStep == TypeOK /\ PathInv /\ [Next]_vars => PathInv'
<1> SUFFICES ASSUME TypeOK, PathInv, [Next]_vars PROVE PathInv'
  OBVIOUS
<1>0. NbTypeOK /\ PktTypeOK
  BY DEF TypeOK
<1>1. CASE UNCHANGED pktVars
  BY <1>1, FewerCopies DEF pktVars
<1>2. ASSUME NEW p \in Packet, HandleUpperMsg(p) PROVE PathInv'
  <2>1. p \in pending /\ pending' = pending \ {p}
    BY <1>2 DEF HandleUpperMsg
  <2>2. CASE Origin[p] \in SourceNodes
    <3>1. /\ FindNextNode(Origin[p], p) \in Node
          /\ CloserNext(Origin[p], p, FindNextNode(Origin[p], p))
      BY <1>0, NextHopCloser
    <3>2. SendFirst(p, FindNextNode(Origin[p], p))
      BY <1>2, <2>2 DEF HandleUpperMsg
    <3> QED BY <1>0, <2>1, <3>1, <3>2, PathSendFirst
  <2>3. CASE Origin[p] \notin SourceNodes
    <3>1. UNCHANGED <<air, trail>>
      BY <1>2, <2>3 DEF HandleUpperMsg
    <3> QED BY <2>1, <3>1, FewerCopies
  <2> QED BY <2>2, <2>3
<1>3. ASSUME NEW c \in air, HandleGreedyPkt(c) PROVE PathInv'
  <2>1. c.to \in Node /\ c.packet \in Packet
    BY <1>0 DEF PktTypeOK, Copy
  <2>2. /\ FindNextNode(c.to, c.packet) \in Node
        /\ CloserNext(c.to, c.packet, FindNextNode(c.to, c.packet))
    BY <1>0, <2>1, NextHopCloser
  <2> QED BY <1>0, <1>3, <2>2, PathReceive DEF HandleGreedyPkt
<1> QED BY <1>1, <1>2, <1>3 DEF Next, vars

\* The invariant behind the results below: copies come from the trail, the
\* one for the next hop from its last host (handleUpperMsg, handleLowerMsg).
THEOREM PathInvariant == Spec => []PathInv
<1> QED BY PathInit, PathStep, TypeCorrect, PTL DEF Spec

(***************************************************************************)
(* No packet ever comes back to a host that transmitted it, in any network *)
(* and however the tables grow meanwhile (findNextNode).                   *)
(***************************************************************************)
THEOREM LoopFreedom == Spec => []LoopFree
<1>1. PathInv => LoopFree
  BY DEF PathInv
<1> QED BY <1>1, PathInvariant, PTL

(***************************************************************************)
(* At most one copy of a packet obliges its receiver to forward it or to   *)
(* give up (handleLowerMsg), although every transmission is a broadcast.   *)
(***************************************************************************)
THEOREM Custodian == Spec => []SingleCustody
<1>1. PathInv => SingleCustody
  BY DEF PathInv
<1> QED BY <1>1, PathInvariant, PTL

-----------------------------------------------------------------------------
\* The host a copy for a next hop reaches: in range of the holder and closer.
LEMMA CustodyHop ==
    ASSUME PktTypeOK, PathInv, NEW c \in air, c.interNode = c.to
    PROVE  /\ c.packet \in Packet /\ c.to \in Node
           /\ trail[c.packet] # <<>>
           /\ c.to \in InRange[Path!Holder(c.packet)]
           /\ Path!Closer(c.packet, c.to, Path!Holder(c.packet))
<1>1. /\ c.packet \in Packet /\ c.to \in Node
      /\ trail[c.packet] \in Seq(Node)
  BY DEF PktTypeOK, Copy
<1>2. /\ \E i \in 1..Len(trail[c.packet]) : trail[c.packet][i] = c.from
      /\ c.to \in InRange[c.from]
      /\ c.from = trail[c.packet][Len(trail[c.packet])]
      /\ DistToDest[c.packet][c.to] < DistToDest[c.packet][c.from]
  BY DEF PathInv, HeardOnTrail, CustodyAtHolder
<1>3. trail[c.packet] # <<>>
  BY <1>2
<1> QED BY <1>1, <1>2, <1>3 DEF Path!Holder, Path!Closer

LEMMA RefinementInit == Init => Path!Init
BY DEF Init, Path!Init, Running

(***************************************************************************)
(* The first transmission of a packet is Start, Forward is Hop, Arrive is  *)
(* Arrive and GiveUp is GiveUp; a discarded copy shows nothing.            *)
(***************************************************************************)
LEMMA StartStep ==
    ASSUME PathInv, outcome = Running, NEW p \in Packet, p \in pending,
           NEW next, SendFirst(p, next), outcome' = outcome
    PROVE  Path!Next
<1>1. trail[p] = <<>> /\ outcome.kind = "running"
  BY DEF PathInv, FreshPending, Running
<1>2. trail' = [trail EXCEPT ![p] = <<Origin[p]>>]
  BY DEF SendFirst
<1>3. Path!Start(p)
  BY <1>1, <1>2 DEF Path!Start
<1> QED BY <1>1, <1>3 DEF Path!Next

LEMMA ReceiveStep ==
    ASSUME PktTypeOK, PathInv, outcome = Running, NEW c \in air, NEW next,
           Receive(c, next)
    PROVE  [Path!Next]_(Path!vars)
<1>0. outcome.kind = "running" /\ c.packet \in Packet
  BY DEF Running, PktTypeOK, Copy
<1>1. CASE Discard(c)
  BY <1>1 DEF Discard, Path!vars
<1>2. CASE Arrive(c)
  <2>1. outcome'.kind = "arrived" /\ trail' = trail
    BY <1>2 DEF Arrive
  <2>2. \E i \in 1..Len(trail[c.packet]) :
           DestId[c.packet] \in InRange[trail[c.packet][i]]
    BY <1>2 DEF Arrive, IsDest, PathInv, HeardOnTrail
  <2>3. Path!Arrive(c.packet)
    BY <2>1, <2>2 DEF Path!Arrive
  <2> QED BY <1>0, <2>3 DEF Path!Next
<1>3. CASE GiveUp(c, next)
  <2>1. /\ outcome'.kind = "stuck" /\ trail' = trail
        /\ c.interNode = c.to
    BY <1>3 DEF GiveUp, IsNextHop
  <2>2. Path!GiveUp(c.packet, c.to)
    BY <2>1, CustodyHop DEF Path!GiveUp
  <2> QED BY <1>0, <2>1, <2>2, CustodyHop DEF Path!Next
<1>4. CASE Forward(c, next)
  <2>1. /\ outcome' = outcome
        /\ trail' = [trail EXCEPT ![c.packet] = Append(@, c.to)]
        /\ c.interNode = c.to
    BY <1>4 DEF Forward, IsNextHop
  <2>2. Path!Hop(c.packet, c.to)
    BY <2>1, CustodyHop DEF Path!Hop
  <2> QED BY <1>0, <2>1, <2>2, CustodyHop DEF Path!Next
<1> QED BY <1>1, <1>2, <1>3, <1>4 DEF Receive

LEMMA RefinementStep ==
    TypeOK /\ PathInv /\ [Next]_vars => [Path!Next]_(Path!vars)
<1> SUFFICES ASSUME TypeOK, PathInv, [Next]_vars
             PROVE  [Path!Next]_(Path!vars)
  OBVIOUS
<1>1. CASE trail' = trail /\ outcome' = outcome
  BY <1>1 DEF Path!vars
<1>2. ASSUME outcome = Running, NEW p \in Packet, HandleUpperMsg(p)
      PROVE  [Path!Next]_(Path!vars)
  <2>1. CASE Origin[p] \in SourceNodes
    BY <1>2, <2>1, StartStep DEF HandleUpperMsg
  <2>2. CASE Origin[p] \notin SourceNodes
    BY <1>1, <1>2, <2>2 DEF HandleUpperMsg
  <2> QED BY <2>1, <2>2
<1>3. ASSUME outcome = Running, NEW c \in air, HandleGreedyPkt(c)
      PROVE  [Path!Next]_(Path!vars)
  BY <1>3, ReceiveStep DEF HandleGreedyPkt, TypeOK
<1> QED BY <1>1, <1>2, <1>3 DEF Next, vars, pktVars

(***************************************************************************)
(* GeoBasic implements GreedyPath: the handlers of Greedy/GeoBasic.cc, the *)
(* beacons and the lossy radio only show greedy paths and their verdicts.  *)
(***************************************************************************)
THEOREM Refinement == Spec => ImplementsGreedyPath
<1> QED BY RefinementInit, RefinementStep, TypeCorrect, PathInvariant, PTL
        DEF Spec, ImplementsGreedyPath, Path!Spec

-----------------------------------------------------------------------------
(***************************************************************************)
(* What a copy carries.  The copies of a packet that is sent on are those  *)
(* of before, less the only one that obliges anyone, and the new ones.     *)
(***************************************************************************)
LEMMA PendingHasNoCopy ==
    ASSUME PktTypeOK, PathInv, NEW p \in pending, NEW c \in air
    PROVE  c.packet \in Packet /\ c.packet # p
<1>1. /\ c.packet \in Packet /\ trail \in [Packet -> Seq(Node)]
  BY DEF PktTypeOK, Copy
<1>2. trail[p] = <<>>
  BY DEF PathInv, FreshPending
<1>3. Len(trail[c.packet]) # 0
  <2>1. trail[c.packet] \in Seq(Node) /\ Len(trail[c.packet]) \in Nat
    BY <1>1, SeqEntries
  <2>2. \E i \in 1..Len(trail[c.packet]) : trail[c.packet][i] = c.from
    BY DEF PathInv, HeardOnTrail
  <2> QED BY <2>1, <2>2
<1> QED BY <1>1, <1>2, <1>3

LEMMA OthersOblige ==
    ASSUME PktTypeOK, PathInv, NEW c \in air, IsNextHop(c), NEW d \in air \ {c}
    PROVE  /\ d.packet \in Packet
           /\ d.packet = c.packet => d.interNode # d.to
<1>1. c \in Custody(c.packet) /\ c.packet \in Packet /\ d.packet \in Packet
  BY DEF Custody, IsNextHop, PktTypeOK, Copy
<1> QED BY <1>1 DEF PathInv, SingleCustody, Custody

LEMMA LongerTrail ==
    ASSUME NEW t \in Seq(Node), NEW n \in Node, NEW k \in 1..Len(t)
    PROVE  /\ SubSeq(Append(t, n), 1, k) = SubSeq(t, 1, k)
           /\ Len(Append(t, n)) = Len(t) + 1
           /\ SubSeq(Append(t, n), 1, Len(Append(t, n))) = Append(t, n)
OBVIOUS

\* RouteIsHistory of one copy.
RouteOf(c) ==
    /\ c.route # <<>>
    /\ c.route[Len(c.route)] = c.from
    /\ Len(c.route) <= Len(trail[c.packet])
    /\ c.route = SubSeq(trail[c.packet], 1, Len(c.route))
    /\ c.interNode = c.to => c.route = trail[c.packet]

LEMMA RouteSendFirst ==
    ASSUME PktTypeOK, PathInv, RouteIsHistory, NEW p \in pending,
           NEW next, SendFirst(p, next)
    PROVE  RouteIsHistory'
<1> DEFINE n == Origin[p]
           length == Dist[n][next]
<1>1. n \in Node /\ p \in Packet /\ trail \in [Packet -> Seq(Node)]
  BY DEF PktTypeOK
<1>2. PICK h \in Reach(n) : air' = air \cup Copies(n, p, next, <<n>>, length, h)
  BY DEF SendFirst
<1>3. trail'[p] = <<n>> /\ \A r \in Packet : r # p => trail'[r] = trail[r]
  BY <1>1 DEF SendFirst
<1>4. \A c \in air : RouteOf(c)'
  <2> SUFFICES ASSUME NEW c \in air PROVE RouteOf(c)'
    OBVIOUS
  <2>1. trail'[c.packet] = trail[c.packet]
    BY <1>3, PendingHasNoCopy
  <2> QED BY <2>1 DEF RouteIsHistory, RouteOf
<1>5. \A c \in Copies(n, p, next, <<n>>, length, h) : RouteOf(c)'
  <2> SUFFICES ASSUME NEW c \in Copies(n, p, next, <<n>>, length, h)
               PROVE  RouteOf(c)'
    OBVIOUS
  <2>1. c.packet = p /\ c.route = <<n>> /\ c.from = n
    BY DEF Copies
  <2>2. <<n>> # <<>> /\ Len(<<n>>) = 1 /\ <<n>>[1] = n /\ <<n>> = SubSeq(<<n>>, 1, 1)
    BY <1>1
  <2> DEFINE one == <<n>>
  <2>3. /\ one # <<>> /\ Len(one) = 1 /\ one[1] = n /\ one = SubSeq(one, 1, 1)
        /\ c.route = one /\ trail'[c.packet] = one /\ c.from = n
    BY <1>3, <2>1, <2>2
  <2> HIDE DEF n, one
  <2>4. Len(c.route) <= Len(trail'[c.packet])
    BY <2>3
  <2>5. c.route = SubSeq(trail'[c.packet], 1, Len(c.route))
    BY <2>3
  <2> QED BY <2>3, <2>4, <2>5, Zenon DEF RouteOf
<1> QED BY <1>2, <1>4, <1>5 DEF RouteIsHistory, RouteOf

LEMMA RouteReceive ==
    ASSUME PktTypeOK, PathInv, RouteIsHistory, NEW c \in air, NEW next,
           Receive(c, next)
    PROVE  RouteIsHistory'
<1>1. CASE air' \subseteq air /\ trail' = trail
  BY <1>1 DEF RouteIsHistory
<1>2. CASE Forward(c, next)
  <2> DEFINE n == c.to
             p == c.packet
             route == Append(c.route, n)
             length == LongerLength(c, next)
  <2>1. n \in Node /\ p \in Packet /\ trail \in [Packet -> Seq(Node)]
    BY DEF PktTypeOK, Copy
  <2>2. IsNextHop(c) /\ c.route = trail[p] /\ trail[p] # <<>>
    BY <1>2 DEF Forward, IsNextHop, RouteIsHistory
  <2>3. PICK h \in Reach(n) :
          air' = (air \ {c}) \cup Copies(n, p, next, route, length, h)
    BY <1>2 DEF Forward, Consumed, LongerRoute
  <2>4. trail'[p] = route /\ \A r \in Packet : r # p => trail'[r] = trail[r]
    BY <1>2, <2>1, <2>2 DEF Forward
  <2>5. /\ route # <<>> /\ route[Len(route)] = n
        /\ route = SubSeq(route, 1, Len(route)) /\ Len(route) \in Nat
        /\ Len(route) = Len(trail[p]) + 1 /\ Len(trail[p]) \in Nat
        /\ \A k \in 1..Len(trail[p]) : SubSeq(route, 1, k) = SubSeq(trail[p], 1, k)
    <3>1. trail[p] \in Seq(Node) /\ route = Append(trail[p], n)
      BY <2>1, <2>2
    <3>2. n \in Node
      BY <2>1
    <3> HIDE DEF route, n
    <3>3. /\ route \in Seq(Node) /\ Len(route) \in Nat
          /\ Len(route) = Len(trail[p]) + 1 /\ Len(trail[p]) \in Nat
          /\ route[Len(route)] = n /\ route # <<>>
      BY ONLY <3>1, <3>2
    <3>4. route = SubSeq(route, 1, Len(route))
      BY ONLY <3>3
    <3>5. \A k \in 1..Len(trail[p]) : SubSeq(route, 1, k) = SubSeq(trail[p], 1, k)
      BY ONLY <3>1, <3>2, LongerTrail
    <3> QED BY <3>3, <3>4, <3>5
  <2> HIDE DEF n, p, route
  <2>6. \A d \in Copies(n, p, next, route, length, h) : RouteOf(d)'
    <3> SUFFICES ASSUME NEW d \in Copies(n, p, next, route, length, h)
                 PROVE  RouteOf(d)'
      OBVIOUS
    <3>1. d.packet = p /\ d.route = route /\ d.from = n
      BY DEF Copies
    <3> QED BY <2>4, <2>5, <3>1 DEF RouteOf
  <2>7. \A d \in air \ {c} : RouteOf(d)'
    <3> SUFFICES ASSUME NEW d \in air \ {c} PROVE RouteOf(d)'
      OBVIOUS
    <3>1. /\ d.packet \in Packet
          /\ d.packet = p => d.interNode # d.to
      BY <2>2, OthersOblige DEF p
    <3>2. RouteOf(d)
      BY DEF RouteIsHistory, RouteOf
    <3>3. CASE d.packet # p
      <4>1. trail'[d.packet] = trail[d.packet]
        BY <2>4, <3>1, <3>3
      <4> QED BY <3>2, <4>1 DEF RouteOf
    <3>4. CASE d.packet = p
      <4>1. d.route \in Seq(Node)
        BY DEF PktTypeOK, Copy
      <4>2. Len(d.route) \in 1..Len(trail[p]) /\ Len(d.route) <= Len(route)
        <5>1. Len(d.route) \in Nat /\ Len(d.route) # 0 /\ Len(d.route) <= Len(trail[p])
          BY <3>2, <3>4, <4>1 DEF RouteOf
        <5> QED BY ONLY <2>5, <5>1
      <4>3. SubSeq(route, 1, Len(d.route)) = d.route
        <5>1. SubSeq(route, 1, Len(d.route)) = SubSeq(trail[p], 1, Len(d.route))
          BY <2>5, <4>2
        <5> QED BY <3>2, <3>4, <5>1 DEF RouteOf
      <4> QED BY <2>4, <3>1, <3>2, <3>4, <4>2, <4>3 DEF RouteOf
    <3> QED BY <3>3, <3>4
  <2> QED BY <2>3, <2>6, <2>7 DEF RouteIsHistory, RouteOf
<1>3. Forward(c, next) \/ (air' \subseteq air /\ trail' = trail)
  BY DEF Receive, Discard, Arrive, GiveUp, Consumed
<1> QED BY <1>1, <1>2, <1>3

LEMMA RouteStep ==
    TypeOK /\ PathInv /\ RouteIsHistory /\ [Next]_vars => RouteIsHistory'
<1> SUFFICES ASSUME TypeOK, PathInv, RouteIsHistory, [Next]_vars
             PROVE  RouteIsHistory'
  OBVIOUS
<1>1. CASE air' = air /\ trail' = trail
  BY <1>1 DEF RouteIsHistory
<1>2. ASSUME NEW p \in Packet, HandleUpperMsg(p) PROVE RouteIsHistory'
  BY <1>1, <1>2, RouteSendFirst DEF HandleUpperMsg, TypeOK
<1>3. ASSUME NEW c \in air, HandleGreedyPkt(c) PROVE RouteIsHistory'
  BY <1>3, RouteReceive DEF HandleGreedyPkt, TypeOK
<1> QED BY <1>1, <1>2, <1>3 DEF Next, vars, pktVars

(***************************************************************************)
(* The route in a packet is the history of its transmissions, complete in  *)
(* the copy for the next hop, although every host that hears the packet    *)
(* has a copy of its own (handleUpperMsg, handleLowerMsg).                 *)
(***************************************************************************)
THEOREM RouteHistory == Spec => []RouteIsHistory
<1>1. Init => RouteIsHistory
  BY DEF Init, RouteIsHistory
<1> QED BY <1>1, RouteStep, TypeCorrect, PathInvariant, PTL DEF Spec

(***************************************************************************)
(* The vectors nbTable and route, which the code only ever appends to, are *)
(* never longer than the number of hosts, and no packet is transmitted     *)
(* more often (updateNbTable, handleLowerMsg).                             *)
(***************************************************************************)
NoLongerThan(l) ==
    /\ \A n \in Node : Len(nbTable[n]) <= l
    /\ \A p \in Packet : Len(trail[p]) <= l
    /\ \A c \in air : Len(c.route) <= l

THEOREM Bounded ==
    ASSUME IsFiniteSet(Node)
    PROVE  Spec => []NoLongerThan(Cardinality(Node))
<1>1. TypeOK /\ TableFromBeacons /\ LoopFree /\ RouteIsHistory
        => NoLongerThan(Cardinality(Node))
  <2> SUFFICES ASSUME TypeOK, TableFromBeacons, LoopFree, RouteIsHistory
               PROVE  NoLongerThan(Cardinality(Node))
    OBVIOUS
  <2>1. ASSUME NEW n \in Node PROVE Len(nbTable[n]) <= Cardinality(Node)
    <3>1. nbTable[n] \in Seq(Node)
      BY DEF TypeOK, NbTypeOK
    <3>2. \A i, j \in 1..Len(nbTable[n]) : i < j => nbTable[n][i] # nbTable[n][j]
      BY <3>1 DEF TableFromBeacons
    <3> QED BY <3>1, <3>2, DistinctAreFew
  <2>2. ASSUME NEW p \in Packet PROVE Len(trail[p]) <= Cardinality(Node)
    <3> DEFINE t == trail[p]
    <3>1. t \in Seq(Node)
      BY DEF TypeOK, PktTypeOK
    <3>2. \A i, j \in 1..Len(t) : i < j => DistToDest[p][t[j]] < DistToDest[p][t[i]]
      BY DEF LoopFree, Approaching
    <3> HIDE DEF t
    <3>3. \A i \in 1..Len(t) : DistToDest[p][t[i]] \in Nat
      BY <3>1, SeqEntries
    <3>4. \A x, y \in Nat : x < y => x # y
      OBVIOUS
    <3>5. \A i, j \in 1..Len(t) : i < j => t[i] # t[j]
      BY <3>2, <3>3, <3>4, Zenon
    <3> QED BY <3>1, <3>5, DistinctAreFew DEF t
  <2>3. ASSUME NEW c \in air PROVE Len(c.route) <= Cardinality(Node)
    <3>1. /\ c.packet \in Packet /\ c.route \in Seq(Node)
          /\ trail[c.packet] \in Seq(Node)
      BY DEF TypeOK, PktTypeOK, Copy
    <3>2. Len(c.route) <= Len(trail[c.packet])
      BY DEF RouteIsHistory
    <3>3. Len(trail[c.packet]) <= Cardinality(Node) /\ Cardinality(Node) \in Nat
      BY <2>2, <3>1, FS_CardinalityType
    <3> QED BY <3>1, <3>2, <3>3
  <2> QED BY <2>1, <2>2, <2>3 DEF NoLongerThan
<1> QED BY <1>1, TypeCorrect, Tables, LoopFreedom, RouteHistory, PTL

(***************************************************************************)
(* findNextNode names, for every table, the neighbour its loop ends with.  *)
(***************************************************************************)
THEOREM Choice == Spec => []ChoiceIsLoop
<1>1. TypeOK => ChoiceIsLoop
  BY NextNodeIsLoop DEF TypeOK, NbTypeOK, ChoiceIsLoop
<1> QED BY <1>1, TypeCorrect, PTL

-----------------------------------------------------------------------------
(***************************************************************************)
(* The length of a path: 0 for one host, and one more hop at the end adds  *)
(* its distance.                                                           *)
(***************************************************************************)
IsUpTo(r, f) ==
    f = [i \in 1..Len(r) |-> IF i = 1 THEN 0 ELSE f[i-1] + Dist[r[i-1]][r[i]]]

UpTo(r) == CHOOSE f : IsUpTo(r, f)

LEMMA UpToSteps ==
    ASSUME NEW r \in Seq(Node), Len(r) # 0
    PROVE  /\ PathLength(r) = UpTo(r)[Len(r)]
           /\ UpTo(r)[1] = 0
           /\ \A i \in 1..Len(r) - 1 :
                 UpTo(r)[i+1] = UpTo(r)[i] + Dist[r[i]][r[i+1]]
<1> DEFINE l == Len(r)
<1>1. l \in Nat \ {0} /\ l - 1 \in Nat /\ \A i \in 1..l : r[i] \in Node
  OBVIOUS
<1>2. PathLength(r) = UpTo(r)[l]
  BY DEF PathLength, UpTo, IsUpTo
<1>3. \E f : IsUpTo(r, f)
  <2> DEFINE k == l - 1
             G == [i \in 1..k |-> [b \in Nat |-> b + Dist[r[i]][r[i+1]]]]
  <2>1. k \in Nat /\ \A i \in 1..k : i \in 1..l /\ i + 1 \in 1..l
    BY <1>1
  <2>2. \A i \in 1..k : Dist[r[i]][r[i+1]] \in Nat
    <3>1. \A m, n \in Node : Dist[m][n] \in Nat
      OBVIOUS
    <3> QED BY <1>1, <2>1, <3>1
  <2>3. G \in [1..k -> [Nat -> Nat]]
    <3> HIDE DEF k
    <3>0. \A x, b \in Nat : b + x \in Nat
      OBVIOUS
    <3>1. \A i \in 1..k : \A b \in Nat : b + Dist[r[i]][r[i+1]] \in Nat
      BY ONLY <2>2, <3>0
    <3> QED BY <3>1
  <2>4. \A i \in 1..k : \A b \in Nat : G[i][b] = b + Dist[r[i]][r[i+1]]
    OBVIOUS
  <2> HIDE DEF G, k
  <2>5. PICK g \in [0..k -> Nat] : IsLoop(g, k, 0, G)
    BY <2>1, <2>3, LoopExists
  <2>6. g[0] = 0 /\ \A i \in 1..k : g[i] = g[i-1] + Dist[r[i]][r[i+1]]
    <3>1. \A i \in 1..k : i - 1 \in 0..k /\ g[i-1] \in Nat
      BY <2>1
    <3> QED BY <2>4, <2>5, <3>1 DEF IsLoop
  <2> DEFINE f == [i \in 1..l |-> g[i-1]]
  <2>7. ASSUME NEW i \in 1..l
        PROVE  f[i] = IF i = 1 THEN 0 ELSE f[i-1] + Dist[r[i-1]][r[i]]
    <3>1. i = 1 \/ (i - 1 \in 1..k /\ i - 1 \in 1..l /\ (i - 1) + 1 = i)
      BY <1>1 DEF k
    <3>2. CASE i = 1
      BY <2>6, <3>2
    <3>3. CASE i # 1
      <4>1. f[i] = g[i-1] /\ f[i-1] = g[(i-1)-1]
        BY <3>1, <3>3
      <4>2. g[i-1] = g[(i-1)-1] + Dist[r[i-1]][r[i]]
        BY <2>6, <3>1, <3>3
      <4> QED BY <3>3, <4>1, <4>2
    <3> QED BY <3>2, <3>3
  <2>8. IsUpTo(r, f)
    BY <2>7 DEF IsUpTo
  <2> QED BY <2>8
<1>4. IsUpTo(r, UpTo(r))
  BY <1>3 DEF UpTo
<1> DEFINE u == UpTo(r)
<1>5. /\ u[1] = 0
      /\ \A i \in 2..l : u[i] = u[i-1] + Dist[r[i-1]][r[i]]
  <2> HIDE DEF u
  <2>1. u = [i \in 1..l |-> IF i = 1 THEN 0 ELSE u[i-1] + Dist[r[i-1]][r[i]]]
    BY <1>4 DEF IsUpTo, u
  <2>2. 1 \in 1..l /\ \A i \in 2..l : i \in 1..l /\ i # 1
    BY <1>1
  <2> HIDE DEF l
  <2> QED BY ONLY <2>1, <2>2
<1>6. \A i \in 1..l - 1 : i + 1 \in 2..l /\ (i + 1) - 1 = i
  BY <1>1
<1> HIDE DEF u, l
<1>7. \A i \in 1..l - 1 : u[i+1] = u[i] + Dist[r[i]][r[i+1]]
  <2> SUFFICES ASSUME NEW i \in 1..l - 1
               PROVE  u[i+1] = u[i] + Dist[r[i]][r[i+1]]
    OBVIOUS
  <2>1. u[i+1] = u[(i+1)-1] + Dist[r[(i+1)-1]][r[i+1]]
    BY <1>5, <1>6
  <2> QED BY <1>6, <2>1
<1> QED BY <1>2, <1>5, <1>7 DEF u, l

LEMMA PathLengthOne ==
    ASSUME NEW n \in Node
    PROVE  PathLength(<<n>>) = 0
<1> DEFINE r == <<n>>
<1>1. r \in Seq(Node) /\ Len(r) = 1
  OBVIOUS
<1> HIDE DEF r
<1>2. PathLength(r) = UpTo(r)[Len(r)] /\ UpTo(r)[1] = 0
  <2>1. r \in Seq(Node) /\ Len(r) # 0
    BY <1>1
  <2> QED BY ONLY <2>1, UpToSteps
<1> QED BY <1>1, <1>2 DEF r

LEMMA PathLengthAppend ==
    ASSUME NEW r \in Seq(Node), r # <<>>, NEW n \in Node
    PROVE  PathLength(Append(r, n)) = PathLength(r) + Dist[r[Len(r)]][n]
<1> DEFINE s == Append(r, n)
           l == Len(r)
           u == UpTo(r)
           v == UpTo(s)
<1>1. /\ s \in Seq(Node) /\ l \in Nat \ {0} /\ Len(s) = l + 1 /\ Len(s) # 0
      /\ \A i \in 1..l : s[i] = r[i]
      /\ s[l+1] = n
  OBVIOUS
<1> HIDE DEF s
<1>2. /\ PathLength(r) = u[l] /\ u[1] = 0
      /\ \A i \in 1..l - 1 : u[i+1] = u[i] + Dist[r[i]][r[i+1]]
  BY <1>1, UpToSteps
<1>3. /\ PathLength(s) = v[l+1] /\ v[1] = 0
      /\ \A i \in 1..l : v[i+1] = v[i] + Dist[s[i]][s[i+1]]
  <2>1. /\ PathLength(s) = v[Len(s)] /\ v[1] = 0
        /\ \A i \in 1..Len(s) - 1 : v[i+1] = v[i] + Dist[s[i]][s[i+1]]
    BY ONLY <1>1, UpToSteps
  <2>2. Len(s) - 1 = l
    BY <1>1
  <2> QED BY <1>1, <2>1, <2>2
<1> HIDE DEF u, v, l
<1> DEFINE S == {i \in 0..l - 1 : u[i+1] = v[i+1]}
<1>4. l - 1 \in Nat /\ 0 \in S
  <2>1. l - 1 \in Nat /\ 0 \in 0..l - 1 /\ 0 + 1 = 1
    BY <1>1
  <2> QED BY <1>2, <1>3, <2>1
<1>5. ASSUME NEW i \in 1..l - 1, i - 1 \in S PROVE i \in S
  <2>1. (i - 1) + 1 = i /\ i \in 1..l /\ i + 1 \in 1..l /\ i \in 0..l - 1
    BY <1>1
  <2>2. u[i] = v[i]
    BY <1>5, <2>1
  <2>3. u[i+1] = u[i] + Dist[r[i]][r[i+1]] /\ v[i+1] = v[i] + Dist[s[i]][s[i+1]]
    BY <1>2, <1>3, <2>1
  <2>4. s[i] = r[i] /\ s[i+1] = r[i+1]
    BY <1>1, <2>1
  <2> QED BY <2>1, <2>2, <2>3, <2>4
<1>6. u[l] = v[l]
  <2> HIDE DEF S
  <2>1. \A i \in 1..l - 1 : i - 1 \in S => i \in S
    BY <1>5
  <2> DEFINE k == l - 1
  <2>2. k \in Nat /\ 0 \in S /\ \A i \in 1..k : i - 1 \in S => i \in S
    BY <1>4, <2>1
  <2> HIDE DEF k
  <2>3. \A i \in 0..k : i \in S
    BY ONLY <2>2, Induct
  <2>4. k \in 0..k /\ k + 1 = l
    BY <1>1 DEF k
  <2> QED BY <2>3, <2>4 DEF S
<1>7. v[l+1] = v[l] + Dist[s[l]][s[l+1]]
  <2>1. l \in 1..l
    BY <1>1
  <2> QED BY <1>3, <2>1
<1>8. s[l] = r[l]
  <2>1. l \in 1..l
    BY <1>1
  <2> QED BY <1>1, <2>1
<1> QED BY <1>1, <1>2, <1>3, <1>6, <1>7, <1>8 DEF s, l

-----------------------------------------------------------------------------
\* A length adds up over the first transmission and over a forwarded packet.
LEMMA LengthSendFirst ==
    ASSUME LengthIsPath, NEW p \in Packet, NEW next \in Node, SendFirst(p, next)
    PROVE  LengthIsPath'
<1> DEFINE n == Origin[p]
           length == Dist[n][next]
<1>1. n \in Node
  OBVIOUS
<1>2. PICK h \in Reach(n) : air' = air \cup Copies(n, p, next, <<n>>, length, h)
  BY DEF SendFirst
<1>3. length = PathLength(Append(<<n>>, next))
  <2> DEFINE r == <<n>>
  <2>1. r \in Seq(Node) /\ r # <<>> /\ r[Len(r)] = n
    BY <1>1
  <2>2. length \in Nat
    BY <1>1
  <2> HIDE DEF n
  <2>3. PathLength(r) = 0
    BY <1>1, PathLengthOne
  <2> HIDE DEF r
  <2>4. PathLength(Append(r, next)) = PathLength(r) + Dist[r[Len(r)]][next]
    BY <2>1, PathLengthAppend
  <2> QED BY <2>1, <2>2, <2>3, <2>4 DEF r
<1>4. \A c \in Copies(n, p, next, <<n>>, length, h) :
         c.length = length /\ c.route = <<n>> /\ c.interNode = next
  BY DEF Copies
<1> HIDE DEF length, n
<1> QED BY <1>2, <1>3, <1>4 DEF LengthIsPath

LEMMA LengthReceive ==
    ASSUME PktTypeOK, LengthIsPath, NEW c \in air, NEW next \in Node,
           Receive(c, next)
    PROVE  LengthIsPath'
<1>1. CASE air' \subseteq air
  BY <1>1 DEF LengthIsPath
<1>2. CASE Forward(c, next)
  <2> DEFINE n == c.to
             route == Append(c.route, n)
             length == c.length + Dist[n][next]
  <2>1. PICK h \in Reach(n) :
          air' = (air \ {c}) \cup Copies(n, c.packet, next, route, length, h)
    BY <1>2 DEF Forward, Consumed, LongerRoute, LongerLength
  <2>2. /\ c.route \in Seq(Node) /\ n \in Node
        /\ c.interNode = n /\ c.length = PathLength(Append(c.route, c.interNode))
    BY <1>2 DEF PktTypeOK, Copy, Forward, IsNextHop, LengthIsPath
  <2>3. c.length = PathLength(route)
    BY <2>2
  <2>4. route \in Seq(Node) /\ route # <<>> /\ route[Len(route)] = n
    <3> DEFINE q == c.route
    <3>1. q \in Seq(Node) /\ n \in Node /\ route = Append(q, n)
      BY <2>2
    <3> HIDE DEF q, n, route
    <3> QED BY ONLY <3>1
  <2> HIDE DEF route
  <2>5. PathLength(Append(route, next)) = PathLength(route) + Dist[route[Len(route)]][next]
    BY <2>4, PathLengthAppend
  <2>6. length = PathLength(Append(route, next))
    BY <2>3, <2>4, <2>5
  <2>7. \A d \in Copies(n, c.packet, next, route, length, h) :
           d.length = length /\ d.route = route /\ d.interNode = next
    BY DEF Copies
  <2> HIDE DEF length, n
  <2> QED BY <2>1, <2>6, <2>7 DEF LengthIsPath
<1> QED BY <1>1, <1>2 DEF Receive, Discard, Arrive, GiveUp, Consumed

LEMMA LengthStep == TypeOK /\ LengthIsPath /\ [Next]_vars => LengthIsPath'
<1> SUFFICES ASSUME TypeOK, LengthIsPath, [Next]_vars PROVE LengthIsPath'
  OBVIOUS
<1>0. NbTypeOK /\ PktTypeOK
  BY DEF TypeOK
<1>1. CASE air' = air
  BY <1>1 DEF LengthIsPath
<1>2. ASSUME NEW p \in Packet, HandleUpperMsg(p) PROVE LengthIsPath'
  <2>1. FindNextNode(Origin[p], p) \in Node
    BY <1>0, NextHopCloser
  <2> QED BY <1>1, <1>2, <2>1, LengthSendFirst DEF HandleUpperMsg
<1>3. ASSUME NEW c \in air, HandleGreedyPkt(c) PROVE LengthIsPath'
  <2>1. FindNextNode(c.to, c.packet) \in Node
    BY <1>0, NextHopCloser DEF PktTypeOK, Copy
  <2> QED BY <1>0, <1>3, <2>1, LengthReceive DEF HandleGreedyPkt
<1> QED BY <1>1, <1>2, <1>3 DEF Next, vars, pktVars

(***************************************************************************)
(* The length in a packet is that of its path, the hop to the named next   *)
(* hop included, for routes of any length (the code adds each hop when the *)
(* packet is sent on, and never recomputes the sum).                       *)
(***************************************************************************)
THEOREM PathLengths == Spec => []LengthIsPath
<1>1. Init => LengthIsPath
  BY DEF Init, LengthIsPath
<1> QED BY <1>1, LengthStep, TypeCorrect, PTL DEF Spec

-----------------------------------------------------------------------------
(***************************************************************************)
(* Over a radio that loses nothing, tables are full from the moment the    *)
(* first packet is handed down, since the beacons are over by then.        *)
(***************************************************************************)
LEMMA StuckReceive ==
    ASSUME NbTypeOK, PktTypeOK, TablesFull, StuckIsGenuine, NEW c \in air,
           NEW next, next = c.to => CloserEntries(c.to, c.packet) = {},
           Receive(c, next)
    PROVE  StuckIsGenuine'
<1>1. CASE outcome' = outcome
  BY <1>1 DEF StuckIsGenuine, Void, Neighbours
<1>2. CASE Arrive(c)
  BY <1>2 DEF Arrive, StuckIsGenuine
<1>3. CASE GiveUp(c, next)
  <2>1. c.to \in Node /\ c.packet \in Packet
    BY DEF PktTypeOK, Copy
  <2>2. Void(c.to, c.packet)
    BY <1>3, <2>1, VoidWhenStuck DEF GiveUp
  <2>3. outcome'.at = c.to /\ outcome'.packet = c.packet
    BY <1>3 DEF GiveUp
  <2> QED BY <2>2, <2>3 DEF StuckIsGenuine, Void
<1> QED BY <1>1, <1>2, <1>3 DEF Receive, Discard, Forward

\* No copy before the first packet, and full tables from then on.
StuckInv == /\ Announced
            /\ pending # Packet => TablesFull
            /\ air # {} => pending # Packet
            /\ StuckIsGenuine

LEMMA StuckInit == Init => StuckInv
BY AnnouncedInit DEF Init, StuckInv, StuckIsGenuine, Running

LEMMA StuckStep ==
    ASSUME ~ Lossy
    PROVE  TypeOK /\ StuckInv /\ [WarmNext]_vars => StuckInv'
<1> SUFFICES ASSUME TypeOK, StuckInv, [WarmNext]_vars PROVE StuckInv'
  OBVIOUS
<1>0. NbTypeOK /\ PktTypeOK /\ nbUpdateCnt \in [Node -> Nat]
  BY DEF TypeOK, NbTypeOK
<1>1. ASSUME \/ \E n \in Node : HandleSelfMsg(n)
             \/ \E n, m \in Node : HandleNbBroadcast(n, m),
             UNCHANGED pktVars
      PROVE  StuckInv'
  <2>1. Announced'
    BY <1>0, <1>1, AnnouncedSend, AnnouncedHear DEF StuckInv
  <2>2. TablesFull => TablesFull'
    BY <1>0, <1>1, FullKept
  <2> QED BY <1>1, <2>1, <2>2 DEF StuckInv, pktVars, StuckIsGenuine, Void
<1>2. ASSUME NEW p \in Packet, HandleUpperMsg(p), Settled PROVE StuckInv'
  <2>1. /\ p \in pending /\ pending' = pending \ {p}
        /\ outcome' = outcome /\ UNCHANGED nbVars /\ UNCHANGED nbTable
    BY <1>2 DEF HandleUpperMsg, nbVars
  <2>2. TablesFull
    BY <1>2, FullWhenQuiet DEF Settled, StuckInv, Announced
  <2>3. pending' # Packet
    BY <2>1
  <2> QED BY <2>1, <2>2, <2>3, AnnouncedStutter DEF StuckInv, StuckIsGenuine, Void
<1>3. ASSUME NEW c \in air, HandleGreedyPkt(c) PROVE StuckInv'
  <2>1. c.to \in Node /\ c.packet \in Packet
    BY <1>0 DEF PktTypeOK, Copy
  <2>2. TablesFull /\ pending # Packet /\ StuckIsGenuine
    BY DEF StuckInv
  <2>3. UNCHANGED nbVars /\ UNCHANGED nbTable /\ pending' = pending
    BY <1>3 DEF HandleGreedyPkt, nbVars, Receive
  <2>4. StuckIsGenuine'
    BY <1>0, <1>3, <2>1, <2>2, NoNextHop, StuckReceive DEF HandleGreedyPkt
  <2> QED BY <2>2, <2>3, <2>4, AnnouncedStutter DEF StuckInv
<1>4. CASE UNCHANGED vars
  <2>1. UNCHANGED nbVars /\ UNCHANGED nbTable /\ UNCHANGED pktVars
    BY <1>4 DEF vars, nbVars
  <2> QED BY <2>1, AnnouncedStutter DEF StuckInv, pktVars, StuckIsGenuine, Void
<1>5. ASSUME NEW p \in Packet, HandleUpperMsg(p), WarmNext PROVE Settled
  <2>1. pending' # pending
    BY <1>5 DEF HandleUpperMsg
  <2> QED BY <1>5, <2>1 DEF WarmNext
<1> QED BY <1>1, <1>2, <1>3, <1>4, <1>5 DEF WarmNext, Next

(***************************************************************************)
(* A packet reported stuck is in a void of the network, not only of a      *)
(* table, when the radio loses nothing and the beacons are over before the *)
(* first packet (findNextNode, "Bi tac o day!!!").                         *)
(***************************************************************************)
THEOREM StuckGenuine ==
    ASSUME ~ Lossy
    PROVE  WarmSpec => []StuckIsGenuine
<1>1. [WarmNext]_vars => [Next]_vars
  BY DEF WarmNext
<1>2. WarmSpec => []TypeOK
  BY <1>1, TypeCorrect, PTL DEF WarmSpec, Spec
<1>3. StuckInv => StuckIsGenuine
  BY DEF StuckInv
<1> QED BY <1>2, <1>3, StuckInit, StuckStep, PTL DEF WarmSpec
=============================================================================
