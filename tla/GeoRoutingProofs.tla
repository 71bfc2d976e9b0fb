-------------------------- MODULE GeoRoutingProofs --------------------------
(***************************************************************************)
(* What GeoRouting guarantees in every network, for any number of hosts,   *)
(* packets and beacons, whatever the radio loses, with any number of       *)
(* packets on their way at the same time.                                  *)
(***************************************************************************)
EXTENDS GeoRouting, GeoNeighborsProofs

USE GeoNeighborsAssumption, GeoRoutingAssumption

LEMMA CopyFields ==
    ASSUME NEW n \in Node, NEW pk \in Packet, NEW next \in Node,
           NEW heard \in Reach(n), NEW c \in Copies(n, pk, next, heard)
    PROVE  /\ c \in Copy
           /\ c.packet = pk /\ c.interNode = next /\ c.from = n
           /\ c.to \in InRange[n] /\ c.to # n
           /\ c = [packet |-> pk, interNode |-> next, from |-> n, to |-> c.to]
<1>1. PICK m \in heard : c = [packet |-> pk, interNode |-> next,
                              from |-> n, to |-> m]
  BY DEF Copies
<1>2. m \in InRange[n]
  BY DEF Reach
<1> QED BY <1>1, <1>2 DEF Copy

\* The next hop is the host itself or a strictly closer one.
LEMMA NextHopCloser ==
    ASSUME NbTypeOK, NEW n \in Node, NEW pk \in Packet
    PROVE  /\ FindNextNode(n, pk) \in Node
           /\ FindNextNode(n, pk) # n =>
                DistToDest[pk][FindNextNode(n, pk)] < DistToDest[pk][n]
<1>1. nbTable[n] \in Seq(Node)
  BY DEF NbTypeOK
<1> QED BY <1>1, FindNextNodeType

LEMMA AppendOne ==
    ASSUME NEW S, NEW t \in Seq(S), NEW x \in S
    PROVE  /\ Append(t, x) \in Seq(S)
           /\ Len(t) \in Nat
           /\ Len(Append(t, x)) = Len(t) + 1
           /\ Append(t, x)[Len(t) + 1] = x
           /\ \A i \in 1..Len(t) : t[i] \in S /\ Append(t, x)[i] = t[i]
OBVIOUS

-----------------------------------------------------------------------------
\* Types.
PktTypeOK ==
    /\ air \subseteq Copy
    /\ pending \subseteq Packet
    /\ trail \in [Packet -> Seq(Node)]
    /\ received \in [Packet -> Seq(Copy)]
    /\ stuck \in [Packet -> Seq(Node)]

TypeInv == NbTypeInv /\ PktTypeOK

LEMMA TypeUpper ==
    ASSUME NbTypeOK, PktTypeOK, NEW pk \in Packet, HandleUpperMsg(pk)
    PROVE  PktTypeOK'
<1> DEFINE n == Origin[pk]
<1>1. /\ n \in Node /\ <<n>> \in Seq(Node) /\ FindNextNode(n, pk) \in Node
      /\ air \subseteq Copy /\ trail \in [Packet -> Seq(Node)]
  BY NextHopCloser DEF PktTypeOK
<1>2. air' \subseteq Copy /\ trail' \in [Packet -> Seq(Node)]
  <2>1. CASE n \in SourceNodes
    <3>1. PICK heard \in Reach(n) :
            air' = air \cup Copies(n, pk, FindNextNode(n, pk), heard)
      BY <2>1 DEF HandleUpperMsg
    <3>2. trail' = [trail EXCEPT ![pk] = <<n>>]
      BY <2>1 DEF HandleUpperMsg
    <3> HIDE DEF n
    <3>3. \A c \in Copies(n, pk, FindNextNode(n, pk), heard) : c \in Copy
      BY <1>1, CopyFields
    <3> QED BY <1>1, <3>1, <3>2, <3>3
  <2>2. CASE n \notin SourceNodes
    BY <1>1, <2>2 DEF HandleUpperMsg
  <2> QED BY <2>1, <2>2
<1> QED BY <1>2 DEF HandleUpperMsg, PktTypeOK

LEMMA TypeLower ==
    ASSUME NbTypeOK, PktTypeOK, NEW c \in air, HandleGreedyPkt(c)
    PROVE  PktTypeOK'
<1>1. /\ c \in Copy /\ c.to \in Node /\ c.packet \in Packet
      /\ air \subseteq Copy /\ pending' \subseteq Packet
      /\ trail \in [Packet -> Seq(Node)]
      /\ received \in [Packet -> Seq(Copy)]
      /\ stuck \in [Packet -> Seq(Node)]
  BY DEF PktTypeOK, Copy, HandleGreedyPkt
<1>2. CASE Discard(c)
  BY <1>1, <1>2 DEF Discard, Consumed, PktTypeOK
<1>3. CASE Deliver(c)
  <2>1. received' \in [Packet -> Seq(Copy)]
    <3>1. received[c.packet] \in Seq(Copy)
      BY <1>1
    <3>2. Append(received[c.packet], c) \in Seq(Copy)
      BY ONLY <1>1, <3>1, AppendOne
    <3> QED BY <1>1, <1>3, <3>2 DEF Deliver
  <2> QED BY <1>1, <1>3, <2>1 DEF Deliver, Consumed, PktTypeOK
<1>4. CASE GiveUp(c)
  BY <1>1, <1>4 DEF GiveUp, Consumed, PktTypeOK
<1>5. CASE Forward(c)
  <2>1. InterNode(c) \in Node
    BY <1>1, NextHopCloser DEF InterNode
  <2>2. PICK heard \in Reach(c.to) :
          air' = (air \ {c}) \cup Copies(c.to, c.packet, InterNode(c), heard)
    BY <1>5 DEF Forward, Consumed
  <2>3. \A d \in Copies(c.to, c.packet, InterNode(c), heard) : d \in Copy
    BY <1>1, <2>1, CopyFields
  <2>4. trail' \in [Packet -> Seq(Node)] /\ UNCHANGED <<received, stuck>>
    BY <1>1, <1>5 DEF Forward
  <2> QED BY <1>1, <2>2, <2>3, <2>4 DEF PktTypeOK
<1> QED BY <1>2, <1>3, <1>4, <1>5 DEF HandleGreedyPkt

LEMMA TypeInit == Init => TypeInv
BY NbTypeInit DEF Init, TypeInv, PktTypeOK

LEMMA TypeStep == TypeInv /\ [Next]_vars => TypeInv'
<1> SUFFICES ASSUME TypeInv, [Next]_vars PROVE TypeInv'
  OBVIOUS
<1>0. NbTypeInv /\ PktTypeOK /\ NbTypeOK
  BY DEF TypeInv, NbTypeInv
<1>1. UNCHANGED pktVars => PktTypeOK'
  BY <1>0 DEF pktVars, PktTypeOK
<1>2. ASSUME NEW n \in Node, HandleSelfMsg(n), UNCHANGED pktVars
      PROVE  TypeInv'
  BY <1>0, <1>1, <1>2, NbTypeSend DEF TypeInv
<1>3. ASSUME NEW n \in Node, NEW m \in Node, HandleNbBroadcast(n, m),
             UNCHANGED pktVars
      PROVE  TypeInv'
  BY <1>0, <1>1, <1>3, NbTypeHear DEF TypeInv
<1>4. ASSUME NEW pk \in Packet, HandleUpperMsg(pk), UNCHANGED nbVars
      PROVE  TypeInv'
  BY <1>0, <1>4, TypeUpper, NbTypeStutter DEF TypeInv
<1>5. ASSUME NEW c \in air, HandleGreedyPkt(c), UNCHANGED nbVars
      PROVE  TypeInv'
  BY <1>0, <1>5, TypeLower, NbTypeStutter DEF TypeInv
<1>6. CASE UNCHANGED vars
  BY <1>0, <1>1, <1>6, NbTypeStutter DEF vars, TypeInv
<1> QED BY <1>2, <1>3, <1>4, <1>5, <1>6 DEF Next

(***************************************************************************)
(* Type correctness of the network layer of src/GeoRouting/GeoBasic.cc.    *)
(***************************************************************************)
THEOREM TypeCorrect == Spec => []TypeOK
<1>1. TypeInv => TypeOK
  BY DEF TypeInv, TypeOK, NbTypeInv, PktTypeOK
<1> QED BY <1>1, TypeInit, TypeStep, PTL DEF Spec

-----------------------------------------------------------------------------
(***************************************************************************)
(* PathInv is inductive with the types.  Only handleUpperMsg and a next    *)
(* hop that forwards lengthen a trail; the others take a copy away.        *)
(***************************************************************************)
LEMMA PathInit == Init => PathInv
BY DEF Init, PathInv, CustodyAtHolder, FreshPending, SingleCustody, LoopFree,
       Custody

LEMMA FewerCopies ==
    ASSUME PathInv, air' \subseteq air, trail' = trail, pending' \subseteq pending
    PROVE  PathInv'
<1>1. CustodyAtHolder' /\ FreshPending' /\ LoopFree'
  BY DEF PathInv, CustodyAtHolder, IsNextHop, FreshPending, LoopFree
<1>2. SingleCustody'
  BY DEF PathInv, SingleCustody, Custody
<1> QED BY <1>1, <1>2 DEF PathInv

\* A copy in the air has a trail behind it.
LEMMA TrailOfCopy ==
    ASSUME PktTypeOK, PathInv, NEW c \in air
    PROVE  /\ c.packet \in Packet /\ c.from \in Node /\ c.to \in Node
           /\ trail[c.packet] \in Seq(Node)
           /\ Len(trail[c.packet]) \in Nat \ {0}
           /\ c.packet \notin pending
<1>1. c.packet \in Packet /\ c.from \in Node /\ c.to \in Node
  BY DEF PktTypeOK, Copy
<1>2. trail[c.packet] \in Seq(Node)
  BY <1>1 DEF PktTypeOK
<1>3. \E i \in 1..Len(trail[c.packet]) : trail[c.packet][i] = c.from
  BY DEF PathInv, CustodyAtHolder
<1>4. Len(trail[c.packet]) \in Nat \ {0}
  BY <1>2, <1>3
<1>5. trail[c.packet] # <<>>
  BY <1>4
<1> QED BY <1>1, <1>2, <1>4, <1>5 DEF PathInv, FreshPending

\* A source sends: the packet has no copy and no trail before.
LEMMA PathSend ==
    ASSUME NbTypeOK, PktTypeOK, PathInv, NEW pk \in Packet, HandleUpperMsg(pk),
           Origin[pk] \in SourceNodes
    PROVE  PathInv'
<1> DEFINE n == Origin[pk]
           next == FindNextNode(n, pk)
           new(h) == Copies(n, pk, next, h)
<1>1. /\ n \in Node /\ next \in Node
      /\ next # n => DistToDest[pk][next] < DistToDest[pk][n]
      /\ trail \in [Packet -> Seq(Node)]
      /\ pk \in pending /\ pending' = pending \ {pk}
  <2>1. n \in Node
    OBVIOUS
  <2>2. pk \in pending /\ pending' = pending \ {pk}
    BY DEF HandleUpperMsg
  <2> QED BY <2>1, <2>2, NextHopCloser DEF PktTypeOK
<1>2. PICK h \in Reach(n) : air' = air \cup new(h)
  BY DEF HandleUpperMsg
<1>3. /\ trail'[pk] = <<n>> /\ Len(trail'[pk]) = 1 /\ trail'[pk][1] = n
      /\ \A r \in Packet : r # pk => trail'[r] = trail[r]
  <2>1. trail' = [trail EXCEPT ![pk] = <<n>>]
    BY DEF HandleUpperMsg
  <2> QED BY <1>1, <2>1
<1>4. \A c \in air : /\ c.packet \in Packet /\ c.packet # pk
                     /\ trail'[c.packet] = trail[c.packet]
  BY <1>1, <1>3, TrailOfCopy
<1>5. \A c \in new(h) :
        /\ c.packet = pk /\ c.interNode = next /\ c.from = n
        /\ c.to \in InRange[n] /\ c.to # n
        /\ c = [packet |-> pk, interNode |-> next, from |-> n, to |-> c.to]
  <2> HIDE DEF n, next
  <2> QED BY <1>1, CopyFields
<1> HIDE DEF n, next, new
<1>6. CustodyAtHolder'
  <2>1. ASSUME NEW c \in new(h)
        PROVE  /\ c.to \in InRange[c.from]
               /\ 1 \in 1..Len(trail'[c.packet]) /\ trail'[c.packet][1] = c.from
               /\ IsNextHop(c) =>
                    /\ c.from = trail'[c.packet][Len(trail'[c.packet])]
                    /\ DistToDest[c.packet][c.to] < DistToDest[c.packet][c.from]
    <3>1. c.packet = pk /\ c.from = n /\ c.to \in InRange[n] /\ c.to # n
      BY <1>5
    <3>2. 1 \in 1..Len(trail'[c.packet]) /\ trail'[c.packet][1] = c.from
      <4>1. 1 \in 1..Len(trail'[pk]) /\ trail'[pk][1] = n
        BY <1>3
      <4> QED BY ONLY <3>1, <4>1
    <3>3. c.from = trail'[c.packet][Len(trail'[c.packet])]
      BY ONLY <1>3, <3>1
    <3>4. IsNextHop(c) => c.to = next
      BY <1>5 DEF IsNextHop
    <3> QED BY <1>1, <3>1, <3>2, <3>3, <3>4
  <2> QED BY <1>2, <1>4, <2>1 DEF PathInv, CustodyAtHolder, IsNextHop
<1>7. FreshPending'
  BY <1>1, <1>3 DEF PathInv, FreshPending, PktTypeOK
<1>8. SingleCustody'
  BY <1>2, <1>4, <1>5 DEF PathInv, SingleCustody, Custody
<1>9. LoopFree'
  <2>1. \A i, j \in 1..Len(trail'[pk]) : ~ (i < j)
    BY <1>3
  <2> QED BY <1>3, <2>1 DEF PathInv, LoopFree
<1> QED BY <1>6, <1>7, <1>8, <1>9 DEF PathInv

(***************************************************************************)
(* What Forward leaves: the trail grows by a host closer than all of it,   *)
(* the other packets keep theirs, and the copy consumed was the only one   *)
(* of its packet that obliged anyone.                                      *)
(***************************************************************************)
LEMMA ForwardEffect ==
    ASSUME NbTypeOK, PktTypeOK, PathInv, NEW c \in air, Forward(c)
    PROVE  LET n == c.to
               pk == c.packet
               l == Len(trail[pk])
           IN  /\ l \in Nat \ {0}
               /\ Len(trail'[pk]) = l + 1 /\ trail'[pk][l + 1] = n
               /\ \A i \in 1..l : /\ trail'[pk][i] = trail[pk][i]
                                  /\ DistToDest[pk][n] < DistToDest[pk][trail[pk][i]]
               /\ \A r \in Packet : r # pk => trail'[r] = trail[r]
               /\ \A d \in air \ {c} : d.packet = pk => d.interNode # d.to
               /\ \A d \in air' \ air :
                    /\ d.packet = pk /\ d.from = n /\ d.interNode = InterNode(c)
                    /\ d.to \in InRange[n]
                    /\ d = [packet |-> pk, interNode |-> InterNode(c),
                            from |-> n, to |-> d.to]
               /\ DistToDest[pk][InterNode(c)] < DistToDest[pk][n]
<1> DEFINE n == c.to
           pk == c.packet
           l == Len(trail[pk])
<1>1. /\ pk \in Packet /\ n \in Node /\ c.from \in Node
      /\ trail[pk] \in Seq(Node) /\ l \in Nat \ {0}
      /\ trail \in [Packet -> Seq(Node)]
  BY TrailOfCopy DEF PktTypeOK
<1>2. /\ InterNode(c) \in Node
      /\ DistToDest[pk][InterNode(c)] < DistToDest[pk][n]
  BY <1>1, NextHopCloser DEF Forward, InterNode
<1>3. trail' = [trail EXCEPT ![pk] = Append(@, n)]
  BY DEF Forward
<1>4. c.interNode = c.to
  BY DEF Forward, IsNextHop
<1>5. \A d \in air' \ air :
        /\ d.packet = pk /\ d.from = n /\ d.interNode = InterNode(c)
        /\ d.to \in InRange[n]
        /\ d = [packet |-> pk, interNode |-> InterNode(c),
                from |-> n, to |-> d.to]
  <2>1. PICK h \in Reach(n) : air' = (air \ {c}) \cup Copies(n, pk, InterNode(c), h)
    BY DEF Forward, Consumed
  <2> HIDE DEF n, pk
  <2> QED BY <1>1, <1>2, <2>1, CopyFields
<1>6. \A d \in air \ {c} : d.packet = pk => d.interNode # d.to
  BY <1>1, <1>4 DEF PathInv, SingleCustody, Custody
<1>7. /\ c.from = trail[pk][l]
      /\ DistToDest[pk][n] < DistToDest[pk][c.from]
  BY <1>4 DEF PathInv, CustodyAtHolder, IsNextHop
<1> HIDE DEF n, pk
<1>8. /\ Len(trail'[pk]) = l + 1 /\ trail'[pk][l + 1] = n
      /\ \A i \in 1..l : trail'[pk][i] = trail[pk][i]
      /\ \A r \in Packet : r # pk => trail'[r] = trail[r]
  BY <1>1, <1>3, AppendEntries
<1>9. ASSUME NEW i \in 1..l
      PROVE  DistToDest[pk][n] < DistToDest[pk][trail[pk][i]]
  <2>1. CASE i = l
    BY <1>7, <2>1
  <2>2. CASE i < l
    <3>1. l \in 1..l
      BY <1>1
    <3>2. DistToDest[pk][trail[pk][l]] < DistToDest[pk][trail[pk][i]]
      BY <1>1, <2>2, <3>1 DEF PathInv, LoopFree
    <3>3. /\ DistToDest[pk][n] \in Nat
          /\ DistToDest[pk][trail[pk][l]] \in Nat
          /\ DistToDest[pk][trail[pk][i]] \in Nat
      <4>1. trail[pk][l] \in Node /\ trail[pk][i] \in Node
        BY <1>1, <3>1, SeqEntries
      <4> QED BY <1>1, <4>1
    <3>4. \A x, y, z \in Nat : x < y /\ y < z => x < z
      OBVIOUS
    <3>5. DistToDest[pk][n] < DistToDest[pk][trail[pk][l]]
      BY <1>7
    <3> QED BY ONLY <3>2, <3>3, <3>4, <3>5
  <2> QED BY <1>1, <2>1, <2>2
<1> QED BY <1>1, <1>2, <1>5, <1>6, <1>8, <1>9 DEF n, pk

LEMMA PathForward ==
    ASSUME NbTypeOK, PktTypeOK, PathInv, NEW c \in air, Forward(c),
           pending' = pending
    PROVE  PathInv'
<1> DEFINE n == c.to
           pk == c.packet
           l == Len(trail[pk])
<1>1. /\ l \in Nat \ {0}
      /\ Len(trail'[pk]) = l + 1 /\ trail'[pk][l + 1] = n
      /\ \A i \in 1..l : /\ trail'[pk][i] = trail[pk][i]
                         /\ DistToDest[pk][n] < DistToDest[pk][trail[pk][i]]
      /\ \A r \in Packet : r # pk => trail'[r] = trail[r]
  BY ForwardEffect
<1>2. \A d \in air \ {c} : d.packet = pk => d.interNode # d.to
  BY ForwardEffect
<1>3. \A d \in air' \ air :
        /\ d.packet = pk /\ d.from = n /\ d.interNode = InterNode(c)
        /\ d.to \in InRange[n]
        /\ d = [packet |-> pk, interNode |-> InterNode(c),
                from |-> n, to |-> d.to]
  BY ForwardEffect
<1>4. DistToDest[pk][InterNode(c)] < DistToDest[pk][n]
  BY ForwardEffect
<1>5. /\ pk \in Packet /\ pk \notin pending /\ n \in Node
      /\ \A d \in air : d.packet \in Packet
  BY TrailOfCopy
<1>6. c \notin air'
  <2>1. PICK h \in Reach(c.to) :
          air' = (air \ {c}) \cup Copies(c.to, c.packet, InterNode(c), h)
    BY DEF Forward, Consumed
  <2>2. c.interNode = c.to /\ InterNode(c) # c.to
    BY DEF Forward, IsNextHop, InterNode
  <2>3. \A d \in Copies(c.to, c.packet, InterNode(c), h) :
           d.interNode = InterNode(c)
    BY DEF Copies
  <2> QED BY <2>1, <2>2, <2>3
<1> HIDE DEF n, pk, l
<1>7. CustodyAtHolder'
  <2> SUFFICES ASSUME NEW d \in air'
               PROVE  /\ d.to \in InRange[d.from]
                      /\ \E i \in 1..Len(trail'[d.packet]) :
                            trail'[d.packet][i] = d.from
                      /\ d.interNode = d.to =>
                           /\ d.from = trail'[d.packet][Len(trail'[d.packet])]
                           /\ DistToDest[d.packet][d.to] <
                                DistToDest[d.packet][d.from]
    BY DEF CustodyAtHolder, IsNextHop
  <2>1. CASE d \in air' \ air
    <3>1. d.packet = pk /\ d.from = n
      BY <1>3, <2>1
    <3>2. l + 1 \in 1..Len(trail'[pk])
      BY <1>1
    <3>3. trail'[pk][Len(trail'[pk])] = n
      BY <1>1
    <3>4. d.interNode = d.to => d.to = InterNode(c)
      BY <1>3, <2>1
    <3>5. d.to \in InRange[d.from]
      BY <1>3, <2>1
    <3>6. \E i \in 1..Len(trail'[d.packet]) : trail'[d.packet][i] = d.from
      BY <1>1, <3>1, <3>2
    <3> QED BY <1>4, <3>1, <3>3, <3>4, <3>5, <3>6
  <2>2. CASE d \in air \ {c}
    <3>0. PICK i \in 1..Len(trail[d.packet]) : trail[d.packet][i] = d.from
      BY <2>2 DEF PathInv, CustodyAtHolder
    <3>1. CASE d.packet # pk
      <4>1. trail'[d.packet] = trail[d.packet]
        BY <1>1, <1>5, <2>2, <3>1
      <4> QED BY <2>2, <3>0, <4>1 DEF PathInv, CustodyAtHolder, IsNextHop
    <3>2. CASE d.packet = pk
      <4>1. i \in 1..l
        BY <3>0, <3>2 DEF l
      <4>2. i \in 1..Len(trail'[pk]) /\ trail'[pk][i] = d.from
        BY <1>1, <3>0, <3>2, <4>1
      <4>3. d.to \in InRange[d.from]
        BY <2>2 DEF PathInv, CustodyAtHolder
      <4> QED BY <1>2, <2>2, <3>2, <4>2, <4>3
    <3> QED BY <3>1, <3>2
  <2> QED BY <1>6, <2>1, <2>2
<1>8. FreshPending'
  BY <1>1, <1>5 DEF PathInv, FreshPending, PktTypeOK
<1>9. SingleCustody'
  BY <1>2, <1>3, <1>5, <1>6 DEF PathInv, SingleCustody, Custody
<1>10. LoopFree'
  <2>1. ASSUME NEW i \in 1..Len(trail'[pk]), NEW j \in 1..Len(trail'[pk]), i < j
        PROVE  DistToDest[pk][trail'[pk][j]] < DistToDest[pk][trail'[pk][i]]
    <3>1. i \in 1..l /\ (j \in 1..l \/ j = l + 1)
      BY <1>1, <2>1
    <3>2. CASE j = l + 1
      BY <1>1, <3>1, <3>2
    <3>3. CASE j \in 1..l
      BY <1>1, <1>5, <2>1, <3>1, <3>3 DEF PathInv, LoopFree, l
    <3> QED BY <3>1, <3>2, <3>3
  <2> QED BY <1>1, <1>5, <2>1 DEF PathInv, LoopFree
<1> QED BY <1>7, <1>8, <1>9, <1>10 DEF PathInv

LEMMA PathStep == TypeOK /\ PathInv /\ [Next]_vars => PathInv'
<1> SUFFICES ASSUME TypeOK, PathInv, [Next]_vars PROVE PathInv'
  OBVIOUS
<1>0. NbTypeOK /\ PktTypeOK
  BY DEF TypeOK, PktTypeOK
<1>1. CASE UNCHANGED pktVars
  BY <1>1, FewerCopies DEF pktVars
<1>2. ASSUME NEW pk \in Packet, HandleUpperMsg(pk) PROVE PathInv'
  <2>1. CASE Origin[pk] \in SourceNodes
    BY <1>0, <1>2, <2>1, PathSend
  <2>2. CASE Origin[pk] \notin SourceNodes
    BY <1>2, <2>2, FewerCopies DEF HandleUpperMsg
  <2> QED BY <2>1, <2>2
<1>3. ASSUME NEW c \in air, HandleGreedyPkt(c) PROVE PathInv'
  <2>1. CASE Forward(c)
    BY <1>0, <1>3, <2>1, PathForward DEF HandleGreedyPkt
  <2>2. CASE Discard(c) \/ Deliver(c) \/ GiveUp(c)
    BY <1>3, <2>2, FewerCopies DEF HandleGreedyPkt, Discard, Deliver, GiveUp,
       Consumed
  <2> QED BY <1>3, <2>1, <2>2 DEF HandleGreedyPkt
<1> QED BY <1>1, <1>2, <1>3 DEF Next, vars

(***************************************************************************)
(* At most one copy of a packet obliges its receiver, it comes from the    *)
(* last host of the trail to a closer one, and no host transmits a packet  *)
(* twice (handleUpperMsg, handleLowerMsg, findNextNode), whatever other    *)
(* packets and beacons do meanwhile.                                       *)
(***************************************************************************)
THEOREM PathInvariant == Spec => []PathInv
<1> QED BY PathInit, PathStep, TypeCorrect, PTL DEF Spec

-----------------------------------------------------------------------------
(***************************************************************************)
(* Ends.  A packet that has ended has no custodian, hence none can end it  *)
(* again; one still to be handed down has not ended.                       *)
(***************************************************************************)
\* EndsOnce without its verdicts.
EndedOnce(pk) ==
    /\ Len(stuck[pk]) <= 1
    /\ \A i, j \in NamedReceptions(pk) : i = j
    /\ stuck[pk] # <<>> \/ NamedReceptions(pk) # {} => Custody(pk) = {}
    /\ stuck[pk] # <<>> => NamedReceptions(pk) = {}

AllEndedOnce == \A pk \in Packet : EndedOnce(pk)

FreshEnds == \A pk \in pending : stuck[pk] = <<>> /\ received[pk] = <<>>

EndsInv == AllEndedOnce /\ FreshEnds

LEMMA EndsOnceMeans == AllEndedOnce => EndsOnce
<1>1. \A pk : (Verdict(pk) # "running")
                <=> (stuck[pk] # <<>> \/ NamedReceptions(pk) # {})
  BY DEF Verdict
<1> QED BY <1>1 DEF EndsOnce, AllEndedOnce, EndedOnce

\* Steps that end nothing: whoever has a custodian had one or was to be sent.
LEMMA EndsQuiet ==
    ASSUME PktTypeOK, EndsInv, UNCHANGED <<received, stuck>>,
           pending' \subseteq pending,
           \A c \in air' : c.interNode = c.to =>
              c.packet \in pending \/ Custody(c.packet) # {}
    PROVE  EndsInv'
<1>1. FreshEnds'
  BY DEF EndsInv, FreshEnds
<1>2. \A pk \in Packet : NamedReceptions(pk)' = NamedReceptions(pk)
  BY DEF NamedReceptions
<1>3. ASSUME NEW pk \in Packet, stuck[pk] # <<>> \/ NamedReceptions(pk) # {}
      PROVE  Custody(pk)' = {}
  <2>1. Custody(pk) = {}
    BY <1>3 DEF EndsInv, AllEndedOnce, EndedOnce
  <2>2. pk \notin pending
    <3>1. pk \in pending => stuck[pk] = <<>> /\ received[pk] = <<>>
      BY DEF EndsInv, FreshEnds
    <3>2. received[pk] = <<>> => NamedReceptions(pk) = {}
      BY DEF NamedReceptions
    <3> QED BY <1>3, <3>1, <3>2
  <2> QED BY <2>1, <2>2 DEF Custody
<1>4. AllEndedOnce'
  BY <1>2, <1>3 DEF EndsInv, AllEndedOnce, EndedOnce
<1> QED BY <1>1, <1>4 DEF EndsInv

\* The custodian of a packet is the only one, and nothing has ended it.
LEMMA CustodianEnds ==
    ASSUME PktTypeOK, PathInv, EndsInv, NEW c \in air, c.interNode = c.to
    PROVE  /\ stuck[c.packet] = <<>> /\ NamedReceptions(c.packet) = {}
           /\ Custody(c.packet) = {c}
<1>1. c.packet \in Packet /\ c \in Custody(c.packet)
  BY TrailOfCopy DEF Custody
<1>2. Custody(c.packet) = {c}
  BY <1>1 DEF PathInv, SingleCustody
<1> QED BY <1>1, <1>2 DEF EndsInv, AllEndedOnce, EndedOnce

LEMMA EndsGiveUp ==
    ASSUME PktTypeOK, PathInv, EndsInv, NEW c \in air, GiveUp(c),
           pending' = pending
    PROVE  EndsInv'
<1> DEFINE pk == c.packet
<1>1. /\ stuck[pk] = <<>> /\ NamedReceptions(pk) = {} /\ Custody(pk) = {c}
      /\ pk \in Packet /\ pk \notin pending
  BY CustodianEnds, TrailOfCopy DEF GiveUp, IsNextHop
<1>2. /\ air' = air \ {c} /\ received' = received
      /\ stuck' = [stuck EXCEPT ![pk] = Append(@, c.to)]
  BY DEF GiveUp, Consumed
<1>3. stuck \in [Packet -> Seq(Node)]
  BY DEF PktTypeOK
<1> HIDE DEF pk
<1>4. /\ Len(stuck'[pk]) <= 1
      /\ \A r \in Packet : r # pk => stuck'[r] = stuck[r]
  BY <1>1, <1>2, <1>3
<1>5. FreshEnds'
  BY <1>1, <1>2, <1>4 DEF EndsInv, FreshEnds, PktTypeOK
<1>6. \A r \in Packet : /\ NamedReceptions(r)' = NamedReceptions(r)
                        /\ r = pk => NamedReceptions(r) = {}
  BY <1>1, <1>2 DEF NamedReceptions
<1>7. \A r \in Packet : /\ Custody(r)' \subseteq Custody(r)
                        /\ r = pk => Custody(r)' = {}
  BY <1>1, <1>2 DEF Custody
<1>8. ASSUME NEW r \in Packet PROVE EndedOnce(r)'
  <2>1. CASE r = pk
    <3>1. NamedReceptions(r)' = {} /\ Custody(r)' = {}
      BY <1>6, <1>7, <2>1
    <3>2. Len(stuck'[r]) <= 1
      BY ONLY <1>4, <2>1
    <3> QED BY ONLY <3>1, <3>2 DEF EndedOnce
  <2>2. CASE r # pk
    <3>1. EndedOnce(r)
      BY DEF EndsInv, AllEndedOnce
    <3>2. stuck'[r] = stuck[r]
      BY <1>4, <2>2
    <3>3. NamedReceptions(r)' = NamedReceptions(r)
      BY <1>6
    <3>4. Custody(r)' \subseteq Custody(r)
      BY <1>7
    <3> QED BY ONLY <3>1, <3>2, <3>3, <3>4 DEF EndedOnce
  <2> QED BY <2>1, <2>2
<1>9. AllEndedOnce'
  BY <1>8 DEF AllEndedOnce
<1> QED BY <1>5, <1>9 DEF EndsInv

LEMMA EndsDeliver ==
    ASSUME PktTypeOK, PathInv, EndsInv, NEW c \in air, Deliver(c),
           pending' = pending
    PROVE  EndsInv'
<1> DEFINE pk == c.packet
           l == Len(received[pk])
<1>1. /\ pk \in Packet /\ pk \notin pending /\ c \in Copy
      /\ received \in [Packet -> Seq(Copy)] /\ received[pk] \in Seq(Copy)
  BY TrailOfCopy DEF PktTypeOK
<1>2. /\ air' = air \ {c} /\ stuck' = stuck /\ c.to = DestId[pk]
      /\ received' = [received EXCEPT ![pk] = Append(@, c)]
  BY DEF Deliver, Consumed, IsDest
<1>3. c.interNode = c.to => /\ stuck[pk] = <<>> /\ NamedReceptions(pk) = {}
                            /\ Custody(pk) = {c}
  BY CustodianEnds
<1> HIDE DEF pk
<1>4. /\ l \in Nat /\ Len(received'[pk]) = l + 1 /\ received'[pk][l + 1] = c
      /\ \A i \in 1..l : received'[pk][i] = received[pk][i]
      /\ \A r \in Packet : r # pk => received'[r] = received[r]
  BY <1>1, <1>2, AppendOne
<1>5. \A r \in Packet :
        IF r = pk /\ c.interNode = c.to THEN NamedReceptions(r)' = {l + 1}
        ELSE NamedReceptions(r)' = NamedReceptions(r)
  <2>1. 1..l + 1 = (1..l) \cup {l + 1}
    <3>1. l \in Nat
      BY <1>4
    <3> HIDE DEF l
    <3> QED BY ONLY <3>1
  <2>2. ASSUME NEW r \in Packet, r # pk
        PROVE  NamedReceptions(r)' = NamedReceptions(r)
    BY <1>4, <2>2 DEF NamedReceptions
  <2>3. ASSUME NEW r \in Packet, r = pk
        PROVE  NamedReceptions(r)' =
                 IF c.interNode = c.to THEN {l + 1} ELSE NamedReceptions(r)
    <3>1. NamedReceptions(r)' =
            {i \in (1..l) \cup {l + 1} : received'[pk][i].interNode = DestId[pk]}
      BY <1>4, <2>1, <2>3 DEF NamedReceptions
    <3>2. /\ NamedReceptions(r) =
               {i \in 1..l : received[pk][i].interNode = DestId[pk]}
          /\ c.interNode = c.to => NamedReceptions(r) = {}
      BY <1>3, <2>3 DEF NamedReceptions
    <3> HIDE DEF l
    <3> QED BY <1>2, <1>4, <3>1, <3>2
  <2> QED BY <2>2, <2>3
<1>6. FreshEnds'
  BY <1>1, <1>2, <1>4 DEF EndsInv, FreshEnds, PktTypeOK
<1>7. \A r \in Packet :
        /\ Custody(r)' \subseteq Custody(r)
        /\ r = pk /\ c.interNode = c.to => Custody(r)' = {}
  BY <1>2, <1>3 DEF Custody
<1>8. ASSUME NEW r \in Packet PROVE EndedOnce(r)'
  <2>1. CASE r = pk /\ c.interNode = c.to
    <3>1. /\ NamedReceptions(r)' = {l + 1} /\ Custody(r)' = {}
          /\ stuck'[r] = <<>>
      BY <1>2, <1>3, <1>5, <1>7, <2>1
    <3> QED BY <3>1 DEF EndedOnce
  <2>2. CASE r # pk \/ c.interNode # c.to
    <3>1. EndedOnce(r)
      BY DEF EndsInv, AllEndedOnce
    <3> QED BY <1>2, <1>5, <1>7, <2>2, <3>1 DEF EndedOnce
  <2> QED BY <2>1, <2>2
<1>9. AllEndedOnce'
  BY <1>8 DEF AllEndedOnce
<1> QED BY <1>6, <1>9 DEF EndsInv

LEMMA EndsStep == TypeOK /\ PathInv /\ EndsInv /\ [Next]_vars => EndsInv'
<1> SUFFICES ASSUME TypeOK, PathInv, EndsInv, [Next]_vars PROVE EndsInv'
  OBVIOUS
<1>0. NbTypeOK /\ PktTypeOK
  BY DEF TypeOK, PktTypeOK
<1>1. \A c \in air : c.interNode = c.to => c \in Custody(c.packet)
  BY DEF Custody
<1>2. CASE UNCHANGED pktVars
  BY <1>0, <1>1, <1>2, EndsQuiet DEF pktVars
<1>3. ASSUME NEW pk \in Packet, HandleUpperMsg(pk) PROVE EndsInv'
  <2>1. /\ pk \in pending /\ pending' \subseteq pending
        /\ UNCHANGED <<received, stuck>>
    BY <1>3 DEF HandleUpperMsg
  <2>2. \A c \in air' : c \in air \/ c.packet = pk
    BY <1>3 DEF HandleUpperMsg, Copies
  <2> QED BY <1>0, <1>1, <2>1, <2>2, EndsQuiet
<1>4. ASSUME NEW c \in air, HandleGreedyPkt(c) PROVE EndsInv'
  <2>0. pending' = pending
    BY <1>4 DEF HandleGreedyPkt
  <2>1. CASE Discard(c)
    BY <1>0, <1>1, <2>0, <2>1, EndsQuiet DEF Discard, Consumed
  <2>2. CASE Deliver(c)
    BY <1>0, <2>0, <2>2, EndsDeliver
  <2>3. CASE GiveUp(c)
    BY <1>0, <2>0, <2>3, EndsGiveUp
  <2>4. CASE Forward(c)
    <3>1. \A d \in air' : d \in air \/ d.packet = c.packet
      BY <1>0, <2>4, ForwardEffect
    <3>2. c \in Custody(c.packet) /\ UNCHANGED <<received, stuck>>
      BY <2>4 DEF Forward, IsNextHop, Custody
    <3> QED BY <1>0, <1>1, <2>0, <3>1, <3>2, EndsQuiet
  <2> QED BY <1>4, <2>1, <2>2, <2>3, <2>4 DEF HandleGreedyPkt
<1> QED BY <1>2, <1>3, <1>4 DEF Next, vars

LEMMA EndsInit == Init => EndsInv
<1> SUFFICES ASSUME Init PROVE EndsInv
  OBVIOUS
<1>1. \A pk \in Packet : stuck[pk] = <<>> /\ received[pk] = <<>> /\ air = {}
  BY DEF Init
<1>2. \A pk \in Packet : Custody(pk) = {} /\ NamedReceptions(pk) = {}
  BY <1>1 DEF Custody, NamedReceptions
<1> QED BY <1>1, <1>2 DEF EndsInv, AllEndedOnce, EndedOnce, FreshEnds, Init

(***************************************************************************)
(* A packet ends at most once, stuck or at its destination as next hop     *)
(* (handleLowerMsg), although nothing in a host remembers that it ended.   *)
(***************************************************************************)
THEOREM Ends == Spec => []EndsOnce
<1>1. EndsInv => EndsOnce
  BY EndsOnceMeans DEF EndsInv
<1> QED BY <1>1, EndsInit, EndsStep, TypeCorrect, PathInvariant, PTL DEF Spec

-----------------------------------------------------------------------------
(***************************************************************************)
(* Receptions.  A host transmits a packet once (LoopFree) and puts one     *)
(* copy of it on its way to each host: the sender tells the copies to the  *)
(* destination, in the air and logged, apart.                              *)
(***************************************************************************)
CopyPerSender ==
    \A c, d \in air :
        c.packet = d.packet /\ c.from = d.from /\ c.to = d.to => c = d

LoggedAtDest ==
    \A pk \in Packet : \A i \in 1..Len(received[pk]) :
        /\ received[pk][i].packet = pk
        /\ received[pk][i].to = DestId[pk]

LoggedOnTrail ==
    \A pk \in Packet : \A i \in 1..Len(received[pk]) :
        \E k \in 1..Len(trail[pk]) : trail[pk][k] = received[pk][i].from

LoggedOnce ==
    \A pk \in Packet : \A i, j \in 1..Len(received[pk]) :
        received[pk][i].from = received[pk][j].from => i = j

NotLoggedYet ==
    \A c \in air : c.to = DestId[c.packet] =>
        \A i \in 1..Len(received[c.packet]) : received[c.packet][i].from # c.from

LogInv ==
    CopyPerSender /\ LoggedAtDest /\ LoggedOnTrail /\ LoggedOnce /\ NotLoggedYet

LEMMA LogInit == Init => LogInv
BY DEF Init, LogInv, CopyPerSender, LoggedAtDest, LoggedOnTrail, LoggedOnce,
       NotLoggedYet

LEMMA LogFewerCopies ==
    ASSUME LogInv, air' \subseteq air, UNCHANGED <<trail, received>>
    PROVE  LogInv'
<1>1. CopyPerSender' /\ NotLoggedYet'
  BY DEF LogInv, CopyPerSender, NotLoggedYet
<1>2. LoggedAtDest' /\ LoggedOnTrail' /\ LoggedOnce'
  BY DEF LogInv, LoggedAtDest, LoggedOnTrail, LoggedOnce
<1> QED BY <1>1, <1>2 DEF LogInv

(***************************************************************************)
(* A transmission by a host that is not on the trail of the packet yet:    *)
(* neither a copy in the air nor a logged one is from it.                  *)
(***************************************************************************)
LEMMA LogTransmit ==
    ASSUME PktTypeOK, PathInv, LogInv, NEW pk \in Packet, NEW n,
           \A i \in 1..Len(trail[pk]) : trail[pk][i] # n,
           received' = received,
           \A r \in Packet : \A i \in 1..Len(trail[r]) :
              \E k \in 1..Len(trail'[r]) : trail'[r][k] = trail[r][i],
           \A d \in air' \ air : d.packet = pk /\ d.from = n,
           \A d, e \in air' \ air : d.to = e.to => d = e
    PROVE  LogInv'
<1>1. \A d \in air : d.packet = pk => d.from # n
  <2> SUFFICES ASSUME NEW d \in air, d.packet = pk PROVE d.from # n
    OBVIOUS
  <2>1. PICK i \in 1..Len(trail[d.packet]) : trail[d.packet][i] = d.from
    BY DEF PathInv, CustodyAtHolder
  <2> QED BY <2>1
<1>2. CopyPerSender'
  <2> SUFFICES ASSUME NEW d \in air', NEW e \in air', d.packet = e.packet,
                      d.from = e.from, d.to = e.to
               PROVE  d = e
    BY DEF CopyPerSender
  <2>1. CASE d \in air /\ e \in air
    BY <2>1 DEF LogInv, CopyPerSender
  <2>2. CASE d \notin air \/ e \notin air
    BY <1>1, <2>2
  <2> QED BY <2>1, <2>2
<1>3. LoggedAtDest' /\ LoggedOnTrail'
  <2>1. LoggedAtDest'
    BY DEF LogInv, LoggedAtDest
  <2>2. ASSUME NEW r \in Packet, NEW i \in 1..Len(received[r])
        PROVE  \E k \in 1..Len(trail'[r]) : trail'[r][k] = received[r][i].from
    <3>1. PICK k \in 1..Len(trail[r]) : trail[r][k] = received[r][i].from
      BY DEF LogInv, LoggedOnTrail
    <3> QED BY <3>1
  <2> QED BY <2>1, <2>2 DEF LoggedOnTrail
<1>4. LoggedOnce'
  BY DEF LogInv, LoggedOnce
<1>5. NotLoggedYet'
  <2> SUFFICES ASSUME NEW d \in air', d.to = DestId[d.packet],
                      NEW i \in 1..Len(received[d.packet])
               PROVE  received[d.packet][i].from # d.from
    BY DEF NotLoggedYet
  <2>1. CASE d \in air
    BY <2>1 DEF LogInv, NotLoggedYet
  <2>2. CASE d \notin air
    <3>1. d.packet = pk /\ d.from = n
      BY <2>2
    <3>2. \E k \in 1..Len(trail[pk]) : trail[pk][k] = received[pk][i].from
      BY <3>1 DEF LogInv, LoggedOnTrail
    <3> QED BY <3>1, <3>2
  <2> QED BY <2>1, <2>2
<1> QED BY <1>2, <1>3, <1>4, <1>5 DEF LogInv

LEMMA LogSend ==
    ASSUME NbTypeOK, PktTypeOK, PathInv, LogInv, NEW pk \in Packet,
           HandleUpperMsg(pk), Origin[pk] \in SourceNodes
    PROVE  LogInv'
<1> DEFINE n == Origin[pk]
           next == FindNextNode(n, pk)
<1>1. n \in Node /\ next \in Node
  BY NextHopCloser
<1>2. /\ trail[pk] = <<>> /\ received' = received
      /\ trail' = [trail EXCEPT ![pk] = <<n>>]
      /\ trail \in [Packet -> Seq(Node)]
  BY DEF HandleUpperMsg, PathInv, FreshPending, PktTypeOK
<1>3. \A d \in air' \ air :
        /\ d.packet = pk /\ d.from = n
        /\ d = [packet |-> pk, interNode |-> next, from |-> n, to |-> d.to]
  <2>1. PICK h \in Reach(n) : air' = air \cup Copies(n, pk, next, h)
    BY DEF HandleUpperMsg
  <2> HIDE DEF n, next
  <2> QED BY <1>1, <2>1, CopyFields
<1> HIDE DEF n, next
<1>4. ASSUME NEW r \in Packet, NEW i \in 1..Len(trail[r])
      PROVE  \E k \in 1..Len(trail'[r]) : trail'[r][k] = trail[r][i]
  <2>1. r # pk
    BY <1>2, <1>4
  <2>2. trail'[r] = trail[r]
    BY <1>2, <2>1
  <2> QED BY <2>2
<1>5. \A i \in 1..Len(trail[pk]) : trail[pk][i] # n
  BY <1>2
<1>6. /\ \A d \in air' \ air : d.packet = pk /\ d.from = n
      /\ \A d, e \in air' \ air : d.to = e.to => d = e
      /\ received' = received
  BY <1>2, <1>3
<1> QED BY <1>4, <1>5, <1>6, LogTransmit

LEMMA LogForward ==
    ASSUME NbTypeOK, PktTypeOK, PathInv, LogInv, NEW c \in air, Forward(c)
    PROVE  LogInv'
<1> DEFINE n == c.to
           pk == c.packet
           l == Len(trail[pk])
<1>1. /\ l \in Nat \ {0} /\ Len(trail'[pk]) = l + 1
      /\ \A i \in 1..l : /\ trail'[pk][i] = trail[pk][i]
                         /\ DistToDest[pk][n] < DistToDest[pk][trail[pk][i]]
      /\ \A r \in Packet : r # pk => trail'[r] = trail[r]
      /\ \A d \in air' \ air :
           /\ d.packet = pk /\ d.from = n
           /\ d = [packet |-> pk, interNode |-> InterNode(c),
                   from |-> n, to |-> d.to]
  BY ForwardEffect
<1>2. /\ pk \in Packet /\ n \in Node /\ received' = received
      /\ DistToDest[pk][n] \in Nat
  BY TrailOfCopy DEF Forward
<1> HIDE DEF n, pk
<1>3. \A i \in 1..Len(trail[pk]) : trail[pk][i] # n
  BY <1>1, <1>2
<1>4. ASSUME NEW r \in Packet, NEW i \in 1..Len(trail[r])
      PROVE  \E k \in 1..Len(trail'[r]) : trail'[r][k] = trail[r][i]
  <2>1. CASE r = pk
    <3>1. i \in 1..l /\ i \in 1..Len(trail'[pk])
      BY <1>1, <1>4, <2>1
    <3> QED BY <1>1, <2>1, <3>1
  <2>2. CASE r # pk
    BY <1>1, <2>2
  <2> QED BY <2>1, <2>2
<1>5. /\ \A d \in air' \ air : d.packet = pk /\ d.from = n
      /\ \A d, e \in air' \ air : d.to = e.to => d = e
      /\ received' = received /\ pk \in Packet
  BY <1>1, <1>2
<1> QED BY <1>3, <1>4, <1>5, LogTransmit

LEMMA LogDeliver ==
    ASSUME PktTypeOK, PathInv, LogInv, NEW c \in air, Deliver(c)
    PROVE  LogInv'
<1> DEFINE pk == c.packet
           l == Len(received[pk])
<1>1. /\ pk \in Packet /\ c \in Copy
      /\ received \in [Packet -> Seq(Copy)] /\ received[pk] \in Seq(Copy)
  BY TrailOfCopy DEF PktTypeOK
<1>2. /\ air' = air \ {c} /\ trail' = trail /\ c.to = DestId[pk]
      /\ received' = [received EXCEPT ![pk] = Append(@, c)]
  BY DEF Deliver, Consumed, IsDest
<1>3. /\ \A i \in 1..l : received[pk][i].from # c.from
      /\ \E k \in 1..Len(trail[pk]) : trail[pk][k] = c.from
  BY <1>2 DEF LogInv, NotLoggedYet, PathInv, CustodyAtHolder
<1>4. \A d \in air' : d.packet = pk /\ d.to = DestId[pk] => d.from # c.from
  BY <1>2 DEF LogInv, CopyPerSender
<1>5. c.packet = pk
  OBVIOUS
<1> HIDE DEF pk
<1>6. /\ l \in Nat /\ Len(received'[pk]) = l + 1 /\ received'[pk][l + 1] = c
      /\ \A i \in 1..l : received'[pk][i] = received[pk][i]
      /\ \A r \in Packet : r # pk => received'[r] = received[r]
  BY <1>1, <1>2, AppendOne
<1>7. \A i \in 1..l + 1 : i \in 1..l \/ i = l + 1
  <2>1. l \in Nat
    BY <1>6
  <2> HIDE DEF l
  <2> QED BY ONLY <2>1
<1> HIDE DEF l
<1>8. CopyPerSender'
  BY <1>2 DEF LogInv, CopyPerSender
<1>9. LoggedAtDest' /\ LoggedOnTrail'
  <2>1. ASSUME NEW r \in Packet, NEW i \in 1..Len(received'[r])
        PROVE  \/ r = pk /\ received'[r][i] = c
               \/ i \in 1..Len(received[r]) /\ received'[r][i] = received[r][i]
    <3>1. r = pk => i \in 1..l \/ i = l + 1
      BY <1>6, <1>7, <2>1
    <3> QED BY <1>6, <2>1, <3>1 DEF l
  <2>2. LoggedAtDest'
    <3>1. \A r \in Packet : \A i \in 1..Len(received[r]) :
             received[r][i].packet = r /\ received[r][i].to = DestId[r]
      BY DEF LogInv, LoggedAtDest
    <3>2. \A r \in Packet : \A i \in 1..Len(received'[r]) :
             received'[r][i].packet = r /\ received'[r][i].to = DestId[r]
      BY <1>2, <1>5, <2>1, <3>1
    <3> QED BY <3>2 DEF LoggedAtDest
  <2>3. LoggedOnTrail'
    <3>1. ASSUME NEW r \in Packet, NEW i \in 1..Len(received'[r])
          PROVE  \E k \in 1..Len(trail[r]) : trail[r][k] = received'[r][i].from
      <4>1. CASE r = pk /\ received'[r][i] = c
        BY <1>3, <4>1
      <4>2. CASE /\ i \in 1..Len(received[r])
                 /\ received'[r][i] = received[r][i]
        <5>1. \E k \in 1..Len(trail[r]) : trail[r][k] = received[r][i].from
          BY <4>2 DEF LogInv, LoggedOnTrail
        <5> QED BY <4>2, <5>1
      <4> QED BY <2>1, <3>1, <4>1, <4>2
    <3> QED BY <1>2, <3>1 DEF LoggedOnTrail
  <2> QED BY <2>2, <2>3
<1>10. LoggedOnce'
  <2> SUFFICES ASSUME NEW r \in Packet, NEW i \in 1..Len(received'[r]),
                      NEW j \in 1..Len(received'[r]),
                      received'[r][i].from = received'[r][j].from
               PROVE  i = j
    BY DEF LoggedOnce
  <2>1. CASE r # pk
    BY <1>6, <2>1 DEF LogInv, LoggedOnce
  <2>2. CASE r = pk
    <3>1. i \in 1..l + 1 /\ j \in 1..l + 1
      BY <1>6, <2>2
    <3>2. CASE i \in 1..l /\ j \in 1..l
      BY <1>1, <1>6, <2>2, <3>2 DEF LogInv, LoggedOnce, l
    <3>3. CASE i = l + 1 /\ j \in 1..l
      BY <1>3, <1>6, <2>2, <3>3
    <3>4. CASE i \in 1..l /\ j = l + 1
      BY <1>3, <1>6, <2>2, <3>4
    <3> QED BY <1>7, <3>1, <3>2, <3>3, <3>4
  <2> QED BY <2>1, <2>2
<1>11. NotLoggedYet'
  <2> SUFFICES ASSUME NEW d \in air', d.to = DestId[d.packet],
                      NEW i \in 1..Len(received'[d.packet])
               PROVE  received'[d.packet][i].from # d.from
    BY DEF NotLoggedYet
  <2>0. d \in air /\ d.packet \in Packet
    BY <1>2, TrailOfCopy
  <2>1. CASE d.packet # pk
    BY <1>6, <2>0, <2>1 DEF LogInv, NotLoggedYet
  <2>2. CASE d.packet = pk /\ i = l + 1
    <3>1. received'[d.packet][i] = c
      BY <1>6, <2>2
    <3>2. d.from # c.from
      BY <1>4, <2>2
    <3> QED BY <3>1, <3>2
  <2>3. CASE d.packet = pk /\ i \in 1..l
    <3>1. received'[d.packet][i] = received[d.packet][i]
      BY <1>6, <2>3
    <3>2. i \in 1..Len(received[d.packet])
      BY <2>3 DEF l
    <3> QED BY <2>0, <3>1, <3>2 DEF LogInv, NotLoggedYet
  <2>4. d.packet = pk => i \in 1..l \/ i = l + 1
    BY <1>6, <1>7
  <2> QED BY <2>1, <2>2, <2>3, <2>4
<1> QED BY <1>8, <1>9, <1>10, <1>11 DEF LogInv

LEMMA LogStep == TypeOK /\ PathInv /\ LogInv /\ [Next]_vars => LogInv'
<1> SUFFICES ASSUME TypeOK, PathInv, LogInv, [Next]_vars PROVE LogInv'
  OBVIOUS
<1>0. NbTypeOK /\ PktTypeOK
  BY DEF TypeOK, PktTypeOK
<1>1. CASE UNCHANGED pktVars
  BY <1>1, LogFewerCopies DEF pktVars
<1>2. ASSUME NEW pk \in Packet, HandleUpperMsg(pk) PROVE LogInv'
  <2>1. CASE Origin[pk] \in SourceNodes
    BY <1>0, <1>2, <2>1, LogSend
  <2>2. CASE Origin[pk] \notin SourceNodes
    BY <1>2, <2>2, LogFewerCopies DEF HandleUpperMsg
  <2> QED BY <2>1, <2>2
<1>3. ASSUME NEW c \in air, HandleGreedyPkt(c) PROVE LogInv'
  <2>1. CASE Forward(c)
    BY <1>0, <2>1, LogForward
  <2>2. CASE Deliver(c)
    BY <1>0, <2>2, LogDeliver
  <2>3. CASE Discard(c) \/ GiveUp(c)
    BY <2>3, LogFewerCopies DEF Discard, GiveUp, Consumed
  <2> QED BY <1>3, <2>1, <2>2, <2>3 DEF HandleGreedyPkt
<1> QED BY <1>1, <1>2, <1>3 DEF Next, vars

(***************************************************************************)
(* The destination logs a packet at most once for each transmission of it  *)
(* (handleLowerMsg logs every copy it hears, overheard or addressed).      *)
(***************************************************************************)
THEOREM Receptions == Spec => []ReceivedPerTransmission
<1>1. LogInv => ReceivedPerTransmission
  <2> SUFFICES ASSUME LogInv PROVE ReceivedPerTransmission
    OBVIOUS
  <2>1. ASSUME NEW pk \in Packet, NEW i \in 1..Len(received[pk])
        PROVE  received[pk][i] \notin air
    <3> DEFINE c == received[pk][i]
    <3>1. c.packet = pk /\ c.to = DestId[pk]
      BY DEF LogInv, LoggedAtDest
    <3>2. c \in air => \A j \in 1..Len(received[pk]) : received[pk][j].from # c.from
      <4> HIDE DEF c
      <4> QED BY <3>1 DEF LogInv, NotLoggedYet
    <3> QED BY <3>2
  <2> QED BY <2>1 DEF LogInv, LoggedOnTrail, LoggedOnce, ReceivedPerTransmission
<1> QED BY <1>1, LogInit, LogStep, TypeCorrect, PathInvariant, PTL DEF Spec

-----------------------------------------------------------------------------
(***************************************************************************)
(* Refinement.  For one packet: handleUpperMsg of a source is Start, a     *)
(* next hop that forwards is Hop, one that gives up is GiveUp, the         *)
(* destination named in the copy is Arrive; everything else shows nothing. *)
(***************************************************************************)
PathStepOf(pk) == [PathOf(pk)!Next]_(PathOf(pk)!vars)

LEMMA NothingShown ==
    ASSUME NEW pk, trail'[pk] = trail[pk], Verdict(pk)' = Verdict(pk)
    PROVE  PathStepOf(pk)
BY DEF PathStepOf, PathOf!vars

\* Whoever holds a packet that must act on it: it has not ended, and the
\* host it is at heard the last host of its trail and is closer than it.
LEMMA CustodianHop ==
    ASSUME PktTypeOK, PathInv, EndsInv, NEW c \in air, IsNextHop(c)
    PROVE  LET pk == c.packet
               last == trail[pk][Len(trail[pk])]
           IN  /\ pk \in Packet /\ c.to \in Node
               /\ trail[pk] # <<>> /\ c.to \in InRange[last]
               /\ DistToDest[pk][c.to] < DistToDest[pk][last]
               /\ Len(trail[pk]) \in 1..Len(trail[pk])
               /\ Verdict(pk) = "running"
<1>1. /\ c.packet \in Packet /\ c.to \in Node
      /\ Len(trail[c.packet]) \in Nat \ {0}
  BY TrailOfCopy
<1>2. /\ c.to \in InRange[c.from]
      /\ c.from = trail[c.packet][Len(trail[c.packet])]
      /\ DistToDest[c.packet][c.to] < DistToDest[c.packet][c.from]
  BY DEF PathInv, CustodyAtHolder
<1>3. stuck[c.packet] = <<>> /\ NamedReceptions(c.packet) = {}
  BY CustodianEnds DEF IsNextHop
<1>4. trail[c.packet] # <<>> /\ Len(trail[c.packet]) \in 1..Len(trail[c.packet])
  BY <1>1
<1>5. Verdict(c.packet) = "running"
  BY <1>3 DEF Verdict
<1> QED BY <1>1, <1>2, <1>4, <1>5

LEMMA SentPath ==
    ASSUME PktTypeOK, PathInv, EndsInv, NEW pk \in Packet, HandleUpperMsg(pk),
           NEW r \in Packet
    PROVE  PathStepOf(r)
<1>1. Verdict(r)' = Verdict(r)
  BY DEF HandleUpperMsg, Verdict, NamedReceptions
<1>2. CASE r = pk /\ Origin[pk] \in SourceNodes
  <2>1. trail' = [trail EXCEPT ![pk] = <<Origin[pk]>>] /\ pk \in pending
    BY <1>2 DEF HandleUpperMsg
  <2>2. trail[pk] = <<>> /\ stuck[pk] = <<>> /\ received[pk] = <<>>
    BY <2>1 DEF PathInv, FreshPending, EndsInv, FreshEnds
  <2>3. Verdict(pk) = "running"
    BY <2>2 DEF Verdict, NamedReceptions
  <2>4. trail'[pk] = <<Origin[pk]>>
    BY <2>1 DEF PktTypeOK
  <2>5. PathOf(pk)!Start(pk)
    BY <1>1, <1>2, <2>2, <2>4 DEF PathOf!Start
  <2> QED BY <1>2, <2>3, <2>5 DEF PathStepOf, PathOf!Next
<1>3. CASE r # pk \/ Origin[pk] \notin SourceNodes
  <2>1. trail'[r] = trail[r]
    BY <1>3 DEF HandleUpperMsg, PktTypeOK
  <2> QED BY <1>1, <2>1, NothingShown
<1> QED BY <1>2, <1>3

LEMMA ForwardPath ==
    ASSUME NbTypeOK, PktTypeOK, PathInv, EndsInv, NEW c \in air, Forward(c),
           NEW r \in Packet
    PROVE  PathStepOf(r)
<1>1. Verdict(r)' = Verdict(r)
  BY DEF Forward, Verdict, NamedReceptions
<1>2. trail' = [trail EXCEPT ![c.packet] = Append(@, c.to)] /\ IsNextHop(c)
  BY DEF Forward
<1>3. trail \in [Packet -> Seq(Node)]
  BY DEF PktTypeOK
<1>4. CASE r # c.packet
  <2>1. trail'[r] = trail[r]
    BY <1>2, <1>3, <1>4
  <2> QED BY <1>1, <2>1, NothingShown
<1>5. CASE r = c.packet
  <2>1. trail'[r] = Append(trail[r], c.to)
    BY <1>2, <1>3, <1>5
  <2>2. PathOf(r)!Hop(r, c.to)
    BY <1>1, <1>2, <1>5, <2>1, CustodianHop
       DEF PathOf!Hop, PathOf!Holder, PathOf!Closer
  <2> QED BY <1>2, <1>5, <2>2, CustodianHop DEF PathStepOf, PathOf!Next
<1> QED BY <1>4, <1>5

LEMMA GiveUpPath ==
    ASSUME PktTypeOK, PathInv, EndsInv, NEW c \in air, GiveUp(c),
           NEW r \in Packet
    PROVE  PathStepOf(r)
<1>1. /\ stuck' = [stuck EXCEPT ![c.packet] = Append(@, c.to)]
      /\ trail' = trail /\ received' = received /\ IsNextHop(c)
  BY DEF GiveUp
<1>2. stuck \in [Packet -> Seq(Node)] /\ c.to \in Node
  BY TrailOfCopy DEF PktTypeOK
<1>3. CASE r # c.packet
  <2>1. stuck'[r] = stuck[r]
    BY <1>1, <1>2, <1>3
  <2>2. Verdict(r)' = Verdict(r)
    BY <1>1, <2>1 DEF Verdict, NamedReceptions
  <2> QED BY <1>1, <2>2, NothingShown
<1>4. CASE r = c.packet
  <2>1. stuck'[r] # <<>>
    <3>1. stuck'[r] = Append(stuck[r], c.to) /\ stuck[r] \in Seq(Node)
      BY <1>1, <1>2, <1>4
    <3>2. Len(stuck'[r]) = Len(stuck[r]) + 1 /\ Len(stuck[r]) \in Nat
      BY ONLY <1>2, <3>1, AppendOne
    <3>3. Len(stuck'[r]) # 0
      BY <3>2
    <3> QED BY <3>3
  <2>2. Verdict(r)' = "stuck"
    BY <2>1 DEF Verdict
  <2>3. PathOf(r)!GiveUp(r, c.to)
    BY <1>1, <1>4, <2>2, CustodianHop
       DEF PathOf!GiveUp, PathOf!Holder, PathOf!Closer
  <2> QED BY <1>1, <1>4, <2>3, CustodianHop DEF PathStepOf, PathOf!Next
<1> QED BY <1>3, <1>4

\* The receptions as next hop that Deliver leaves.
LEMMA DeliverReceptions ==
    ASSUME PktTypeOK, PathInv, NEW c \in air, Deliver(c), NEW r \in Packet
    PROVE  /\ r = c.packet /\ IsNextHop(c) => NamedReceptions(r)' # {}
           /\ r # c.packet \/ ~ IsNextHop(c) =>
                NamedReceptions(r)' = NamedReceptions(r)
<1> DEFINE pk == c.packet
           l == Len(received[pk])
<1>1. /\ c \in Copy /\ received[pk] \in Seq(Copy)
      /\ received' = [received EXCEPT ![pk] = Append(@, c)]
      /\ received \in [Packet -> Seq(Copy)] /\ pk \in Packet
      /\ c.to = DestId[pk]
  BY TrailOfCopy DEF PktTypeOK, Deliver, IsDest
<1> HIDE DEF pk
<1>2. /\ l \in Nat /\ Len(received'[pk]) = l + 1 /\ received'[pk][l + 1] = c
      /\ \A i \in 1..l : received'[pk][i] = received[pk][i]
      /\ \A x \in Packet : x # pk => received'[x] = received[x]
  BY <1>1, AppendOne
<1>3. \A i \in Int : i \in 1..l + 1 <=> i \in 1..l \/ i = l + 1
  <2> HIDE DEF l
  <2> QED BY ONLY <1>2
<1>4. CASE r # pk
  BY <1>2, <1>4 DEF NamedReceptions, pk
<1>5. CASE r = pk /\ ~ IsNextHop(c)
  <2>1. \A i \in Int : i \in NamedReceptions(r)' <=> i \in NamedReceptions(r)
    <3> SUFFICES ASSUME NEW i \in Int
                 PROVE  i \in NamedReceptions(r)' <=> i \in NamedReceptions(r)
      OBVIOUS
    <3>1. CASE i = l + 1
      <4>1. received'[r][i].interNode # DestId[r]
        BY <1>1, <1>2, <1>5, <3>1 DEF IsNextHop
      <4>2. i \notin 1..l
        BY ONLY <1>2, <3>1
      <4> QED BY <1>5, <4>1, <4>2 DEF NamedReceptions, l
    <3>2. CASE i # l + 1
      BY <1>2, <1>3, <1>5, <3>2 DEF NamedReceptions, l
    <3> QED BY <3>1, <3>2
  <2>2. NamedReceptions(r)' \subseteq Int /\ NamedReceptions(r) \subseteq Int
    BY DEF NamedReceptions
  <2>3. NamedReceptions(r)' = NamedReceptions(r)
    BY <2>1, <2>2
  <2> QED BY <1>5, <2>3 DEF pk
<1>6. CASE r = pk /\ IsNextHop(c)
  <2>1. l + 1 \in 1..Len(received'[r])
    BY <1>2, <1>6
  <2>2. received'[r][l + 1].interNode = DestId[r]
    BY <1>1, <1>2, <1>6 DEF IsNextHop
  <2> QED BY <1>6, <2>1, <2>2 DEF NamedReceptions, pk
<1> QED BY <1>4, <1>5, <1>6

LEMMA DeliverPath ==
    ASSUME PktTypeOK, PathInv, EndsInv, NEW c \in air, Deliver(c),
           NEW r \in Packet
    PROVE  PathStepOf(r)
<1>1. trail' = trail /\ stuck' = stuck /\ c.to = DestId[c.packet]
  BY DEF Deliver, IsDest
<1>2. CASE r # c.packet \/ ~ IsNextHop(c)
  <2>1. Verdict(r)' = Verdict(r)
    BY <1>1, <1>2, DeliverReceptions DEF Verdict
  <2> QED BY <1>1, <2>1, NothingShown
<1>3. CASE r = c.packet /\ IsNextHop(c)
  <2>1. stuck[r] = <<>>
    BY <1>3, CustodianEnds DEF IsNextHop
  <2>2. NamedReceptions(r)' # {}
    BY <1>3, DeliverReceptions
  <2>3. Verdict(r)' = "arrived"
    BY <1>1, <2>1, <2>2 DEF Verdict
  <2>4. PathOf(r)!Arrive(r)
    BY <1>1, <1>3, <2>3, CustodianHop DEF PathOf!Arrive
  <2> QED BY <1>3, <2>4, CustodianHop DEF PathStepOf, PathOf!Next
<1> QED BY <1>2, <1>3

LEMMA RefinementInit ==
    ASSUME NEW pk \in Packet, Init
    PROVE  PathOf(pk)!Init
BY DEF Init, PathOf!Init, Verdict, NamedReceptions

LEMMA RefinementStep ==
    TypeOK /\ PathInv /\ EndsInv /\ [Next]_vars
        => \A pk \in Packet : [PathOf(pk)!Next]_(PathOf(pk)!vars)
<1> SUFFICES ASSUME TypeOK, PathInv, EndsInv, [Next]_vars, NEW r \in Packet
             PROVE  PathStepOf(r)
  BY DEF PathStepOf
<1>0. NbTypeOK /\ PktTypeOK
  BY DEF TypeOK, PktTypeOK
<1>1. CASE UNCHANGED pktVars
  BY <1>1, NothingShown DEF pktVars, Verdict, NamedReceptions
<1>2. ASSUME NEW pk \in Packet, HandleUpperMsg(pk) PROVE PathStepOf(r)
  BY <1>0, <1>2, SentPath
<1>3. ASSUME NEW c \in air, HandleGreedyPkt(c) PROVE PathStepOf(r)
  <2>1. CASE Discard(c)
    BY <2>1, NothingShown DEF Discard, Verdict, NamedReceptions
  <2>2. CASE Deliver(c) \/ GiveUp(c) \/ Forward(c)
    BY <1>0, <2>2, DeliverPath, GiveUpPath, ForwardPath
  <2> QED BY <1>3, <2>1, <2>2 DEF HandleGreedyPkt
<1> QED BY <1>1, <1>2, <1>3 DEF Next, vars

\* EndsInv holds throughout.
LEMMA EndsInvariant == Spec => []EndsInv
<1> QED BY EndsInit, EndsStep, TypeCorrect, PathInvariant, PTL DEF Spec

(***************************************************************************)
(* Each packet of GeoRouting implements GreedyPath on its own: the         *)
(* handlers of GeoRouting/GeoBasic.cc, other packets, overheard copies,    *)
(* beacons and losses only show its greedy path and its end.               *)
(***************************************************************************)
THEOREM Refinement == Spec => ImplementsGreedyPath
<1>1. Init => \A pk \in Packet : PathOf(pk)!Init
  BY RefinementInit
<1> QED BY <1>1, RefinementStep, TypeCorrect, PathInvariant, EndsInvariant, PTL
        DEF Spec, ImplementsGreedyPath

-----------------------------------------------------------------------------
(***************************************************************************)
(* Overhearing.  In the configurations the point a packet is routed to is  *)
(* the position of its destination, and no other host stands there.        *)
(***************************************************************************)
DestIsNearest ==
    \A pk \in Packet : \A n \in Node \ {DestId[pk]} :
        DistToDest[pk][DestId[pk]] < DistToDest[pk][n]

\* Who has the destination in its table names it.
LEMMA NamesTheDestination ==
    ASSUME DestIsNearest, NbTypeOK, NEW pk \in Packet,
           NEW n \in Node \ {DestId[pk]}, DestId[pk] \in Heard(n)
    PROVE  FindNextNode(n, pk) = DestId[pk]
<1> DEFINE t == nbTable[n]
           D == DistToDest[pk]
           d == DestId[pk]
<1>1. t \in Seq(Node) /\ D \in [Node -> Nat] /\ n \in Node /\ d \in Node
  BY DEF NbTypeOK
<1>2. FindNextNode(n, pk) = ChoiceOf(D, n, t)
  BY FindNextIsChoice
<1>3. PICK k \in 1..Len(t) : t[k] = d
  BY DEF Heard
<1>4. D[d] < D[n] /\ \A x \in Node \ {d} : D[d] < D[x]
  BY DEF DestIsNearest
<1> HIDE DEF t, D, d
<1>5. k \in CloserOf(D, n, t)
  BY <1>3, <1>4 DEF CloserOf
<1>6. PICK i : i \in NearestOf(D, n, t)
  <2>1. CloserOf(D, n, t) # {}
    BY <1>5
  <2>2. NearestOf(D, n, t) # {}
    BY ONLY <1>1, <2>1, NearestExists
  <2> QED BY <2>2
<1>7. /\ i \in 1..Len(t) /\ ChoiceOf(D, n, t) = t[i]
      /\ D[t[i]] < D[t[k]] \/ D[t[i]] = D[t[k]]
  <2>1. D \in [Node -> Nat] /\ n \in Node /\ t \in Seq(Node)
    BY <1>1
  <2>2. \A x \in NearestOf(D, n, t) :
          /\ x \in 1..Len(t) /\ ChoiceOf(D, n, t) = t[x]
          /\ \A j \in CloserOf(D, n, t) :
                D[t[x]] < D[t[j]] \/ (D[t[x]] = D[t[j]] /\ x <= j)
    BY ONLY <2>1, NearestUnique
  <2> QED BY ONLY <1>5, <1>6, <2>2
<1>8. t[i] \in Node
  BY ONLY <1>1, <1>7, SeqEntries
<1>9. t[i] = d
  <2> SUFFICES ASSUME t[i] # d PROVE FALSE
    OBVIOUS
  <2>1. D[d] < D[t[i]]
    BY <1>4, <1>8
  <2>2. D[d] \in Nat /\ D[t[i]] \in Nat
    BY <1>1, <1>8
  <2> QED BY <1>3, <1>7, <2>1, <2>2
<1> QED BY <1>2, <1>7, <1>9 DEF d

\* A copy that its sender addressed by its table.
LEMMA OverheardCopy ==
    ASSUME DestIsNearest, NbTypeOK, NEW n \in Node, NEW pk \in Packet,
           NEW heard \in Reach(n),
           NEW c \in Copies(n, pk, FindNextNode(n, pk), heard),
           IsDest(c), ~ IsNextHop(c)
    PROVE  DestId[c.packet] \notin Heard(c.from)
<1>1. FindNextNode(n, pk) \in Node
  BY NextHopCloser
<1>2. /\ c.packet = pk /\ c.interNode = FindNextNode(n, pk) /\ c.from = n
      /\ c.to # n
  BY <1>1, CopyFields
<1>3. c.to = DestId[pk] /\ c.interNode # c.to
  BY <1>2 DEF IsDest, IsNextHop
<1> QED BY <1>2, <1>3, NamesTheDestination

(***************************************************************************)
(* The destination overhears a packet meant for another host only from a   *)
(* host that has not heard its beacon (findNextNode, handleLowerMsg), if   *)
(* it stands at the point its packets are routed to, and nobody else does. *)
(***************************************************************************)
THEOREM Overheard == ASSUME DestIsNearest PROVE Spec => OverheardFromUnaware
<1> DEFINE A == \A c \in air' \ air :
                  IsDest(c) /\ ~ IsNextHop(c) => DestId[c.packet] \notin Heard(c.from)
<1>1. ASSUME TypeOK, [Next]_vars PROVE [A]_vars
  <2> SUFFICES ASSUME NEW c \in air' \ air, IsDest(c), ~ IsNextHop(c)
               PROVE  DestId[c.packet] \notin Heard(c.from)
    OBVIOUS
  <2>0. NbTypeOK /\ PktTypeOK
    BY <1>1 DEF TypeOK, PktTypeOK
  <2>1. CASE air' \subseteq air
    BY <2>1
  <2>2. ASSUME NEW pk \in Packet, HandleUpperMsg(pk), ~ (air' \subseteq air)
        PROVE  DestId[c.packet] \notin Heard(c.from)
    <3>1. PICK h \in Reach(Origin[pk]) :
            air' = air \cup Copies(Origin[pk], pk, FindNextNode(Origin[pk], pk), h)
      BY <2>2 DEF HandleUpperMsg
    <3>2. /\ c \in Copies(Origin[pk], pk, FindNextNode(Origin[pk], pk), h)
          /\ Origin[pk] \in Node
      BY <3>1
    <3> QED BY <2>0, <3>2, OverheardCopy
  <2>3. ASSUME NEW e \in air, HandleGreedyPkt(e), ~ (air' \subseteq air)
        PROVE  DestId[c.packet] \notin Heard(c.from)
    <3>1. e.to \in Node /\ e.packet \in Packet
      BY <2>0 DEF PktTypeOK, Copy
    <3>2. Forward(e)
      BY <2>3 DEF HandleGreedyPkt, Discard, Deliver, GiveUp, Consumed
    <3>3. PICK h \in Reach(e.to) :
            air' = (air \ {e}) \cup
                     Copies(e.to, e.packet, FindNextNode(e.to, e.packet), h)
      BY <3>2 DEF Forward, Consumed, InterNode
    <3>4. c \in Copies(e.to, e.packet, FindNextNode(e.to, e.packet), h)
      BY <3>3
    <3> QED BY <2>0, <3>1, <3>4, OverheardCopy
  <2> QED BY <1>1, <2>1, <2>2, <2>3 DEF Next, vars, pktVars
<1>2. TypeOK /\ [Next]_vars => [A]_vars
  BY <1>1
<1>3. OverheardFromUnaware <=> [][A]_vars
  BY DEF OverheardFromUnaware
<1> HIDE DEF A
<1> QED BY <1>2, <1>3, TypeCorrect, PTL DEF Spec

=============================================================================
