-------------------------- MODULE GeoPlusLineProofs --------------------------
(***************************************************************************)
(* The line forwarding of GeoPlus is greedy too: whatever the lines, the   *)
(* next hop is closer, and what was proved of the packets of GeoBasic from *)
(* that alone holds of the packets of GeoPlus.                             *)
(***************************************************************************)
EXTENDS GeoPlusLine, GeoBasicProofs

USE GeoNeighborsAssumption, GeoBasicAssumption, GeoPlusLineAssumption

\* findNextNode names the host itself or a closer one, for any stored line.
LEMMA NextOnLineCloser ==
    ASSUME NbTypeOK, NEW n \in Node, NEW p \in Packet, NEW l
    PROVE  NextOnLine(n, p, l) \in Node /\ CloserNext(n, p, NextOnLine(n, p, l))
<1>0. nbTable[n] \in Seq(Node)
  BY DEF NbTypeOK
<1>1. CASE NearestToLine(n, p, l) = {}
  BY <1>1 DEF NextOnLine, CloserNext
<1>2. CASE NearestToLine(n, p, l) # {}
  <2> DEFINE i == CHOOSE k \in NearestToLine(n, p, l) : TRUE
  <2>1. i \in NearestToLine(n, p, l)
    BY <1>2
  <2>2. /\ i \in 1..Len(nbTable[n])
        /\ DistToDest[p][nbTable[n][i]] < DistToDest[p][n]
    BY <2>1 DEF NearestToLine, WithinEntries, CloserEntries
  <2>3. NextOnLine(n, p, l) = nbTable[n][i]
    BY <1>2 DEF NextOnLine
  <2>4. \A k \in 1..Len(nbTable[n]) : nbTable[n][k] \in Node
    BY <1>0, SeqEntries
  <2> QED BY <2>2, <2>3, <2>4 DEF CloserNext
<1> QED BY <1>1, <1>2

-----------------------------------------------------------------------------
PlusTypeInv == /\ TypeInv
               /\ baseLine \in [Node -> Packet \cup {NoLine}]
               /\ failed \in BOOLEAN

LEMMA PlusTypeInit == PlusInit => PlusTypeInv
BY TypeInit DEF PlusInit, PlusTypeInv

LEMMA PlusTypeStep == PlusTypeInv /\ [PlusNext]_plusVars => PlusTypeInv'
<1> SUFFICES ASSUME PlusTypeInv, [PlusNext]_plusVars PROVE PlusTypeInv'
  OBVIOUS
<1>0. /\ NbTypeInv /\ NbTypeOK /\ PktTypeOK
      /\ baseLine \in [Node -> Packet \cup {NoLine}] /\ failed \in BOOLEAN
  BY DEF PlusTypeInv, TypeInv, NbTypeInv
<1>1. ASSUME NEW n \in Node, HandleSelfMsg(n),
             UNCHANGED <<pktVars, baseLine, failed>>
      PROVE  PlusTypeInv'
  BY <1>0, <1>1, NbTypeSend, PktTypeStutter DEF PlusTypeInv, TypeInv
<1>2. ASSUME NEW n \in Node, NEW m \in Node, PlusHandleNbBroadcast(n, m)
      PROVE  PlusTypeInv'
  BY <1>0, <1>2, NbTypeHear, PktTypeStutter
     DEF PlusHandleNbBroadcast, PlusTypeInv, TypeInv
<1>3. ASSUME NEW p \in Packet, PlusHandleUpperMsg(p)
      PROVE  PlusTypeInv'
  <2>1. NbTypeInv'
    BY <1>0, <1>3, NbTypeStutter DEF PlusHandleUpperMsg
  <2>2. /\ pending' \subseteq pending /\ outcome' = outcome /\ failed' = failed
        /\ Origin[p] \in Node
    BY <1>3 DEF PlusHandleUpperMsg
  <2>3. CASE InWindow(Origin[p])
    <3>1. /\ SendFirst(p, NextOnLine(Origin[p], p, baseLine'[Origin[p]]))
          /\ baseLine' = [baseLine EXCEPT ![Origin[p]] = p]
      BY <1>3, <2>3 DEF PlusHandleUpperMsg, StoreLine
    <3>2. NextOnLine(Origin[p], p, baseLine'[Origin[p]]) \in Node
      BY <1>0, <2>2, NextOnLineCloser
    <3>3. PktTypeOK'
      BY <1>0, <2>2, <3>1, <3>2, TypeSendFirst
    <3>4. baseLine' \in [Node -> Packet \cup {NoLine}]
      BY <1>0, <3>1
    <3> QED BY <1>0, <2>1, <2>2, <3>3, <3>4 DEF PlusTypeInv, TypeInv
  <2>4. CASE ~ InWindow(Origin[p])
    <3>1. UNCHANGED <<baseLine, air, trail>>
      BY <1>3, <2>4 DEF PlusHandleUpperMsg
    <3> QED BY <1>0, <2>1, <2>2, <3>1 DEF PlusTypeInv, TypeInv, PktTypeOK
  <2> QED BY <2>3, <2>4
<1>4. ASSUME NEW c \in air, HandleGreedyPlusPkt(c)
      PROVE  PlusTypeInv'
  <2>1. c.to \in Node /\ c.packet \in Packet
    BY <1>0 DEF PktTypeOK, Copy
  <2>2. NextOnLine(c.to, c.packet, baseLine'[c.to]) \in Node
    BY <1>0, <2>1, NextOnLineCloser
  <2>3. PktTypeOK'
    BY <1>0, <1>4, <2>2, TypeReceive DEF HandleGreedyPlusPkt
  <2>4. baseLine' \in [Node -> Packet \cup {NoLine}]
    BY <1>0, <1>4, <2>1 DEF HandleGreedyPlusPkt, StoreLine
  <2> QED BY <1>0, <1>4, <2>3, <2>4, NbTypeStutter
          DEF HandleGreedyPlusPkt, PlusTypeInv, TypeInv
<1>5. CASE UNCHANGED plusVars
  BY <1>0, <1>5, NbTypeStutter, PktTypeStutter
     DEF plusVars, vars, PlusTypeInv, TypeInv
<1> QED BY <1>1, <1>2, <1>3, <1>4, <1>5 DEF PlusNext

\* Type correctness of GeoPlus: as GeoBasic, and a stored line is a packet's.
THEOREM PlusTypeCorrect == PlusSpec => []PlusTypeOK
<1>1. PlusTypeInv => PlusTypeOK
  BY DEF PlusTypeInv, TypeInv, PlusTypeOK, TypeOK, NbTypeInv
<1> QED BY <1>1, PlusTypeInit, PlusTypeStep, PTL DEF PlusSpec

-----------------------------------------------------------------------------
LEMMA PlusPathStep == PlusTypeOK /\ PathInv /\ [PlusNext]_plusVars => PathInv'
<1> SUFFICES ASSUME PlusTypeOK, PathInv, [PlusNext]_plusVars PROVE PathInv'
  OBVIOUS
<1>0. NbTypeOK /\ PktTypeOK
  BY DEF PlusTypeOK, TypeOK
<1>1. CASE UNCHANGED pktVars
  BY <1>1, FewerCopies DEF pktVars
<1>2. ASSUME NEW p \in Packet, PlusHandleUpperMsg(p) PROVE PathInv'
  <2>1. p \in pending /\ pending' = pending \ {p}
    BY <1>2 DEF PlusHandleUpperMsg
  <2>2. CASE InWindow(Origin[p])
    <3> DEFINE next == NextOnLine(Origin[p], p, baseLine'[Origin[p]])
    <3>1. next \in Node /\ CloserNext(Origin[p], p, next)
      BY <1>0, NextOnLineCloser
    <3>2. SendFirst(p, next)
      BY <1>2, <2>2 DEF PlusHandleUpperMsg
    <3> QED BY <1>0, <2>1, <3>1, <3>2, PathSendFirst
  <2>3. CASE ~ InWindow(Origin[p])
    <3>1. UNCHANGED <<air, trail>>
      BY <1>2, <2>3 DEF PlusHandleUpperMsg
    <3> QED BY <2>1, <3>1, FewerCopies
  <2> QED BY <2>2, <2>3
<1>3. ASSUME NEW c \in air, HandleGreedyPlusPkt(c) PROVE PathInv'
  <2> DEFINE next == NextOnLine(c.to, c.packet, baseLine'[c.to])
  <2>1. c.to \in Node /\ c.packet \in Packet
    BY <1>0 DEF PktTypeOK, Copy
  <2>2. next \in Node /\ CloserNext(c.to, c.packet, next)
    BY <1>0, <2>1, NextOnLineCloser
  <2> QED BY <1>0, <1>3, <2>2, PathReceive DEF HandleGreedyPlusPkt
<1> QED BY <1>1, <1>2, <1>3
        DEF PlusNext, plusVars, vars, pktVars, PlusHandleNbBroadcast

\* The invariant of the packets of GeoBasic holds of those of GeoPlus.
THEOREM PlusPathInvariant == PlusSpec => []PathInv
<1>1. PlusInit => PathInv
  BY PathInit DEF PlusInit
<1> QED BY <1>1, PlusPathStep, PlusTypeCorrect, PTL DEF PlusSpec

LEMMA PlusRefinementStep ==
    PlusTypeOK /\ PathInv /\ [PlusNext]_plusVars => [Path!Next]_(Path!vars)
<1> SUFFICES ASSUME PlusTypeOK, PathInv, [PlusNext]_plusVars
             PROVE  [Path!Next]_(Path!vars)
  OBVIOUS
<1>1. CASE trail' = trail /\ outcome' = outcome
  BY <1>1 DEF Path!vars
<1>2. ASSUME outcome = Running, NEW p \in Packet, PlusHandleUpperMsg(p)
      PROVE  [Path!Next]_(Path!vars)
  <2>1. CASE InWindow(Origin[p])
    BY <1>2, <2>1, StartStep DEF PlusHandleUpperMsg
  <2>2. CASE ~ InWindow(Origin[p])
    BY <1>1, <1>2, <2>2 DEF PlusHandleUpperMsg
  <2> QED BY <2>1, <2>2
<1>3. ASSUME outcome = Running, NEW c \in air, HandleGreedyPlusPkt(c)
      PROVE  [Path!Next]_(Path!vars)
  BY <1>3, ReceiveStep DEF HandleGreedyPlusPkt, PlusTypeOK, TypeOK
<1> QED BY <1>1, <1>2, <1>3
        DEF PlusNext, plusVars, vars, pktVars, PlusHandleNbBroadcast

(***************************************************************************)
(* GeoPlus implements GreedyPath: base lines only choose among the next    *)
(* hops greedy forwarding allows, and a host that mixes up the lines of    *)
(* several packets still cannot make a loop (Greedy1/GeoPlus.cc).          *)
(***************************************************************************)
THEOREM PlusRefinement == PlusSpec => ImplementsGreedyPath
<1>1. PlusInit => Path!Init
  BY RefinementInit DEF PlusInit
<1> QED BY <1>1, PlusRefinementStep, PlusTypeCorrect, PlusPathInvariant, PTL
        DEF PlusSpec, ImplementsGreedyPath, Path!Spec
-----------------------------------------------------------------------------
(***************************************************************************)
(* The bound the loop starts from excludes nobody when the line in         *)
(* baseLineFactor is the packet's own: a closer neighbour is nearer to a   *)
(* line through the destination than this host is to the destination.      *)
(***************************************************************************)
LEMMA NextOnOwnLine ==
    ASSUME NbTypeOK, NEW n \in Node, NEW p \in Packet,
           NEW i \in CloserEntries(n, p)
    PROVE  /\ NextOnLine(n, p, p) # n
           /\ LineDist[p][NextOnLine(n, p, p)] <= LineDist[p][nbTable[n][i]]
<1> DEFINE l == Len(nbTable[n])
           E == CloserEntries(n, p)
           f == [k \in 1..l |-> LineDist[p][nbTable[n][k]]]
<1>1. /\ nbTable[n] \in Seq(Node) /\ l \in Nat
      /\ \A k \in 1..l : nbTable[n][k] \in Node
  <2>1. nbTable[n] \in Seq(Node)
    BY DEF NbTypeOK
  <2> QED BY <2>1, SeqEntries
<1>2. E \in SUBSET (1..l) /\ i \in E
  BY DEF CloserEntries
<1>3. \A k \in 1..l : f[k] \in Nat /\ f[k] = LineDist[p][nbTable[n][k]]
  <2>1. \A m \in Node : LineDist[p][m] \in Nat
    OBVIOUS
  <2> QED BY <1>1, <2>1
<1>4. WithinEntries(n, p, p) = E
  <2>1. ASSUME NEW k \in E PROVE LineDist[p][nbTable[n][k]] <= DistToDest[p][n]
    <3> DEFINE m == nbTable[n][k]
    <3>1. m \in Node /\ DistToDest[p][m] < DistToDest[p][n]
      BY <1>1 DEF CloserEntries
    <3>2. LineDist[p][m] \in Nat /\ DistToDest[p][m] \in Nat /\ DistToDest[p][n] \in Nat
      BY <3>1
    <3>3. LineDist[p][m] <= DistToDest[p][m]
      BY <3>1
    <3> HIDE DEF m
    <3>4. LineDist[p][m] <= DistToDest[p][n]
      BY <3>1, <3>2, <3>3
    <3> QED BY <3>4 DEF m
  <2> QED BY <2>1 DEF WithinEntries
<1>5. NearestToLine(n, p, p) # {}
  <2> HIDE DEF E, l, f
  <2>1. PICK k \in E : \A j \in E : f[k] < f[j] \/ (f[k] = f[j] /\ k >= j)
    BY <1>1, <1>2, <1>3, LastNearest
  <2>2. \A j \in E : \/ LineDist[p][nbTable[n][k]] < LineDist[p][nbTable[n][j]]
                     \/ /\ LineDist[p][nbTable[n][k]] = LineDist[p][nbTable[n][j]]
                        /\ k >= j
    BY <1>2, <1>3, <2>1
  <2>3. k \in NearestToLine(n, p, p)
    BY <1>4, <2>1, <2>2 DEF NearestToLine
  <2> QED BY <2>3
<1>6. PICK j \in NearestToLine(n, p, p) : NextOnLine(n, p, p) = nbTable[n][j]
  BY <1>5 DEF NextOnLine
<1>7. /\ j \in E
      /\ LineDist[p][nbTable[n][j]] <= LineDist[p][nbTable[n][i]]
  <2>1. j \in E /\ (\/ LineDist[p][nbTable[n][j]] < LineDist[p][nbTable[n][i]]
                    \/ LineDist[p][nbTable[n][j]] = LineDist[p][nbTable[n][i]])
    BY <1>2, <1>4 DEF NearestToLine
  <2>2. LineDist[p][nbTable[n][j]] \in Nat /\ LineDist[p][nbTable[n][i]] \in Nat
    BY <1>2, <1>3, <2>1
  <2> QED BY <2>1, <2>2
<1>8. nbTable[n][j] # n
  <2>1. DistToDest[p][nbTable[n][j]] < DistToDest[p][n] /\ DistToDest[p][n] \in Nat
    BY <1>7 DEF CloserEntries
  <2> QED BY <2>1
<1> QED BY <1>6, <1>7, <1>8

\* A transmission that puts a copy of p on the air along its own line.
OnOwnLine(c) ==
    \A i \in CloserEntries(c.from, c.packet) :
        /\ c.interNode # c.from
        /\ LineDist[c.packet][c.interNode]
              <= LineDist[c.packet][nbTable[c.from][i]]

(***************************************************************************)
(* However many packets and lines a host hears, each packet is forwarded   *)
(* along its own line: baseLineFactor is rewritten from the packet before  *)
(* findNextNode reads it (Greedy1/GeoPlus.cc).                             *)
(***************************************************************************)
THEOREM OwnLine == PlusSpec => FollowsLine
<1>1. ASSUME NbTypeOK, NEW n \in Node, NEW p \in Packet,
             NEW r, NEW len, NEW heard,
             NEW c \in Copies(n, p, NextOnLine(n, p, p), r, len, heard)
      PROVE  OnOwnLine(c)
  <2>1. c.from = n /\ c.packet = p /\ c.interNode = NextOnLine(n, p, p)
    BY DEF Copies
  <2> QED BY <1>1, <2>1, NextOnOwnLine DEF OnOwnLine
<1>2. ASSUME PlusTypeOK, [PlusNext]_plusVars, NEW c \in air' \ air
      PROVE  OnOwnLine(c)
  <2>0. /\ NbTypeOK /\ air \subseteq Copy /\ Origin \in [Packet -> Node]
        /\ baseLine \in [Node -> Packet \cup {NoLine}]
    BY <1>2 DEF PlusTypeOK, TypeOK, PktTypeOK
  <2>1. CASE air' \subseteq air
    BY <2>1
  <2>2. ASSUME NEW p \in Packet, PlusHandleUpperMsg(p) PROVE OnOwnLine(c)
    <3>1. InWindow(Origin[p])
      BY <2>2 DEF PlusHandleUpperMsg
    <3>2. /\ SendFirst(p, NextOnLine(Origin[p], p, baseLine'[Origin[p]]))
          /\ baseLine'[Origin[p]] = p /\ Origin[p] \in Node
      BY <2>0, <2>2, <3>1 DEF PlusHandleUpperMsg, StoreLine
    <3>3. \E r, len, heard :
             c \in Copies(Origin[p], p, NextOnLine(Origin[p], p, p), r, len, heard)
      BY <3>2 DEF SendFirst
    <3> QED BY <1>1, <2>0, <3>2, <3>3
  <2>3. ASSUME NEW d \in air, HandleGreedyPlusPkt(d) PROVE OnOwnLine(c)
    <3>1. d.to \in Node /\ d.packet \in Packet
      BY <2>0 DEF Copy
    <3>2. baseLine'[d.to] = d.packet
      BY <2>0, <2>3, <3>1 DEF HandleGreedyPlusPkt, StoreLine
    <3>3. Receive(d, NextOnLine(d.to, d.packet, d.packet))
      BY <2>3, <3>2 DEF HandleGreedyPlusPkt
    <3>4. CASE Discard(d) \/ Arrive(d)
                 \/ GiveUp(d, NextOnLine(d.to, d.packet, d.packet))
      BY <3>4 DEF Discard, Arrive, GiveUp, Consumed
    <3>5. CASE Forward(d, NextOnLine(d.to, d.packet, d.packet))
      <4>1. \E r, len, heard : c \in
               Copies(d.to, d.packet, NextOnLine(d.to, d.packet, d.packet),
                      r, len, heard)
        BY <3>5 DEF Forward, Consumed
      <4> QED BY <1>1, <2>0, <3>1, <4>1
    <3> QED BY <3>3, <3>4, <3>5 DEF Receive
  <2> QED BY <1>2, <2>1, <2>2, <2>3
          DEF PlusNext, plusVars, vars, pktVars, PlusHandleNbBroadcast
<1>3. PlusTypeOK /\ [PlusNext]_plusVars =>
        [\A c \in air' \ air : \A i \in CloserEntries(c.from, c.packet) :
          /\ c.interNode # c.from
          /\ LineDist[c.packet][c.interNode]
                <= LineDist[c.packet][nbTable[c.from][i]]]_plusVars
  BY <1>2 DEF OnOwnLine
<1> QED BY <1>3, PlusTypeCorrect, PTL DEF PlusSpec, FollowsLine
-----------------------------------------------------------------------------
(***************************************************************************)
(* The loop of findNextNode with line l stored: after i entries it has     *)
(* found none within its first bound, or it holds the last of the nearest  *)
(* to the line of those within it, and that distance.                      *)
(***************************************************************************)
LineChosenUpTo(n, p, l, i, b) ==
    LET W == WithinEntries(n, p, l)
        d(j) == LineDist[l][nbTable[n][j]]
    IN  \/ /\ b = [node |-> n, min |-> DistToDest[p][n]]
           /\ \A j \in W : ~ (j <= i)
        \/ \E k \in W :
              /\ b = [node |-> nbTable[n][k], min |-> d(k)] /\ k <= i
              /\ \A j \in W : j <= i => d(k) < d(j) \/ (d(k) = d(j) /\ k >= j)

Better(n, p, l, m, min) ==
    LineDist[l][m] <= min /\ DistToDest[p][m] < DistToDest[p][n]

LEMMA LineChosenStep ==
    ASSUME NbTypeOK, NEW n \in Node, NEW p \in Packet, NEW l \in Packet,
           NEW i \in 1..Len(nbTable[n]), NEW b, LineChosenUpTo(n, p, l, i - 1, b)
    PROVE  /\ Better(n, p, l, nbTable[n][i], b.min) =>
                 LineChosenUpTo(n, p, l, i, [node |-> nbTable[n][i],
                                             min |-> LineDist[l][nbTable[n][i]]])
           /\ ~ Better(n, p, l, nbTable[n][i], b.min) =>
                 LineChosenUpTo(n, p, l, i, b)
<1> DEFINE W == WithinEntries(n, p, l)
           D == DistToDest[p]
           t == nbTable[n]
           d(j) == LineDist[l][t[j]]
           mine == [node |-> t[i], min |-> d(i)]
<1>1. t \in Seq(Node) /\ Len(t) \in Nat /\ \A j \in 1..Len(t) : t[j] \in Node
  <2>1. t \in Seq(Node)
    BY DEF NbTypeOK
  <2> HIDE DEF t
  <2> QED BY <2>1, SeqEntries
<1>2. \A j \in 1..Len(t) : d(j) \in Nat /\ D[t[j]] \in Nat
  <2>1. \A m \in Node : LineDist[l][m] \in Nat /\ D[m] \in Nat
    OBVIOUS
  <2> QED BY <1>1, <2>1
<1>3. \A j \in W : j \in 1..Len(t) /\ d(j) <= D[n] /\ D[t[j]] < D[n]
  BY DEF WithinEntries, CloserEntries
<1>4. \A j \in 1..Len(t) : d(j) <= D[n] /\ D[t[j]] < D[n] => j \in W
  BY DEF WithinEntries, CloserEntries
<1>5. D[n] \in Nat
  OBVIOUS
<1>6. \A min : Better(n, p, l, t[i], min) <=> d(i) <= min /\ D[t[i]] < D[n]
  BY DEF Better
<1>7. \A j, b1 : LineChosenUpTo(n, p, l, j, b1) <=>
         \/ /\ b1 = [node |-> n, min |-> D[n]]
            /\ \A k \in W : ~ (k <= j)
         \/ \E k \in W :
              /\ b1 = [node |-> t[k], min |-> d(k)] /\ k <= j
              /\ \A h \in W : h <= j => d(k) < d(h) \/ (d(k) = d(h) /\ k >= h)
  BY DEF LineChosenUpTo
<1>8. /\ i \in 1..Len(t) /\ LineChosenUpTo(n, p, l, i - 1, b)
      /\ \A j \in W : j <= i => j <= i - 1 \/ j = i
  BY <1>1, <1>3
<1>9. i \in Nat /\ d(i) \in Nat /\ i <= i /\ i >= i
  <2>1. i \in Nat
    BY <1>1, <1>8
  <2>2. d(i) \in Nat
    BY <1>2, <1>8
  <2> HIDE DEF d
  <2> QED BY ONLY <2>1, <2>2
<1>10. \A j \in W : j \in Nat /\ d(j) \in Nat
  <2> SUFFICES ASSUME NEW j \in W PROVE j \in Nat /\ d(j) \in Nat
    OBVIOUS
  <2>1. j \in 1..Len(t)
    BY <1>3
  <2>2. j \in Nat
    BY <1>1, <2>1
  <2>3. d(j) \in Nat
    BY <1>2, <2>1
  <2> QED BY <2>2, <2>3
<1> HIDE DEF W, D, t, d
<1>11. CASE b = [node |-> n, min |-> D[n]] /\ \A j \in W : ~ (j <= i - 1)
  <2>1. b.min = D[n] /\ \A j \in W : j <= i => j = i
    BY <1>8, <1>11
  <2>2. CASE Better(n, p, l, t[i], b.min)
    <3>1. i \in W /\ i <= i /\ i >= i
      BY ONLY <1>9, <1>4, <1>6, <1>8, <2>1, <2>2
    <3>2. \A h \in W : h <= i => d(i) = d(h) /\ i >= h
      BY <2>1, <3>1
    <3>3. LineChosenUpTo(n, p, l, i, mine)
      BY <1>7, <3>1, <3>2
    <3> QED BY <2>2, <3>3 DEF t, d
  <2>3. CASE ~ Better(n, p, l, t[i], b.min)
    <3>1. \A j \in W : ~ (j <= i)
      BY <1>3, <1>6, <2>1, <2>3
    <3>2. LineChosenUpTo(n, p, l, i, b)
      BY <1>7, <1>11, <3>1
    <3> QED BY <2>3, <3>2 DEF t
  <2> QED BY <2>2, <2>3
<1>12. ASSUME NEW k \in W, b = [node |-> t[k], min |-> d(k)], k <= i - 1,
              \A h \in W : h <= i - 1 => d(k) < d(h) \/ (d(k) = d(h) /\ k >= h)
       PROVE  /\ Better(n, p, l, t[i], b.min) => LineChosenUpTo(n, p, l, i, mine)
              /\ ~ Better(n, p, l, t[i], b.min) => LineChosenUpTo(n, p, l, i, b)
  <2>1. b.min = d(k) /\ d(k) \in Nat /\ d(i) \in Nat /\ d(k) <= D[n] /\ k <= i
    <3>1. b.min = d(k)
      BY <1>12
    <3>2. d(k) \in Nat /\ d(k) <= D[n] /\ k \in Nat
      BY <1>3, <1>10
    <3>3. k <= i
      BY <1>9, <1>12, <3>2
    <3> QED BY <1>9, <3>1, <3>2, <3>3
  <2>2. CASE Better(n, p, l, t[i], b.min)
    <3>1. d(i) <= d(k) /\ D[t[i]] < D[n]
      BY <1>6, <2>1, <2>2
    <3>2. d(i) <= D[n]
      BY ONLY <1>5, <2>1, <3>1
    <3>3. i \in W /\ i <= i
      BY <1>4, <1>8, <1>9, <3>1, <3>2
    <3>4. ASSUME NEW h \in W, h <= i PROVE d(i) < d(h) \/ (d(i) = d(h) /\ i >= h)
      <4>1. CASE h = i
        BY <1>9, <4>1
      <4>2. CASE h <= i - 1
        <5>1. d(h) \in Nat /\ h \in Nat
          BY <1>10
        <5>2. d(k) < d(h) \/ d(k) = d(h)
          BY <1>12, <4>2
        <5>3. i >= h
          BY ONLY <1>9, <3>4, <5>1
        <5>4. d(i) < d(h) \/ d(i) = d(h)
          BY ONLY <2>1, <3>1, <5>1, <5>2
        <5> QED BY <5>3, <5>4
      <4> QED BY <1>8, <3>4, <4>1, <4>2
    <3>5. LineChosenUpTo(n, p, l, i, mine)
      BY <1>7, <3>3, <3>4
    <3> QED BY <2>2, <3>5
  <2>3. CASE ~ Better(n, p, l, t[i], b.min)
    <3>1. i \in W => d(k) < d(i)
      BY <1>3, <1>6, <2>1, <2>3
    <3>2. \A h \in W : h <= i => d(k) < d(h) \/ (d(k) = d(h) /\ k >= h)
      BY <1>8, <1>12, <3>1
    <3>3. LineChosenUpTo(n, p, l, i, b)
      BY <1>7, <1>12, <2>1, <3>2
    <3> QED BY <2>3, <3>3
  <2> QED BY <2>2, <2>3
<1>13. \/ /\ b = [node |-> n, min |-> D[n]]
          /\ \A j \in W : ~ (j <= i - 1)
       \/ \E k \in W :
            /\ b = [node |-> t[k], min |-> d(k)] /\ k <= i - 1
            /\ \A h \in W : h <= i - 1 => d(k) < d(h) \/ (d(k) = d(h) /\ k >= h)
  BY <1>7, <1>8
<1> QED BY <1>11, <1>12, <1>13 DEF t, d

LEMMA LineChosenIsNext ==
    ASSUME NbTypeOK, NEW n \in Node, NEW p \in Packet, NEW l \in Packet,
           NEW b, LineChosenUpTo(n, p, l, Len(nbTable[n]), b)
    PROVE  b.node = NextOnLine(n, p, l)
<1> DEFINE W == WithinEntries(n, p, l)
           t == nbTable[n]
           d(j) == LineDist[l][t[j]]
<1>1. t \in Seq(Node) /\ Len(t) \in Nat /\ \A j \in 1..Len(t) : t[j] \in Node
  <2>1. t \in Seq(Node)
    BY DEF NbTypeOK
  <2> HIDE DEF t
  <2> QED BY <2>1, SeqEntries
<1>2. \A j \in W : j \in 1..Len(t) /\ j <= Len(t) /\ j \in Nat /\ d(j) \in Nat
  <2>1. \A m \in Node : LineDist[l][m] \in Nat
    OBVIOUS
  <2>2. W \subseteq 1..Len(t)
    BY DEF WithinEntries, CloserEntries
  <2> HIDE DEF W, t
  <2>3. \A j \in 1..Len(t) : j <= Len(t) /\ j \in Nat
    BY <1>1
  <2> QED BY <1>1, <2>1, <2>2, <2>3
<1>3. CASE b.node = n /\ W = {}
  BY <1>3 DEF NextOnLine, NearestToLine
<1>4. ASSUME NEW k \in W, b.node = t[k],
             \A j \in W : d(k) < d(j) \/ (d(k) = d(j) /\ k >= j)
      PROVE  b.node = NextOnLine(n, p, l)
  <2>1. k \in NearestToLine(n, p, l)
    BY <1>4 DEF NearestToLine
  <2>2. ASSUME NEW j \in NearestToLine(n, p, l) PROVE j = k
    <3>1. j \in W /\ (d(j) < d(k) \/ (d(j) = d(k) /\ j >= k))
      BY DEF NearestToLine
    <3>2. d(k) < d(j) \/ (d(k) = d(j) /\ k >= j)
      BY <1>4, <3>1
    <3>3. /\ d(j) \in Nat /\ d(k) \in Nat /\ j \in Nat /\ k \in Nat
      BY <1>2, <3>1
    <3> HIDE DEF d
    <3> QED BY ONLY <3>1, <3>2, <3>3
  <2>3. NearestToLine(n, p, l) = {k}
    BY <2>1, <2>2
  <2> QED BY <1>4, <2>3 DEF NextOnLine
<1>5. \/ b.node = n /\ W = {}
      \/ \E k \in W : /\ b.node = t[k]
                      /\ \A j \in W : d(k) < d(j) \/ (d(k) = d(j) /\ k >= j)
  <2>1. \/ /\ b = [node |-> n, min |-> DistToDest[p][n]]
           /\ \A j \in W : ~ (j <= Len(t))
        \/ \E k \in W :
              /\ b = [node |-> t[k], min |-> d(k)]
              /\ \A j \in W : j <= Len(t) => d(k) < d(j) \/ (d(k) = d(j) /\ k >= j)
    BY DEF LineChosenUpTo
  <2> HIDE DEF W, t, d
  <2>2. \A j \in W : j <= Len(t)
    BY <1>2
  <2>3. W # {} => \E j \in W : TRUE
    OBVIOUS
  <2> QED BY ONLY <2>1, <2>2, <2>3
<1> QED BY <1>3, <1>4, <1>5

\* What findNextNode is taken to return is what its loop computes.
LEMMA NextOnLineIsLoop ==
    ASSUME NbTypeOK, NEW n \in Node, NEW p \in Packet, NEW l \in Packet
    PROVE  NextOnLine(n, p, l) = LineLoopChoice(n, p, l)
<1> DEFINE t == nbTable[n]
           D == DistToDest[p]
           size == Len(t)
           entry(i) == [node |-> t[i], min |-> LineDist[l][t[i]]]
           X == [node : Node, min : Nat]
           first == [node |-> n, min |-> D[n]]
           Loop(f) == f = [i \in 0..size |->
                             IF i = 0 THEN first
                             ELSE IF Better(n, p, l, t[i], f[i-1].min)
                                  THEN entry(i) ELSE f[i-1]]
           best == CHOOSE f : Loop(f)
           G == [i \in 1..size |->
                   [b \in X |-> IF Better(n, p, l, t[i], b.min) THEN entry(i) ELSE b]]
<1>1. LineLoopChoice(n, p, l) = best[size].node
  BY DEF LineLoopChoice, Better
<1>2. /\ t \in Seq(Node) /\ size \in Nat
      /\ first \in X /\ \A i \in 1..size : entry(i) \in X
  <2>1. t \in Seq(Node)
    BY DEF NbTypeOK
  <2>2. size \in Nat /\ \A i \in 1..size : t[i] \in Node
    <3> HIDE DEF t
    <3> QED BY <2>1, SeqEntries
  <2>3. \A m \in Node : LineDist[l][m] \in Nat /\ D[m] \in Nat
    OBVIOUS
  <2> QED BY <2>1, <2>2, <2>3
<1> HIDE DEF t, X, entry, first
<1>3. Loop(best)
  <2>1. G \in [1..size -> [X -> X]]
    BY <1>2
  <2>2. \A i \in 1..size : \A b \in X :
          G[i][b] = IF Better(n, p, l, t[i], b.min) THEN entry(i) ELSE b
    OBVIOUS
  <2> HIDE DEF size, G
  <2>3. PICK f \in [0..size -> X] : IsLoop(f, size, first, G)
    BY <1>2, <2>1, LoopExists
  <2>4. f[0] = first /\ \A i \in 1..size : f[i] = G[i][f[i-1]]
    BY <2>3 DEF IsLoop
  <2>5. \A i \in 1..size : f[i] = IF Better(n, p, l, t[i], f[i-1].min)
                                  THEN entry(i) ELSE f[i-1]
    <3>1. \A i \in 1..size : i - 1 \in 0..size
      BY <1>2
    <3> QED BY <2>2, <2>4, <3>1
  <2>6. Loop(f)
    <3>1. \A i \in 0..size : i = 0 \/ i \in 1..size
      BY <1>2
    <3> QED BY <2>4, <2>5, <3>1
  <2> QED BY <2>6
<1> HIDE DEF best, size, G
<1>4. /\ best[0] = first
      /\ \A i \in 1..size : best[i] = IF Better(n, p, l, t[i], best[i-1].min)
                                      THEN entry(i) ELSE best[i-1]
  <2>1. 0 \in 0..size /\ \A i \in 1..size : i \in 0..size /\ i # 0
    BY <1>2
  <2> QED BY ONLY <1>3, <2>1
<1> DEFINE S == {i \in 0..size : LineChosenUpTo(n, p, l, i, best[i])}
<1>5. 0 \in S
  <2>1. \A j \in WithinEntries(n, p, l) : ~ (j <= 0)
    BY DEF WithinEntries, CloserEntries
  <2>2. LineChosenUpTo(n, p, l, 0, best[0])
    BY <1>4, <2>1 DEF LineChosenUpTo, first, D
  <2> QED BY <1>2, <2>2
<1>6. \A i \in 1..size : i - 1 \in S => i \in S
  <2> SUFFICES ASSUME NEW i \in 1..size, i - 1 \in S PROVE i \in S
    OBVIOUS
  <2>1. LineChosenUpTo(n, p, l, i - 1, best[i-1])
    OBVIOUS
  <2>2. i \in 1..Len(nbTable[n])
    BY DEF size, t
  <2>3. /\ Better(n, p, l, t[i], best[i-1].min) => LineChosenUpTo(n, p, l, i, entry(i))
        /\ ~ Better(n, p, l, t[i], best[i-1].min) =>
             LineChosenUpTo(n, p, l, i, best[i-1])
    BY <2>1, <2>2, LineChosenStep DEF t, entry
  <2>4. LineChosenUpTo(n, p, l, i, best[i])
    BY <1>4, <2>3
  <2> QED BY <1>2, <2>4
<1>7. LineChosenUpTo(n, p, l, size, best[size])
  <2> HIDE DEF S
  <2>1. \A i \in 0..size : i \in S
    BY ONLY <1>2, <1>5, <1>6, Induct
  <2>2. size \in S
    BY <1>2, <2>1
  <2> QED BY <2>2 DEF S
<1>8. best[size].node = NextOnLine(n, p, l)
  BY <1>7, LineChosenIsNext DEF size, t
<1> QED BY <1>1, <1>8

(***************************************************************************)
(* findNextNode names, for every table and whatever line is stored, the    *)
(* closer neighbour its loop ends with (Greedy1/GeoPlus.cc).               *)
(***************************************************************************)
THEOREM LineChoice == PlusSpec => []LineChoiceIsLoop
<1>1. PlusTypeOK => LineChoiceIsLoop
  BY NextOnLineIsLoop DEF PlusTypeOK, TypeOK, LineChoiceIsLoop
<1> QED BY <1>1, PlusTypeCorrect, PTL

-----------------------------------------------------------------------------
(***************************************************************************)
(* With the beacons in step, tables are full in the window too, although   *)
(* beacons are still sent after the first packet.                          *)
(***************************************************************************)
LEMMA PlusStuckStep ==
    ASSUME ~ Lossy, NbUpdateLimit # 0
    PROVE  PlusTypeOK /\ StuckInv /\ [PlusWarmNext]_plusVars => StuckInv'
<1> SUFFICES ASSUME PlusTypeOK, StuckInv, [PlusWarmNext]_plusVars
             PROVE  StuckInv'
  OBVIOUS
<1>0. /\ NbTypeOK /\ PktTypeOK
      /\ baseLine \in [Node -> Packet \cup {NoLine}]
  BY DEF PlusTypeOK, TypeOK
<1>1. ASSUME \/ \E n \in Node : HandleSelfMsg(n)
             \/ \E n, m \in Node : HandleNbBroadcast(n, m),
             UNCHANGED pktVars
      PROVE  StuckInv'
  <2>1. Announced'
    BY <1>0, <1>1, AnnouncedSend, AnnouncedHear DEF StuckInv
  <2>2. TablesFull => TablesFull'
    BY <1>0, <1>1, FullKept
  <2> QED BY <1>1, <2>1, <2>2 DEF StuckInv, pktVars, StuckIsGenuine, Void
<1>2. ASSUME NEW p \in Packet, PlusHandleUpperMsg(p), InStep PROVE StuckInv'
  <2>1. /\ p \in pending /\ pending' = pending \ {p}
        /\ outcome' = outcome /\ UNCHANGED nbVars /\ UNCHANGED nbTable
    BY <1>2 DEF PlusHandleUpperMsg, nbVars
  <2>2. TablesFull
    BY <1>2, FullWhenQuiet DEF InStep, InWindow, StuckInv
  <2>3. pending' # Packet
    BY <2>1
  <2> QED BY <2>1, <2>2, <2>3, AnnouncedStutter DEF StuckInv, StuckIsGenuine, Void
<1>3. ASSUME NEW c \in air, HandleGreedyPlusPkt(c) PROVE StuckInv'
  <2>1. c.to \in Node /\ c.packet \in Packet
    BY <1>0 DEF PktTypeOK, Copy
  <2>2. TablesFull /\ pending # Packet /\ StuckIsGenuine
    BY DEF StuckInv
  <2>3. UNCHANGED nbVars /\ UNCHANGED nbTable /\ pending' = pending
    BY <1>3 DEF HandleGreedyPlusPkt, nbVars, Receive
  <2>4. Receive(c, NextOnLine(c.to, c.packet, c.packet))
    <3>1. baseLine'[c.to] = c.packet
      BY <1>0, <1>3, <2>1 DEF HandleGreedyPlusPkt, StoreLine
    <3> QED BY <1>3, <3>1 DEF HandleGreedyPlusPkt
  <2>5. NextOnLine(c.to, c.packet, c.packet) = c.to =>
          CloserEntries(c.to, c.packet) = {}
    BY <1>0, <2>1, NextOnOwnLine
  <2>6. StuckIsGenuine'
    BY <1>0, <2>2, <2>4, <2>5, StuckReceive
  <2> QED BY <2>2, <2>3, <2>6, AnnouncedStutter DEF StuckInv
<1>4. CASE UNCHANGED plusVars
  <2>1. UNCHANGED nbVars /\ UNCHANGED nbTable /\ UNCHANGED pktVars
    BY <1>4 DEF plusVars, vars, nbVars
  <2> QED BY <2>1, AnnouncedStutter DEF StuckInv, pktVars, StuckIsGenuine, Void
<1>5. ASSUME NEW p \in Packet, PlusHandleUpperMsg(p), PlusWarmNext PROVE InStep
  <2>1. pending' # pending
    BY <1>5 DEF PlusHandleUpperMsg
  <2> QED BY <1>5, <2>1 DEF PlusWarmNext
<1>6. ASSUME NEW n \in Node, NEW m \in Node, PlusHandleNbBroadcast(n, m)
      PROVE  StuckInv'
  BY <1>1, <1>6 DEF PlusHandleNbBroadcast
<1> QED BY <1>1, <1>2, <1>3, <1>4, <1>5, <1>6 DEF PlusWarmNext, PlusNext

(***************************************************************************)
(* A packet reported stuck on its base line is in a void of the network:   *)
(* with the timers of all hosts in step and a radio that loses nothing,    *)
(* the line never hides a closer neighbour (Greedy1/GeoPlus.cc).           *)
(***************************************************************************)
THEOREM PlusStuckGenuine ==
    ASSUME ~ Lossy, NbUpdateLimit # 0
    PROVE  PlusWarmSpec => []StuckIsGenuine
<1>1. [PlusWarmNext]_plusVars => [PlusNext]_plusVars
  BY DEF PlusWarmNext
<1>2. PlusWarmSpec => []PlusTypeOK
  BY <1>1, PlusTypeCorrect, PTL DEF PlusWarmSpec, PlusSpec
<1>3. PlusInit => StuckInv
  BY StuckInit DEF PlusInit
<1>4. StuckInv => StuckIsGenuine
  BY DEF StuckInv
<1> QED BY <1>2, <1>3, <1>4, PlusStuckStep, PTL DEF PlusWarmSpec
=============================================================================
