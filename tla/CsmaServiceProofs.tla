-------------------------- MODULE CsmaServiceProofs --------------------------
(***************************************************************************)
(* What the csma modules of two hosts know of each other, for any number   *)
(* of hosts and packets and any limits: duplicates are recognised, an      *)
(* acknowledgement without a number acknowledges the right packet, and     *)
(* Csma implements MacService.                                             *)
(*                                                                         *)
(* The invariant follows a frame from the queue of its source to the host  *)
(* it is for and its acknowledgement back: sequence numbers (SeqInv),      *)
(* packets taken (TakenInv), the two against each other (DuplicateInv),    *)
(* acknowledgements being prepared or sent (AckInv), and what arrives      *)
(* (ArrivalInv).                                                           *)
(***************************************************************************)
EXTENDS CsmaQueueProofs

USE CsmaAssumption

\* A frame's number is below the next, and rises with each frame to a host.
SeqInv ==
    /\ \A n \in Node : \A f \in Members(mac[n].queue) :
         /\ f.seq < mac[n].SeqNrParent[Dest[f.packet]]
         /\ \A g \in Members(mac[n].queue) :
              Before(queued, f.packet, g.packet) /\ Dest[f.packet] = Dest[g.packet]
                => f.seq < g.seq
    /\ \A n, m \in Node : mac[m].SeqNrChild[n] <= mac[n].SeqNrParent[m]

\* A packet taken was queued, and before all its source still has to send.
TakenInv ==
    \A m \in Node :
        /\ Members(taken[m]) \subseteq Members(queued)
        /\ \A x \in Members(taken[m]) : \A f \in Members(mac[Src[x]].queue) :
             x = f.packet \/ Before(queued, x, f.packet)
        /\ \A n \in Node : \A f \in Members(mac[n].queue) :
             Dest[f.packet] = Broadcast => f.packet \notin Members(taken[m])

\* DuplicateMeansTaken.
DuplicateInv ==
    \A n \in Node : \A f \in Members(mac[n].queue) : \A m \in Node :
        Dest[f.packet] = m =>
            (f.seq < mac[m].SeqNrChild[n] <=> f.packet \in Members(taken[m]))

\* The host h waits for an acknowledgement of m, which took the packets s,
\* for one of these.
Awaits(h, s, m) ==
    /\ h.state = "WAITACK_5"
    /\ Dest[First(h).packet] = m
    /\ First(h).packet \in Members(s)

\* m prepares or sends an acknowledgement for k.
Prepares(m, k) ==
    \/ mac[m].state = "WAITSIFS_6" /\ mac[m].ackMessage = k
    \/ \E a \in Ack : onAir[m] = a /\ a.ackTo = k

AckInv ==
    \A m \in Node :
        /\ \A k \in Node : Prepares(m, k) => Awaits(mac[k], taken[m], m)
        /\ \A a \in Ack : onAir[m] = a => a.ackFrom = m

Acking(h) == h.state \in {"WAITSIFS_6", "TRANSMITACK_7"}

\* An acknowledgement at m: its source will send no other meanwhile.
AckArrives(m, a) ==
    /\ ~ Acking(mac[a.ackFrom]) /\ arriving[a.ackFrom] = NoFrame
    /\ a.ackTo = m => Awaits(mac[m], taken[a.ackFrom], a.ackFrom)

\* A frame at m: its source waits, or has gone on after a broadcast.
DataArrives(m, f) ==
    LET n == Src[f.packet] IN
    /\ arriving[n] = NoFrame
    /\ Dest[f.packet] = m =>
         /\ mac[n].state = "WAITACK_5" /\ mac[n].queue # <<>>
         /\ First(mac[n]) = f
    /\ Dest[f.packet] = Broadcast =>
         /\ outcome[f.packet] = "sent"
         /\ \A x \in Members(taken[m]) : Src[x] = n => Before(queued, x, f.packet)
         /\ \A g \in Members(mac[n].queue) : Before(queued, f.packet, g.packet)

ArrivalInv ==
    \A m \in Node : arriving[m] # NoFrame =>
        /\ ~ Acking(mac[m])
        /\ \A k \in Node : arriving[k] # NoFrame => arriving[k] = arriving[m]
        /\ \A a \in Ack : arriving[m] = a => AckArrives(m, a)
        /\ \A f \in Data : arriving[m] = f => DataArrives(m, f)

SInv == SeqInv /\ TakenInv /\ DuplicateInv /\ AckInv /\ ArrivalInv

-----------------------------------------------------------------------------
LEMMA MembersOf ==
    ASSUME NEW S, NEW q \in Seq(S), NEW f \in S
    PROVE  /\ Members(Append(q, f)) = Members(q) \cup {f}
           /\ Members(q) \subseteq S
           /\ q # <<>> => Members(Tail(q)) \subseteq Members(q)
<1>1. Members(Append(q, f)) = Members(q) \cup {f}
  <2> DEFINE r == Append(q, f)
             l == Len(q)
  <2>1. /\ l \in Nat /\ Len(r) = l + 1 /\ r[l + 1] = f
        /\ \A i \in 1..l : r[i] = q[i]
    OBVIOUS
  <2> HIDE DEF r, l
  <2>2. \A i \in 1..l + 1 : i \in 1..l \/ i = l + 1
    BY <2>1
  <2>3. l + 1 \in 1..l + 1 /\ \A i \in 1..l : i \in 1..l + 1
    BY <2>1
  <2>4. Members(r) = Members(q) \cup {f}
    BY <2>1, <2>2, <2>3 DEF Members, l
  <2> QED BY <2>4 DEF r
<1>2. Members(q) \subseteq S
  BY DEF Members
<1>3. ASSUME q # <<>> PROVE Members(Tail(q)) \subseteq Members(q)
  <2> DEFINE r == Tail(q)
             l == Len(q)
  <2>1. /\ l \in Nat /\ Len(r) = l - 1 /\ \A i \in 1..l - 1 : r[i] = q[i + 1]
    BY <1>3
  <2> HIDE DEF r, l
  <2>2. \A i \in 1..l - 1 : i + 1 \in 1..l
    BY <2>1
  <2>3. Members(r) \subseteq Members(q)
    BY <2>1, <2>2 DEF Members, l
  <2> QED BY <2>3 DEF r
<1> QED BY <1>1, <1>2, <1>3

\* The frames of a queue.
LEMMA QueueFrames ==
    ASSUME HwInv, QInv, NEW n \in Node
    PROVE  LET q == mac[n].queue
           IN  /\ \A f \in Members(q) :
                    /\ f \in Data /\ f.packet \in Packet /\ f.seq \in Nat
                    /\ f.packet \in Members(queued) /\ Src[f.packet] = n
                    /\ outcome[f.packet] = "none"
               /\ \A f, g \in Members(q) : f.packet = g.packet => f = g
               /\ q # <<>> =>
                    /\ First(mac[n]) \in Members(q)
                    /\ \A f \in Members(q) :
                         \/ f = First(mac[n])
                         \/ Before(queued, First(mac[n]).packet, f.packet)
                    /\ \A f \in Members(Tail(q)) : f # First(mac[n])
<1> DEFINE q == mac[n].queue
<1>1. q \in Seq(Data) /\ QueueOK(n, q, queued, outcome)
  BY QueueTypes DEF QInv
<1>2. /\ \A i \in 1..Len(q) : /\ q[i].packet \in Packet
                              /\ q[i].packet \in Members(queued)
                              /\ Src[q[i].packet] = n
      /\ \A i, j \in 1..Len(q) : i # j => q[i].packet # q[j].packet
  BY QueuePackets
<1>3. First(mac[n]) = Head(q)
  BY DEF First
<1> HIDE DEF q
<1>4. \A i \in 1..Len(q) : q[i] \in Data /\ q[i].seq \in Nat
  <2>1. \A i \in 1..Len(q) : q[i] \in Data
    BY <1>1
  <2> QED BY <2>1, DataFrame
<1>5. \A f \in Members(q) :
        /\ f \in Data /\ f.packet \in Packet /\ f.seq \in Nat
        /\ f.packet \in Members(queued) /\ Src[f.packet] = n
        /\ outcome[f.packet] = "none"
  <2> SUFFICES ASSUME NEW i \in 1..Len(q)
               PROVE  /\ q[i] \in Data /\ q[i].packet \in Packet
                      /\ q[i].seq \in Nat /\ q[i].packet \in Members(queued)
                      /\ Src[q[i].packet] = n /\ outcome[q[i].packet] = "none"
    BY DEF Members
  <2> QED BY <1>1, <1>2, <1>4 DEF QueueOK, Unfinished
<1>6. \A f, g \in Members(q) : f.packet = g.packet => f = g
  BY <1>2 DEF Members
<1>7. ASSUME q # <<>>
      PROVE  /\ Head(q) \in Members(q)
             /\ \A f \in Members(q) :
                  f = Head(q) \/ Before(queued, Head(q).packet, f.packet)
             /\ \A f \in Members(Tail(q)) : f # Head(q)
  <2> DEFINE t == Tail(q)
             l == Len(q)
  <2>1. /\ Head(q) = q[1] /\ l \in Nat /\ l > 0 /\ Len(t) = l - 1
        /\ \A i \in 1..l - 1 : t[i] = q[i + 1]
    BY <1>1, <1>7, QueueHead
  <2>2. \A i, j \in 1..l : i < j => Before(queued, q[i].packet, q[j].packet)
    BY <1>1 DEF QueueOK, InOrder
  <2>3. Members(q) = {q[i] : i \in 1..l}
    BY DEF Members
  <2>4. Members(t) = {t[i] : i \in 1..l - 1}
    BY <2>1 DEF Members
  <2>5. \A i, j \in 1..l : i # j => q[i].packet # q[j].packet
    BY <1>2
  <2> HIDE DEF t, l
  <2>6. 1 \in 1..l /\ \A i \in 1..l : i = 1 \/ 1 < i
    BY <2>1
  <2>7. \A i \in 1..l - 1 : i + 1 \in 1..l /\ i + 1 # 1
    BY <2>1
  <2>8. Head(q) \in Members(q)
    BY <2>1, <2>3, <2>6
  <2>9. ASSUME NEW f \in Members(q)
        PROVE  f = Head(q) \/ Before(queued, Head(q).packet, f.packet)
    <3>1. PICK i \in 1..l : f = q[i]
      BY <2>3
    <3> QED BY <2>1, <2>2, <2>6, <3>1
  <2>10. ASSUME NEW f \in Members(t) PROVE f # Head(q)
    <3>1. PICK i \in 1..l - 1 : f = t[i]
      BY <2>4
    <3>2. q[i + 1].packet # q[1].packet
      BY <2>5, <2>6, <2>7
    <3> QED BY <2>1, <3>1, <3>2
  <2> QED BY <2>8, <2>9, <2>10 DEF t
<1> QED BY <1>3, <1>5, <1>6, <1>7 DEF q

\* Where the packet last queued stands.
LEMMA LastQueued ==
    ASSUME NEW s \in Seq(Packet), NEW p \in Packet, p \notin Members(s)
    PROVE  \A x, y : Before(Append(s, p), x, y) =>
                        x \in Members(s) /\ (y # p => Before(s, x, y))
<1> DEFINE t == Append(s, p)
           l == Len(s)
<1>1. /\ l \in Nat /\ Len(t) = l + 1 /\ t[l + 1] = p
      /\ \A i \in 1..l : t[i] = s[i]
  OBVIOUS
<1> HIDE DEF t
<1>2. SUFFICES ASSUME NEW x, NEW y, Before(t, x, y)
               PROVE  x \in Members(s) /\ (y # p => Before(s, x, y))
  BY DEF t
<1>3. PICK i, j \in 1..Len(t) : i < j /\ t[i] = x /\ t[j] = y
  BY <1>2 DEF Before
<1> HIDE DEF l
<1>4. i \in 1..l
  BY <1>1, <1>3
<1>5. x = s[i]
  BY <1>1, <1>3, <1>4
<1>6. ASSUME y # p PROVE Before(s, x, y)
  <2>1. j \in 1..l
    <3>1. j # l + 1 /\ j \in 1..l + 1
      BY <1>1, <1>3, <1>6
    <3> QED BY <1>1, <3>1
  <2>2. y = s[j]
    BY <1>1, <1>3, <2>1
  <2> QED BY <1>3, <1>4, <1>5, <2>1, <2>2 DEF Before, l
<1> QED BY <1>4, <1>5, <1>6 DEF Members, l

(***************************************************************************)
(* What a step may do to the history and the queue of n: nothing that was  *)
(* queued or has ended is forgotten, and what is new in the queue comes    *)
(* after everything that was queued.                                       *)
(***************************************************************************)
Grows(n) ==
    /\ Members(queued) \subseteq Members(queued')
    /\ \A x, y : Before(queued, x, y) => Before(queued', x, y)
    /\ \A x \in Packet : outcome[x] = "sent" => outcome'[x] = "sent"
    /\ \A f \in Members(mac'[n].queue) :
         \/ f \in Members(mac[n].queue)
         \/ \A x \in Members(queued) : Before(queued', x, f.packet)

LEMMA QueueGrowth ==
    ASSUME HwInv, QInv, NEW n \in Node, QueueStep(n)
    PROVE  Grows(n)
<1> DEFINE q == mac[n].queue
           r == mac'[n].queue
<1>1. /\ queued \in Seq(Packet) /\ q \in Seq(Data)
      /\ outcome \in [Packet -> {"none", "success", "dropped", "sent"}]
  BY QueueTypes
<1>2. CASE Keeps(n) \/ Transmits(n) \/ TriesAgain(n)
  <2>1. queued' = queued /\ outcome' = outcome /\ r = q
    BY <1>2 DEF Keeps, Transmits, TriesAgain
  <2> QED BY <2>1 DEF Grows
<1>3. ASSUME NEW p \in Packet, Refuses(n, p) PROVE Grows(n)
  <2>1. /\ queued' = queued /\ r = q /\ outcome[p] = "none"
        /\ outcome' = [outcome EXCEPT ![p] = "dropped"]
    BY <1>3 DEF Refuses
  <2>2. \A x \in Packet : outcome[x] = "sent" => outcome'[x] = "sent"
    BY <1>1, <2>1
  <2> QED BY <2>1, <2>2 DEF Grows
<1>4. ASSUME NEW p \in Packet, NEW f \in Data, Enqueues(n, p, f)
      PROVE  Grows(n)
  <2>1. /\ queued' = Append(queued, p) /\ outcome' = outcome
        /\ p \notin Members(queued) /\ f.packet = p /\ r = Append(q, f)
    BY <1>4 DEF Enqueues
  <2>2. /\ Members(queued') = Members(queued) \cup {p}
        /\ \A x, y : Before(queued, x, y) => Before(queued', x, y)
        /\ \A x \in Members(queued) : Before(queued', x, p)
    BY <1>1, <2>1, HistoryGrows
  <2> HIDE DEF q, r
  <2>3. Members(r) = Members(q) \cup {f}
    BY <1>1, <2>1, MembersOf
  <2> QED BY <2>1, <2>2, <2>3 DEF Grows, q, r
<1>5. ASSUME NEW o \in {"success", "dropped", "sent"}, Pops(n, o)
      PROVE  Grows(n)
  <2>1. /\ queued' = queued /\ q # <<>> /\ r = Tail(q)
        /\ outcome' = [outcome EXCEPT ![First(mac[n]).packet] = o]
    BY <1>5 DEF Pops
  <2>2. /\ First(mac[n]).packet \in Packet
        /\ outcome[First(mac[n]).packet] = "none"
    BY <2>1, FirstUnfinished
  <2>3. \A x \in Packet : outcome[x] = "sent" => outcome'[x] = "sent"
    BY <1>1, <2>1, <2>2
  <2>4. q \in Seq(Data) /\ Head(q) \in Data
    BY <1>1, <2>1, QueueHead
  <2> HIDE DEF q, r
  <2>5. Members(r) \subseteq Members(q)
    BY <2>1, <2>4, MembersOf
  <2> QED BY <2>1, <2>3, <2>5 DEF Grows, q, r
<1> QED BY <1>2, <1>3, <1>4, <1>5 DEF QueueStep

-----------------------------------------------------------------------------
(***************************************************************************)
(* Sequence numbers, packets taken, and the two against each other.        *)
(***************************************************************************)
LinkInv == SeqInv /\ TakenInv /\ DuplicateInv

\* The numbers and what was taken stay, and no queue grows.
Calm(n) ==
    /\ OnlyAt(n) /\ Numbers(mac[n], mac'[n])
    /\ queued' = queued /\ taken' = taken
    /\ Members(mac'[n].queue) \subseteq Members(mac[n].queue)

LEMMA LinkCalm ==
    ASSUME HwInv, QInv, LinkInv, NEW n \in Node, Calm(n)
    PROVE  LinkInv'
<1>1. /\ queued' = queued /\ taken' = taken
      /\ \A m \in Node :
           /\ mac'[m].SeqNrParent = mac[m].SeqNrParent
           /\ mac'[m].SeqNrChild = mac[m].SeqNrChild
           /\ Members(mac'[m].queue) \subseteq Members(mac[m].queue)
  BY DEF Calm, OnlyAt, Numbers
<1>2. SeqInv'
  BY <1>1 DEF LinkInv, SeqInv
<1>3. TakenInv'
  <2>1. \A x \in Members(queued) : Src[x] \in Node
    BY QueueTypes DEF Members
  <2> QED BY <1>1, <2>1 DEF LinkInv, TakenInv
<1>4. DuplicateInv'
  BY <1>1 DEF LinkInv, DuplicateInv
<1> QED BY <1>2, <1>3, <1>4 DEF LinkInv

LEMMA LinkUpper ==
    ASSUME HwInv, QInv, LinkInv, NEW p \in Packet, HandleUpperMsg(p)
    PROVE  LinkInv'
<1> DEFINE n == Src[p]
           f == [packet |-> p, seq |-> mac[n].SeqNrParent[Dest[p]]]
           Q(k) == Members(mac[k].queue)
           Q2(k) == Members(mac'[k].queue)
           P(k) == mac[k].SeqNrParent
           P2(k) == mac'[k].SeqNrParent
<1>1. /\ n \in Node /\ f \in Data /\ OnlyAt(n)
      /\ mac'[n].SeqNrChild = mac[n].SeqNrChild
      /\ P2(n) = [P(n) EXCEPT ![Dest[p]] = f.seq + 1]
      /\ \/ /\ mac'[n].queue = Append(mac[n].queue, f)
            /\ queued' = Append(queued, p)
         \/ /\ mac'[n].queue = mac[n].queue /\ queued' = queued
  BY UpperEffect DEF HwInv
<1>2. p \notin Members(queued) /\ taken' = taken
  BY DEF HandleUpperMsg, HandedDown
<1>3. /\ queued \in Seq(Packet) /\ Dest[p] \in Node \cup {Broadcast}
      /\ \A k \in Node : /\ mac[k].queue \in Seq(Data)
                         /\ P(k) \in [Node \cup {Broadcast} -> Nat]
                         /\ mac[k].SeqNrChild \in [Node -> Nat]
  BY QueueTypes DEF Fields
<1>4. f.packet = p /\ f.seq = P(n)[Dest[p]] /\ f.seq \in Nat
  BY <1>1, <1>3
<1> HIDE DEF f
<1>5. /\ P2(n)[Dest[p]] = f.seq + 1
      /\ \A d \in Node \cup {Broadcast} : P(n)[d] \in Nat /\ P(n)[d] <= P2(n)[d]
  BY <1>1, <1>3, <1>4
<1>6. /\ \A k \in Node : k # n => Q2(k) = Q(k)
      /\ Q(n) \subseteq Q2(n) /\ Q2(n) \subseteq Q(n) \cup {f}
      /\ f \in Q2(n) => queued' = Append(queued, p)
  <2>1. \A k \in Node : k # n => Q2(k) = Q(k)
    BY <1>1 DEF OnlyAt
  <2>2. CASE /\ mac'[n].queue = Append(mac[n].queue, f)
             /\ queued' = Append(queued, p)
    <3>1. Q2(n) = Q(n) \cup {f}
      BY <1>1, <1>3, <2>2, MembersOf
    <3> QED BY <2>1, <2>2, <3>1
  <2>3. CASE mac'[n].queue = mac[n].queue /\ queued' = queued
    <3>1. f \notin Q(n)
      BY <1>1, <1>2, <1>4, QueueFrames
    <3> QED BY <2>1, <2>3, <3>1
  <2> QED BY <1>1, <2>2, <2>3
<1>7. /\ \A x, y : Before(queued, x, y) => Before(queued', x, y)
      /\ \A x, y : Before(queued', x, y) =>
           x \in Members(queued) /\ (y # p => Before(queued, x, y))
      /\ Members(queued) \subseteq Members(queued')
      /\ f \in Q2(n) => \A x \in Members(queued) : Before(queued', x, p)
  <2>1. \A x, y : Before(queued, x, y) => x \in Members(queued)
    BY DEF Before, Members
  <2>2. CASE queued' = queued
    <3>1. f \in Q2(n) => \A x \in Members(queued) : Before(queued', x, p)
      <4> HAVE f \in Q2(n)
      <4>1. queued' = Append(queued, p)
        BY <1>6
      <4> QED BY <1>2, <1>3, <4>1, HistoryGrows
    <3> QED BY <2>1, <2>2, <3>1
  <2>3. CASE queued' = Append(queued, p)
    <3>1. /\ \A x, y : Before(queued, x, y) => Before(queued', x, y)
          /\ Members(queued) \subseteq Members(queued')
          /\ \A x \in Members(queued) : Before(queued', x, p)
      BY <1>2, <1>3, <2>3, HistoryGrows
    <3>2. \A x, y : Before(queued', x, y) =>
            x \in Members(queued) /\ (y # p => Before(queued, x, y))
      BY <1>2, <1>3, <2>3, LastQueued
    <3> QED BY <3>1, <3>2
  <2> QED BY <1>1, <2>2, <2>3
<1>8. \A k \in Node : \A e \in Q(k) :
        /\ e \in Data /\ e.packet \in Members(queued) /\ e.packet # p
        /\ e.seq \in Nat /\ Dest[e.packet] \in Node \cup {Broadcast}
  BY <1>2, QueueFrames, DataFrame
<1>9. /\ \A k \in Node : \A e \in Q(k) :
           /\ e.seq < P(k)[Dest[e.packet]]
           /\ \A g \in Q(k) :
                Before(queued, e.packet, g.packet)
                  /\ Dest[e.packet] = Dest[g.packet] => e.seq < g.seq
      /\ \A k, m \in Node : mac[m].SeqNrChild[k] <= P(k)[m]
  BY DEF LinkInv, SeqInv
<1>10. SeqInv'
  <2>1. ASSUME NEW k \in Node, NEW e \in Q2(k)
        PROVE  /\ e.seq < P2(k)[Dest[e.packet]]
               /\ \A g \in Q2(k) :
                    Before(queued', e.packet, g.packet)
                      /\ Dest[e.packet] = Dest[g.packet] => e.seq < g.seq
    <3>1. CASE k # n
      <4>1. P2(k) = P(k) /\ Q2(k) = Q(k)
        BY <1>1, <1>6, <3>1 DEF OnlyAt
      <4> HIDE DEF Q2, P2, Q, P
      <4> QED BY <1>7, <1>8, <1>9, <2>1, <4>1
    <3>2. CASE k = n /\ e = f
      <4>1. e.packet \notin Members(queued)
        BY <1>2, <1>4, <3>2
      <4>2. \A y : ~ Before(queued', e.packet, y)
        BY <1>7, <4>1
      <4>3. f.seq < f.seq + 1
        BY <1>4
      <4> QED BY <1>4, <1>5, <3>2, <4>2, <4>3
    <3>3. CASE k = n /\ e \in Q(n)
      <4>1. /\ e.seq < P(n)[Dest[e.packet]] /\ e.seq \in Nat
            /\ Dest[e.packet] \in Node \cup {Broadcast}
        BY <1>1, <1>8, <1>9, <3>3
      <4>2. e.seq < P2(n)[Dest[e.packet]]
        <5>1. P2(n)[Dest[e.packet]] \in Nat
          <6>1. P2(n) \in [Node \cup {Broadcast} -> Nat]
            BY <1>1 DEF OnlyAt, Fields
          <6> QED BY <4>1, <6>1
        <5>2. /\ P(n)[Dest[e.packet]] \in Nat
              /\ P(n)[Dest[e.packet]] <= P2(n)[Dest[e.packet]]
          BY <1>5, <4>1
        <5> HIDE DEF P, P2
        <5> QED BY <4>1, <5>1, <5>2
      <4>3. ASSUME NEW g \in Q2(n), Before(queued', e.packet, g.packet),
                   Dest[e.packet] = Dest[g.packet]
            PROVE  e.seq < g.seq
        <5>1. CASE g = f
          BY <1>4, <4>1, <4>3, <5>1
        <5>2. CASE g \in Q(n)
          BY <1>1, <1>7, <1>8, <1>9, <3>3, <4>3, <5>2
        <5> QED BY <1>6, <4>3, <5>1, <5>2
      <4> QED BY <3>3, <4>2, <4>3
    <3> QED BY <1>6, <2>1, <3>1, <3>2, <3>3
  <2>2. ASSUME NEW k \in Node, NEW m \in Node
        PROVE  mac'[m].SeqNrChild[k] <= P2(k)[m]
    <3>1. mac'[m].SeqNrChild = mac[m].SeqNrChild
      BY <1>1 DEF OnlyAt
    <3>2. CASE k = n
      <4>1. P(n)[m] \in Nat /\ P(n)[m] <= P2(n)[m]
        BY <1>5
      <4>2. P2(n)[m] \in Nat /\ mac[m].SeqNrChild[k] \in Nat
        <5>1. P2(n) \in [Node \cup {Broadcast} -> Nat]
          BY <1>1 DEF OnlyAt, Fields
        <5> QED BY <1>3, <5>1
      <4>3. mac[m].SeqNrChild[k] <= P(n)[m]
        BY <1>9, <3>2
      <4> HIDE DEF P, P2
      <4> QED BY <3>1, <3>2, <4>1, <4>2, <4>3
    <3>3. CASE k # n
      BY <1>1, <1>9, <3>1, <3>3 DEF OnlyAt
    <3> QED BY <3>2, <3>3
  <2> QED BY <2>1, <2>2 DEF SeqInv
<1> HIDE DEF P, P2
<1>11. TakenInv'
  <2> SUFFICES ASSUME NEW m \in Node
               PROVE  /\ Members(taken[m]) \subseteq Members(queued')
                      /\ \A x \in Members(taken[m]) : \A g \in Q2(Src[x]) :
                           x = g.packet \/ Before(queued', x, g.packet)
                      /\ \A k \in Node : \A g \in Q2(k) :
                           Dest[g.packet] = Broadcast =>
                             g.packet \notin Members(taken[m])
    BY <1>2 DEF TakenInv
  <2>1. /\ Members(taken[m]) \subseteq Members(queued)
        /\ \A x \in Members(taken[m]) : \A g \in Q(Src[x]) :
             x = g.packet \/ Before(queued, x, g.packet)
        /\ \A k \in Node : \A g \in Q(k) :
             Dest[g.packet] = Broadcast => g.packet \notin Members(taken[m])
    BY DEF LinkInv, TakenInv
  <2>2. ASSUME NEW x \in Members(taken[m]), NEW g \in Q2(Src[x])
        PROVE  x = g.packet \/ Before(queued', x, g.packet)
    <3>1. x \in Members(queued) /\ Src[x] \in Node
      <4>1. x \in Members(queued)
        BY <2>1
      <4>2. Members(queued) \subseteq Packet
        BY <1>3, MembersOf
      <4> QED BY <4>1, <4>2
    <3>2. g \in Q(Src[x]) \/ g = f
      BY <1>6, <2>2, <3>1
    <3> HIDE DEF Q, Q2
    <3>3. g = f => f \in Q2(n)
      BY <1>6, <1>8, <1>4, <2>2, <3>1
    <3> QED BY <1>4, <1>7, <2>1, <2>2, <3>1, <3>2, <3>3
  <2>3. ASSUME NEW k \in Node, NEW g \in Q2(k), Dest[g.packet] = Broadcast
        PROVE  g.packet \notin Members(taken[m])
    <3>1. g \in Q(k) \/ g = f
      BY <1>6, <2>3
    <3> QED BY <1>2, <1>4, <2>1, <2>3, <3>1
  <2> QED BY <1>7, <2>1, <2>2, <2>3
<1>12. DuplicateInv'
  <2> SUFFICES ASSUME NEW k \in Node, NEW g \in Q2(k), NEW m \in Node,
                      Dest[g.packet] = m
               PROVE  g.seq < mac'[m].SeqNrChild[k] <=>
                        g.packet \in Members(taken[m])
    BY <1>2 DEF DuplicateInv
  <2>1. mac'[m].SeqNrChild = mac[m].SeqNrChild
    BY <1>1 DEF OnlyAt
  <2>2. CASE g \in Q(k)
    BY <2>1, <2>2 DEF LinkInv, DuplicateInv
  <2>3. CASE k = n /\ g = f
    <3>1. g.packet \notin Members(taken[m])
      BY <1>2, <1>4, <2>3 DEF LinkInv, TakenInv
    <3>2. /\ mac[m].SeqNrChild[k] <= g.seq /\ g.seq \in Nat
          /\ mac[m].SeqNrChild[k] \in Nat
      BY <1>3, <1>4, <1>9, <2>3
    <3>3. ~ (g.seq < mac[m].SeqNrChild[k])
      BY <3>2
    <3> QED BY <2>1, <3>1, <3>3
  <2> QED BY <1>6, <2>2, <2>3
<1> QED BY <1>10, <1>11, <1>12 DEF LinkInv

\* A packet is taken from the frame in front of its source's queue, which
\* waits: as new, or as a duplicate.
LEMMA LinkData ==
    ASSUME HwInv, QInv, LinkInv, NEW m \in Node, NEW f \in Data,
           DataMakes(m, f), queued' = queued,
           mac[Src[f.packet]].queue # <<>>, First(mac[Src[f.packet]]) = f,
           IF f.seq < mac[m].SeqNrChild[Src[f.packet]]
           THEN taken' = taken ELSE Take(m, f)
    PROVE  /\ LinkInv' /\ f.packet \in Members(taken'[m])
           /\ \A k \in Node : Members(taken[k]) \subseteq Members(taken'[k])
<1> DEFINE n == Src[f.packet]
           Q(k) == Members(mac[k].queue)
           C(k) == mac[k].SeqNrChild
           C2(k) == mac'[k].SeqNrChild
           T(k) == Members(taken[k])
           T2(k) == Members(taken'[k])
           old == f.seq < C(m)[n]
<1>1. /\ n \in Node /\ f.seq \in Nat /\ Dest[f.packet] = m
      /\ f.packet \in Packet /\ OnlyAt(m)
      /\ mac'[m].queue = mac[m].queue
      /\ mac'[m].SeqNrParent = mac[m].SeqNrParent
      /\ C2(m)[n] = NextExpected(mac[m], f)
      /\ \A k \in Node : k # n => C2(m)[k] = C(m)[k]
      /\ \A k \in Node : k # m => C2(k) = C(k)
  BY DataFrame DEF DataMakes, Source, OnlyAt
<1>2. \A k \in Node : /\ Members(mac'[k].queue) = Q(k)
                      /\ mac'[k].SeqNrParent = mac[k].SeqNrParent
  BY <1>1 DEF OnlyAt
<1>3. /\ f \in Q(n) /\ f.packet \in Members(queued)
      /\ \A g \in Q(n) : g = f \/ Before(queued, f.packet, g.packet)
      /\ \A k \in Node : \A g \in Q(k) :
           /\ g \in Data /\ g.packet \in Packet /\ g.seq \in Nat
           /\ Src[g.packet] = k
      /\ \A g \in Q(n) : g.packet = f.packet => g = f
  BY <1>1, QueueFrames
<1>4. /\ taken \in [Node -> Seq(Packet)]
      /\ \A k \in Node : /\ C(k) \in [Node -> Nat]
                         /\ mac[k].SeqNrParent \in [Node \cup {Broadcast} -> Nat]
  BY QueueTypes DEF HwInv, TypeInv, Fields
<1>5. /\ \A k \in Node : k # m => taken'[k] = taken[k]
      /\ old => taken'[m] = taken[m]
      /\ ~ old => taken'[m] = Append(taken[m], f.packet)
  BY <1>4 DEF Take
<1>6. /\ \A k \in Node : k # m => T2(k) = T(k)
      /\ old => T2(m) = T(m)
      /\ ~ old => T2(m) = T(m) \cup {f.packet}
  <2>1. taken[m] \in Seq(Packet) /\ f.packet \in Packet
    BY <1>1, <1>4
  <2>2. Members(Append(taken[m], f.packet)) = T(m) \cup {f.packet}
    BY <2>1, MembersOf
  <2>3. \A k \in Node : k # m => T2(k) = T(k)
    BY <1>5
  <2>4. old => T2(m) = T(m)
    BY <1>5
  <2>5. ~ old => T2(m) = T(m) \cup {f.packet}
    BY <1>5, <2>2
  <2> QED BY <2>3, <2>4, <2>5
<1>7. C2(m)[n] = IF old THEN C(m)[n] ELSE f.seq + 1
  BY <1>1 DEF NextExpected
<1>8. old <=> f.packet \in T(m)
  BY <1>1, <1>3 DEF LinkInv, DuplicateInv
<1>9. \A g \in Q(n) : g # f /\ Dest[g.packet] = m => f.seq < g.seq
  BY <1>1, <1>3 DEF LinkInv, SeqInv
<1> HIDE DEF old, T, T2
<1>10. f.packet \in T2(m)
  BY <1>6, <1>8
<1>11. \A k \in Node : T(k) \subseteq T2(k)
  BY <1>6
<1>12. \A k \in Node : C(m)[k] \in Nat /\ C2(m)[k] \in Nat
  <2>1. C2(m) \in [Node -> Nat]
    BY <1>1 DEF OnlyAt, Fields
  <2> QED BY <1>4, <2>1
<1> HIDE DEF n, Q, C, C2
<1>13. SeqInv'
  <2>1. \A k \in Node : \A e \in Q(k) :
          /\ e.seq < mac'[k].SeqNrParent[Dest[e.packet]]
          /\ \A g \in Q(k) :
               Before(queued', e.packet, g.packet)
                 /\ Dest[e.packet] = Dest[g.packet] => e.seq < g.seq
    BY <1>2 DEF LinkInv, SeqInv, Q
  <2>2. ASSUME NEW k \in Node, NEW j \in Node
        PROVE  C2(j)[k] <= mac'[k].SeqNrParent[j]
    <3>1. C(j)[k] <= mac[k].SeqNrParent[j]
      BY DEF LinkInv, SeqInv, C
    <3>2. CASE j = m /\ k = n /\ ~ old
      <4>1. f.seq < mac[n].SeqNrParent[m]
        BY <1>1, <1>3 DEF LinkInv, SeqInv, Q
      <4>2. mac[n].SeqNrParent[m] \in Nat
        BY <1>1, <1>4
      <4>3. f.seq + 1 <= mac[n].SeqNrParent[m]
        BY <1>1, <4>1, <4>2
      <4> QED BY <1>2, <1>7, <3>2, <4>3
    <3>3. CASE ~ (j = m /\ k = n /\ ~ old)
      <4>1. C2(j)[k] = C(j)[k]
        BY <1>1, <1>7, <3>3
      <4> QED BY <1>2, <3>1, <4>1
    <3> QED BY <3>2, <3>3
  <2> QED BY <1>2, <2>1, <2>2 DEF SeqInv, C2, Q
<1>14. TakenInv'
  <2>1. \A j \in Node :
          /\ T(j) \subseteq Members(queued)
          /\ \A x \in T(j) : \A g \in Q(Src[x]) :
               x = g.packet \/ Before(queued, x, g.packet)
          /\ \A k \in Node : \A g \in Q(k) :
               Dest[g.packet] = Broadcast => g.packet \notin T(j)
    BY DEF LinkInv, TakenInv, T, Q
  <2>2. \A g \in Q(n) : f.packet = g.packet \/ Before(queued, f.packet, g.packet)
    BY <1>3
  <2>3. Members(queued) \subseteq Packet
    BY <1>1, QueueTypes, MembersOf
  <2>4. ASSUME NEW j \in Node
        PROVE  /\ T2(j) \subseteq Members(queued)
               /\ \A x \in T2(j) : \A g \in Q(Src[x]) :
                    x = g.packet \/ Before(queued, x, g.packet)
               /\ \A k \in Node : \A g \in Q(k) :
                    Dest[g.packet] = Broadcast => g.packet \notin T2(j)
    <3>1. \A x \in T2(j) : x \in T(j) \/ x = f.packet
      BY <1>6
    <3>2. Dest[f.packet] # Broadcast
      BY <1>1
    <3>3. f.packet \in Members(queued) /\ Src[f.packet] = n
      BY <1>3 DEF n
    <3>4. T2(j) \subseteq Members(queued)
      BY <2>1, <3>1, <3>3
    <3>5. ASSUME NEW x \in T2(j), NEW g \in Q(Src[x])
          PROVE  x = g.packet \/ Before(queued, x, g.packet)
      BY <2>1, <2>2, <3>1, <3>3, <3>5
    <3>6. ASSUME NEW k \in Node, NEW g \in Q(k), Dest[g.packet] = Broadcast
          PROVE  g.packet \notin T2(j)
      BY <2>1, <3>1, <3>2, <3>6
    <3> QED BY <3>4, <3>5, <3>6
  <2>5. \A x \in Members(queued) : Src[x] \in Node
    BY <2>3
  <2> QED BY <1>2, <2>4, <2>5 DEF TakenInv, T2
<1>15. DuplicateInv'
  <2>1. ASSUME NEW k \in Node, NEW g \in Q(k), NEW j \in Node,
               Dest[g.packet] = j
        PROVE  g.seq < C2(j)[k] <=> g.packet \in T2(j)
    <3>1. g.seq < C(j)[k] <=> g.packet \in T(j)
      BY <2>1 DEF LinkInv, DuplicateInv, Q, C, T
    <3>2. CASE j # m \/ k # n
      <4>1. C2(j)[k] = C(j)[k]
        BY <1>1, <3>2
      <4>2. g.packet # f.packet \/ j # m
        BY <1>3, <3>2 DEF n
      <4>3. g.packet \in T2(j) <=> g.packet \in T(j)
        BY <1>6, <4>2
      <4> QED BY <3>1, <4>1, <4>3
    <3>3. CASE j = m /\ k = n /\ old
      BY <1>6, <1>7, <3>1, <3>3
    <3>4. CASE j = m /\ k = n /\ ~ old /\ g = f
      <4>1. f.seq < f.seq + 1
        BY <1>1
      <4> QED BY <1>6, <1>7, <3>4, <4>1
    <3>5. CASE j = m /\ k = n /\ ~ old /\ g # f
      <4>1. f.seq < g.seq /\ g.seq \in Nat /\ f.seq \in Nat
        BY <1>1, <1>3, <1>9, <2>1, <3>5
      <4>2. C(m)[n] \in Nat /\ ~ (f.seq < C(m)[n])
        BY <1>12, <1>1, <3>5 DEF old
      <4>3. ~ (g.seq < f.seq + 1) /\ ~ (g.seq < C(m)[n])
        BY <4>1, <4>2
      <4>4. g.packet # f.packet
        BY <1>3, <3>5
      <4> QED BY <1>6, <1>7, <3>1, <3>5, <4>3, <4>4
    <3> QED BY <3>2, <3>3, <3>4, <3>5
  <2> QED BY <1>2, <2>1 DEF DuplicateInv, C2, T2, Q
<1> QED BY <1>10, <1>11, <1>13, <1>14, <1>15 DEF LinkInv, T, T2
\* A packet for all is taken when it has left its source's queue.
LEMMA LinkBroadcast ==
    ASSUME HwInv, QInv, LinkInv, NEW m \in Node, NEW f \in Data,
           ReceiveBroadcast(m, f), queued' = queued, DataArrives(m, f)
    PROVE  /\ LinkInv'
           /\ \A k \in Node : Members(taken[k]) \subseteq Members(taken'[k])
<1> DEFINE n == Src[f.packet]
           Q(k) == Members(mac[k].queue)
           T(k) == Members(taken[k])
           T2(k) == Members(taken'[k])
<1>1. /\ n \in Node /\ f.packet \in Packet /\ mac' = mac
      /\ Dest[f.packet] = Broadcast
  BY DataFrame DEF ReceiveBroadcast
<1>2. /\ outcome[f.packet] = "sent" /\ f.packet \in Members(queued)
      /\ \A g \in Q(n) : Before(queued, f.packet, g.packet)
  <2>1. /\ outcome[f.packet] = "sent"
        /\ \A g \in Q(n) : Before(queued, f.packet, g.packet)
    BY <1>1 DEF DataArrives
  <2> QED BY <1>1, <2>1 DEF QInv
<1>3. \A k \in Node : \A g \in Q(k) : g.packet # f.packet
  BY <1>2, QueueFrames
<1>4. taken \in [Node -> Seq(Packet)] /\ Members(queued) \subseteq Packet
  BY QueueTypes, <1>1, MembersOf DEF HwInv, TypeInv
<1>5. /\ \A k \in Node : k # m => T2(k) = T(k)
      /\ T2(m) = T(m) \cup {f.packet}
  <2>1. /\ \A k \in Node : k # m => taken'[k] = taken[k]
        /\ taken'[m] = Append(taken[m], f.packet)
    BY <1>4 DEF ReceiveBroadcast, Take
  <2>2. taken[m] \in Seq(Packet) /\ f.packet \in Packet
    BY <1>1, <1>4
  <2>3. Members(Append(taken[m], f.packet)) = T(m) \cup {f.packet}
    BY <2>2, MembersOf
  <2> QED BY <2>1, <2>3
<1>6. SeqInv'
  BY <1>1 DEF LinkInv, SeqInv
<1> HIDE DEF T, T2
<1>7. \A j \in Node : \A x \in T2(j) : x \in T(j) \/ x = f.packet
  BY <1>5
<1>8. TakenInv'
  <2>1. \A j \in Node :
          /\ T(j) \subseteq Members(queued)
          /\ \A x \in T(j) : \A g \in Q(Src[x]) :
               x = g.packet \/ Before(queued, x, g.packet)
          /\ \A k \in Node : \A g \in Q(k) :
               Dest[g.packet] = Broadcast => g.packet \notin T(j)
    BY DEF LinkInv, TakenInv, T
  <2> HIDE DEF Q
  <2>2. ASSUME NEW j \in Node
        PROVE  /\ T2(j) \subseteq Members(queued)
               /\ \A x \in T2(j) : \A g \in Q(Src[x]) :
                    x = g.packet \/ Before(queued, x, g.packet)
               /\ \A k \in Node : \A g \in Q(k) :
                    Dest[g.packet] = Broadcast => g.packet \notin T2(j)
    BY <1>2, <1>3, <1>7, <2>1
  <2> QED BY <1>1, <2>2 DEF TakenInv, T2, Q
<1>9. DuplicateInv'
  <2>1. ASSUME NEW k \in Node, NEW g \in Q(k), NEW j \in Node
        PROVE  g.packet \in T2(j) <=> g.packet \in T(j)
    BY <1>3, <1>5
  <2> QED BY <1>1, <2>1 DEF LinkInv, DuplicateInv, T, T2
<1>10. \A k \in Node : T(k) \subseteq T2(k)
  BY <1>5
<1> QED BY <1>6, <1>8, <1>9, <1>10 DEF LinkInv, T, T2

LEMMA CalmQueue ==
    ASSUME HwInv, NEW n \in Node, OnlyAt(n), Numbers(mac[n], mac'[n]),
           queued' = queued, taken' = taken,
           \/ mac'[n].queue = mac[n].queue
           \/ mac[n].queue # <<>> /\ mac'[n].queue = Tail(mac[n].queue)
    PROVE  Calm(n)
<1> DEFINE q == mac[n].queue
<1>1. ASSUME q # <<>>, mac'[n].queue = Tail(q)
      PROVE  Members(mac'[n].queue) \subseteq Members(q)
  <2>1. q \in Seq(Data)
    BY QueueTypes
  <2>2. Head(q) \in Data
    BY <1>1, <2>1, QueueHead
  <2> HIDE DEF q
  <2> QED BY <1>1, <2>1, <2>2, MembersOf
<1> QED BY <1>1 DEF Calm

LEMMA TimersCalm ==
    ASSUME HwInv, NEW n \in Node,
           \/ BackoffTimer(n) \/ TransmitFrame(n) \/ ChannelBusy(n)
           \/ SifsTimer(n) \/ RxAckTimer(n) \/ EndOfFrame(n)
    PROVE  Calm(n)
<1> DEFINE h == mac[n]
           g == mac'[n]
<1>1. TypeInv /\ h \in Fields /\ HostOK(h, onAir[n])
  BY DEF HwInv, TypeInv, HostInv
<1>2. queued' = queued /\ taken' = taken
  BY DEF BackoffTimer, TransmitFrame, ChannelBusy, SifsTimer, RxAckTimer,
         EndOfFrame, history
<1>3. CASE BackoffTimer(n)
  BY <1>1, <1>2, <1>3, BackoffEffect, CalmQueue
<1>4. CASE TransmitFrame(n)
  BY <1>1, <1>2, <1>4, TransmitEffect, CalmQueue
<1>5. CASE SifsTimer(n)
  BY <1>1, <1>2, <1>5, SifsEffect, CalmQueue
<1>6. CASE ChannelBusy(n)
  <2>1. h.queue # <<>>
    <3>1. "cca" \in h.timers
      BY <1>6 DEF ChannelBusy
    <3> QED BY <1>1, <3>1, TimerRuns DEF HostOK
  <2>2. /\ OnlyAt(n) /\ Numbers(h, g)
        /\ g.queue = Tail(h.queue) \/ g.queue = h.queue
    BY <1>1, <1>6, <2>1, BusyEffect DEF GoesOn
  <2> QED BY <1>2, <2>1, <2>2, CalmQueue
<1>7. CASE RxAckTimer(n)
  <2>1. h.queue # <<>>
    <3>1. "rxAck" \in h.timers
      BY <1>7 DEF RxAckTimer
    <3> QED BY <1>1, <3>1, TimerRuns DEF HostOK
  <2>2. /\ OnlyAt(n) /\ Numbers(h, g)
        /\ g.queue = Tail(h.queue) \/ g.queue = h.queue
    BY <1>1, <1>7, <2>1, RxAckEffect DEF GoesOn
  <2> QED BY <1>2, <2>1, <2>2, CalmQueue
<1>8. CASE EndOfFrame(n)
  <2>1. h.state = "TRANSMITFRAME_4" => h.queue # <<>>
    BY <1>1 DEF HostOK
  <2>2. /\ OnlyAt(n) /\ Numbers(h, g)
        /\ \/ h.state = "TRANSMITFRAME_4" /\ g.queue = Tail(h.queue)
           \/ g.queue = h.queue
    BY <1>1, <1>8, <2>1, EndEffect DEF GoesOn
  <2> QED BY <1>2, <2>1, <2>2, CalmQueue
<1> QED BY <1>3, <1>4, <1>5, <1>6, <1>7, <1>8

-----------------------------------------------------------------------------
(***************************************************************************)
(* Who waits for an acknowledgement goes on waiting for the same one, until *)
(* it has come or rxAckTimer fires.                                        *)
(***************************************************************************)
Steady(k) ==
    mac[k].state = "WAITACK_5" =>
        /\ mac'[k].state = "WAITACK_5"
        /\ mac'[k].queue # <<>> /\ First(mac'[k]) = First(mac[k])

TakenGrows == \A k \in Node : Members(taken[k]) \subseteq Members(taken'[k])

LEMMA SteadyOthers ==
    ASSUME HwInv, NEW n \in Node, OnlyAt(n), NEW k \in Node, k # n
    PROVE  Steady(k)
<1>1. mac'[k] = mac[k] /\ HostOK(mac[k], onAir[k])
  BY DEF HwInv, HostInv, OnlyAt
<1> QED BY <1>1 DEF Steady, HostOK

LEMMA SteadyUpper ==
    ASSUME HwInv, NEW p \in Packet, HandleUpperMsg(p)
    PROVE  Steady(Src[p])
<1> DEFINE n == Src[p]
           h == mac[n]
           g == mac'[n]
           f == [packet |-> p, seq |-> h.SeqNrParent[Dest[p]]]
<1>1. n \in Node /\ h \in Fields /\ HostOK(h, onAir[n])
  BY DEF HwInv, HostInv, TypeInv
<1>2. /\ f \in Data
      /\ g.queue = Append(h.queue, f) \/ g.queue = h.queue
      /\ h.state # "IDLE_1" => g.state = h.state
  BY UpperEffect DEF HwInv
<1> HIDE DEF f
<1>3. ASSUME h.state = "WAITACK_5"
      PROVE  /\ g.state = "WAITACK_5" /\ g.queue # <<>>
             /\ Head(g.queue) = Head(h.queue)
  <2>1. h.queue # <<>> /\ h.queue \in Seq(Data) /\ g.state = "WAITACK_5"
    BY <1>1, <1>2, <1>3 DEF HostOK, Fields
  <2>2. CASE g.queue = Append(h.queue, f)
    <3>1. /\ Append(h.queue, f) # <<>>
          /\ Head(Append(h.queue, f)) = Head(h.queue)
      BY <1>2, <2>1, QueueAppend
    <3> QED BY <2>1, <2>2, <3>1
  <2> QED BY <1>2, <2>1, <2>2
<1> QED BY <1>3 DEF Steady, First

\* Only a host that waits can stop waiting.
LEMMA SteadyTimers ==
    ASSUME HwInv, NEW n \in Node,
           \/ BackoffTimer(n) \/ TransmitFrame(n) \/ ChannelBusy(n)
           \/ SifsTimer(n) \/ EndOfFrame(n)
    PROVE  mac[n].state # "WAITACK_5" /\ Steady(n)
<1>1. mac[n] \in Fields /\ HostOK(mac[n], onAir[n])
  BY DEF HwInv, TypeInv, HostInv
<1>2. CASE EndOfFrame(n)
  BY <1>1, <1>2 DEF HostOK, EndOfFrame, Steady
<1>3. CASE ~ EndOfFrame(n)
  <2>1. \/ "backoff" \in mac[n].timers \/ "cca" \in mac[n].timers
        \/ "sifs" \in mac[n].timers
    BY <1>3 DEF BackoffTimer, TransmitFrame, ChannelBusy, SifsTimer
  <2> QED BY <1>1, <2>1, TimerRuns DEF Steady
<1> QED BY <1>2, <1>3

LEMMA StillAwaits ==
    ASSUME NEW k \in Node, NEW m \in Node, Awaits(mac[k], taken[m], m),
           Steady(k), TakenGrows
    PROVE  Awaits(mac'[k], taken'[m], m) /\ mac'[k].queue # <<>>
BY DEF Awaits, Steady, TakenGrows

\* What is on the air says which state its sender is in.
LEMMA OnAirState ==
    ASSUME HwInv, NEW m \in Node
    PROVE  /\ onAir[m] \in Frame
           /\ \A a \in Ack : onAir[m] = a => mac[m].state = "TRANSMITACK_7"
           /\ \A f \in Data : onAir[m] = f =>
                /\ mac[m].state = "TRANSMITFRAME_4" /\ mac[m].queue # <<>>
                /\ f = First(mac[m])
           /\ \A k : Prepares(m, k) => Acking(mac[m])
<1>1. /\ HostOK(mac[m], onAir[m]) /\ onAir[m] \in Frame
      /\ mac[m].queue \in Seq(Data)
  BY QueueTypes DEF HwInv, TypeInv, HostInv
<1>2. ASSUME NEW a \in Ack, onAir[m] = a
      PROVE  mac[m].state = "TRANSMITACK_7"
  <2>1. a # NoFrame /\ IsAck(a)
    BY AckFrame
  <2>2. ASSUME mac[m].state = "TRANSMITFRAME_4" PROVE FALSE
    <3>1. mac[m].queue # <<>> /\ a = First(mac[m])
      BY <1>1, <1>2, <2>2 DEF HostOK
    <3>2. First(mac[m]) \in Data
      BY <1>1, <3>1, QueueHead DEF First
    <3> QED BY <2>1, <3>1, <3>2, DataFrame
  <2> QED BY <1>1, <1>2, <2>1, <2>2 DEF HostOK
<1>3. ASSUME NEW f \in Data, onAir[m] = f
      PROVE  mac[m].state = "TRANSMITFRAME_4"
  <2>1. f # NoFrame /\ ~ IsAck(f)
    BY DataFrame
  <2> QED BY <1>1, <1>3, <2>1 DEF HostOK
<1>4. \A f \in Data : onAir[m] = f =>
        mac[m].queue # <<>> /\ f = First(mac[m])
  BY <1>1, <1>3 DEF HostOK
<1>5. \A k : Prepares(m, k) => Acking(mac[m])
  BY <1>2 DEF Prepares, Acking
<1> QED BY <1>1, <1>2, <1>3, <1>4, <1>5

\* Acknowledgements under way stay right.
LEMMA AckKept ==
    ASSUME HwInv, AckInv, NEW n \in Node, OnlyAt(n), TakenGrows,
           \A m \in Node : Prepares(m, n) => Steady(n),
           \A m \in Node : m # n => onAir'[m] = onAir[m],
           \A k \in Node : Prepares(n, k)' =>
               Prepares(n, k) \/ Awaits(mac'[k], taken'[n], n),
           \A a \in Ack : onAir'[n] = a => onAir[n] = a \/ a.ackFrom = n
    PROVE  AckInv'
<1>1. \A k \in Node : k # n => Steady(k)
  BY SteadyOthers
<1>2. ASSUME NEW m \in Node, NEW k \in Node, Prepares(m, k)'
      PROVE  Awaits(mac'[k], taken'[m], m)
  <2>1. CASE Prepares(m, k)
    <3>1. Awaits(mac[k], taken[m], m) /\ Steady(k)
      BY <1>1, <2>1 DEF AckInv
    <3> QED BY <3>1, StillAwaits
  <2>2. CASE ~ Prepares(m, k)
    <3>1. m = n
      BY <1>2, <2>2 DEF Prepares, OnlyAt
    <3> QED BY <1>2, <2>2, <3>1
  <2> QED BY <2>1, <2>2
<1>3. ASSUME NEW m \in Node, NEW a \in Ack, onAir'[m] = a
      PROVE  a.ackFrom = m
  BY <1>3 DEF AckInv
<1> QED BY <1>2, <1>3 DEF AckInv

\* No frame that has arrived is from n, no acknowledgement has reached n.
Silent(n) ==
    \A m \in Node :
        /\ \A f \in Data : arriving'[m] = f => Src[f.packet] # n
        /\ \A a \in Ack : arriving'[m] = a => ~ (m = n /\ a.ackTo = n)

\* What has arrived stays right until it is handled.
LEMMA ArrivalKept ==
    ASSUME HwInv, QInv, ArrivalInv, NEW n \in Node, OnlyAt(n), Grows(n),
           TakenGrows, Steady(n) \/ Silent(n),
           \A m \in Node : arriving'[m] = arriving[m] \/ arriving'[m] = NoFrame,
           Acking(mac'[n]) => \/ Acking(mac[n])
                              \/ arriving[n] # NoFrame /\ arriving'[n] = NoFrame,
           \A m \in Node : arriving'[m] # NoFrame => taken'[m] = taken[m]
    PROVE  ArrivalInv'
<1> SUFFICES ASSUME NEW m \in Node, arriving'[m] # NoFrame
             PROVE  /\ ~ Acking(mac'[m])
                    /\ \A k \in Node : arriving'[k] # NoFrame =>
                         arriving'[k] = arriving'[m]
                    /\ \A a \in Ack : arriving'[m] = a => AckArrives(m, a)'
                    /\ \A f \in Data : arriving'[m] = f => DataArrives(m, f)'
  BY DEF ArrivalInv
<1>1. /\ arriving'[m] = arriving[m] /\ arriving[m] # NoFrame
      /\ taken'[m] = taken[m]
      /\ ~ Acking(mac[m])
      /\ \A k \in Node : arriving[k] # NoFrame => arriving[k] = arriving[m]
      /\ \A a \in Ack : arriving[m] = a => AckArrives(m, a)
      /\ \A f \in Data : arriving[m] = f => DataArrives(m, f)
  BY DEF ArrivalInv
<1>2. \A k \in Node : k # n => mac'[k] = mac[k] /\ Steady(k)
  BY SteadyOthers DEF OnlyAt
<1>3. ~ Acking(mac'[m])
  BY <1>1, <1>2
<1>4. \A k \in Node : arriving'[k] # NoFrame => arriving'[k] = arriving'[m]
  BY <1>1
<1>5. ASSUME NEW a \in Ack, arriving'[m] = a
      PROVE  AckArrives(m, a)'
  <2>1. AckArrives(m, a) /\ a.ackFrom \in Node
    BY <1>1, <1>5, AckFrame
  <2>2. arriving[a.ackFrom] = NoFrame /\ arriving'[a.ackFrom] = NoFrame
    BY <2>1 DEF AckArrives
  <2>3. ~ Acking(mac'[a.ackFrom])
    BY <1>2, <2>1, <2>2 DEF AckArrives
  <2>4. ASSUME a.ackTo = m
        PROVE  Awaits(mac'[m], taken'[a.ackFrom], a.ackFrom)
    <3>1. Steady(m)
      BY <1>2, <1>5, <2>4 DEF Silent
    <3> QED BY <2>1, <2>4, <3>1, StillAwaits DEF AckArrives
  <2> QED BY <2>2, <2>3, <2>4 DEF AckArrives
<1>6. ASSUME NEW f \in Data, arriving'[m] = f
      PROVE  DataArrives(m, f)'
  <2> DEFINE s == Src[f.packet]
  <2>1. DataArrives(m, f) /\ s \in Node /\ f.packet \in Packet
    BY <1>1, <1>6, DataFrame
  <2>2. arriving[s] = NoFrame /\ arriving'[s] = NoFrame
    BY <2>1 DEF DataArrives
  <2>3. Steady(s)
    BY <1>2, <1>6, <2>1 DEF Silent
  <2>4. Dest[f.packet] = m =>
          /\ mac'[s].state = "WAITACK_5" /\ mac'[s].queue # <<>>
          /\ First(mac'[s]) = f
    BY <2>1, <2>3 DEF DataArrives, Steady
  <2>5. ASSUME Dest[f.packet] = Broadcast
        PROVE  /\ outcome'[f.packet] = "sent"
               /\ \A x \in Members(taken'[m]) :
                    Src[x] = s => Before(queued', x, f.packet)
               /\ \A g \in Members(mac'[s].queue) :
                    Before(queued', f.packet, g.packet)
    <3>1. /\ outcome[f.packet] = "sent"
          /\ \A x \in Members(taken[m]) :
               Src[x] = s => Before(queued, x, f.packet)
          /\ \A g \in Members(mac[s].queue) :
               Before(queued, f.packet, g.packet)
      BY <2>1, <2>5 DEF DataArrives
    <3>2. f.packet \in Members(queued)
      BY <2>1, <3>1 DEF QInv
    <3>3. /\ outcome'[f.packet] = "sent"
          /\ \A x \in Members(taken'[m]) :
               Src[x] = s => Before(queued', x, f.packet)
      BY <1>1, <2>1, <3>1 DEF Grows
    <3>4. ASSUME NEW g \in Members(mac'[s].queue)
          PROVE  Before(queued', f.packet, g.packet)
      <4>1. g \in Members(mac[s].queue) => Before(queued', f.packet, g.packet)
        BY <3>1 DEF Grows
      <4>2. CASE s # n
        BY <1>2, <2>1, <3>4, <4>1, <4>2
      <4>3. CASE s = n
        BY <3>2, <3>4, <4>1, <4>3 DEF Grows
      <4> QED BY <4>2, <4>3
    <3> QED BY <3>3, <3>4
  <2> HIDE DEF s
  <2> QED BY <2>2, <2>4, <2>5 DEF DataArrives, s
<1> QED BY <1>3, <1>4, <1>5, <1>6

-----------------------------------------------------------------------------
(***************************************************************************)
(* Each action keeps the whole.                                            *)
(***************************************************************************)
SUses == HwInv /\ QInv /\ SInv

LEMMA SUpper ==
    ASSUME SUses, NEW p \in Packet, HandleUpperMsg(p)
    PROVE  SInv'
<1> DEFINE n == Src[p]
<1>1. HwInv /\ QInv /\ LinkInv /\ AckInv /\ ArrivalInv
  BY DEF SUses, SInv, LinkInv
<1>2. /\ n \in Node /\ OnlyAt(n)
      /\ mac'[n].ackMessage = mac[n].ackMessage
      /\ mac'[n].state \in {mac[n].state, "BACKOFF_2"}
  BY <1>1, UpperEffect DEF HwInv
<1>3. onAir' = onAir /\ arriving' = arriving /\ taken' = taken
  BY DEF HandleUpperMsg
<1>4. LinkInv'
  BY <1>1, LinkUpper
<1>5. Steady(n) /\ Grows(n)
  <2>1. n \in Node /\ QueueStep(n)
    BY <1>1, UpperStep
  <2> QED BY <1>1, <2>1, SteadyUpper, QueueGrowth
<1>6. TakenGrows
  BY <1>3 DEF TakenGrows
<1> HIDE DEF n
<1>7. AckInv'
  <2>1. \A k \in Node : Prepares(n, k)' => Prepares(n, k)
    BY <1>2, <1>3 DEF Prepares
  <2> QED BY <1>1, <1>2, <1>3, <1>5, <1>6, <2>1, AckKept
<1>8. ArrivalInv'
  <2>1. Acking(mac'[n]) => Acking(mac[n])
    BY <1>2 DEF Acking
  <2> QED BY <1>1, <1>2, <1>3, <1>5, <1>6, <2>1, ArrivalKept
<1> QED BY <1>4, <1>7, <1>8 DEF SInv, LinkInv

\* The timers that neither take nor give up a packet that waits.
LEMMA STimers ==
    ASSUME SUses, NEW n \in Node,
           \/ BackoffTimer(n) \/ TransmitFrame(n) \/ ChannelBusy(n)
           \/ SifsTimer(n)
    PROVE  SInv'
<1> DEFINE h == mac[n]
           g == mac'[n]
<1>1. /\ HwInv /\ QInv /\ LinkInv /\ AckInv /\ ArrivalInv
      /\ TypeInv /\ h \in Fields /\ HostOK(h, onAir[n])
  BY DEF SUses, SInv, LinkInv, HwInv, HostInv, TypeInv
<1>2. Calm(n) /\ LinkInv' /\ Steady(n)
  <2>1. Calm(n) /\ Steady(n)
    BY <1>1, TimersCalm, SteadyTimers
  <2> QED BY <1>1, <2>1, LinkCalm
<1>3. /\ OnlyAt(n) /\ taken' = taken /\ TakenGrows
      /\ arriving' = arriving
      /\ \A m \in Node : m # n => onAir'[m] = onAir[m]
  <2>1. OnlyAt(n) /\ taken' = taken
    BY <1>2 DEF Calm
  <2>2. arriving' = arriving
    BY DEF BackoffTimer, TransmitFrame, ChannelBusy, SifsTimer
  <2>3. \A m \in Node : m # n => onAir'[m] = onAir[m]
    BY <1>1 DEF BackoffTimer, TransmitFrame, ChannelBusy, SifsTimer, TypeInv
  <2> QED BY <2>1, <2>2, <2>3 DEF TakenGrows
<1>4. Grows(n)
  <2>1. QueueStep(n)
    BY <1>1, TimerStep, BusyStep
  <2> QED BY <1>1, <2>1, QueueGrowth
<1>5. /\ Acking(g) => Acking(h)
      /\ \A k \in Node : Prepares(n, k)' =>
           Prepares(n, k) \/ Awaits(mac'[k], taken'[n], n)
      /\ \A a \in Ack : onAir'[n] = a => onAir[n] = a \/ a.ackFrom = n
  <2>1. CASE BackoffTimer(n) \/ ChannelBusy(n)
    <3>1. g.state \in {"CCA_3", "BACKOFF_2", "IDLE_1"}
      <4>1. CASE BackoffTimer(n)
        BY <1>1, <4>1, BackoffEffect
      <4>2. CASE ChannelBusy(n)
        <5>1. h.queue # <<>>
          <6>1. "cca" \in h.timers
            BY <4>2 DEF ChannelBusy
          <6> QED BY <1>1, <6>1, TimerRuns DEF HostOK
        <5> QED BY <1>1, <4>2, <5>1, BusyEffect DEF GoesOn
      <4> QED BY <2>1, <4>1, <4>2
    <3>2. onAir' = onAir
      BY <2>1 DEF BackoffTimer, ChannelBusy
    <3> QED BY <3>1, <3>2 DEF Acking, Prepares
  <2>2. CASE TransmitFrame(n)
    <3>1. g.state = "TRANSMITFRAME_4" /\ "cca" \in h.timers
      BY <1>1, <2>2, TransmitEffect
    <3>2. h.queue # <<>>
      BY <1>1, <3>1, TimerRuns DEF HostOK
    <3>3. onAir'[n] = First(h) /\ First(h) \in Data
      <4>1. onAir' = [onAir EXCEPT ![n] = First(h)]
        BY <2>2 DEF TransmitFrame
      <4>2. h.queue \in Seq(Data)
        BY <1>1, QueueTypes
      <4> QED BY <1>1, <3>2, <4>1, <4>2, QueueHead DEF First, TypeInv
    <3>4. \A a \in Ack : onAir'[n] # a
      BY <3>3, DataFrame, AckFrame
    <3> QED BY <3>1, <3>4 DEF Acking, Prepares
  <2>3. CASE SifsTimer(n)
    <3>1. g.state = "TRANSMITACK_7" /\ h.state = "WAITSIFS_6"
      <4>1. g.state = "TRANSMITACK_7" /\ "sifs" \in h.timers
        BY <1>1, <2>3, SifsEffect
      <4> QED BY <1>1, <4>1, TimerRuns
    <3>2. onAir'[n] = [ackFrom |-> n, ackTo |-> h.ackMessage]
      BY <1>1, <2>3 DEF SifsTimer, TypeInv
    <3>3. \A k \in Node : Prepares(n, k)' => Prepares(n, k)
      BY <3>1, <3>2 DEF Prepares
    <3> QED BY <3>1, <3>2, <3>3 DEF Acking
  <2> QED BY <2>1, <2>2, <2>3
<1> HIDE DEF h, g
<1>6. AckInv'
  BY <1>1, <1>2, <1>3, <1>5, AckKept
<1>7. ArrivalInv'
  BY <1>1, <1>2, <1>3, <1>4, <1>5, ArrivalKept DEF h, g
<1> QED BY <1>2, <1>6, <1>7 DEF SInv, LinkInv

\* rxAckTimer fires only when nothing is under way.
LEMMA SRxAck ==
    ASSUME SUses, NEW n \in Node, RxAckTimer(n)
    PROVE  SInv'
<1> DEFINE h == mac[n]
           g == mac'[n]
<1>1. /\ HwInv /\ QInv /\ LinkInv /\ AckInv /\ ArrivalInv
      /\ TypeInv /\ h \in Fields /\ HostOK(h, onAir[n])
  BY DEF SUses, SInv, LinkInv, HwInv, HostInv, TypeInv
<1>2. Calm(n) /\ LinkInv' /\ OnlyAt(n) /\ taken' = taken /\ TakenGrows
  <2>1. Calm(n)
    BY <1>1, TimersCalm
  <2> QED BY <1>1, <2>1, LinkCalm DEF Calm, TakenGrows
<1>3. arriving' = arriving /\ onAir' = onAir /\ ~ AckUnderWay(n)
  BY DEF RxAckTimer
<1>4. Grows(n)
  BY <1>1, RxAckStep, QueueGrowth
<1>5. g.state \in {"BACKOFF_2", "IDLE_1"}
  <2>1. h.queue # <<>>
    <3>1. "rxAck" \in h.timers
      BY DEF RxAckTimer
    <3> QED BY <1>1, <3>1, TimerRuns DEF HostOK
  <2> QED BY <1>1, <2>1, RxAckEffect DEF GoesOn
<1>6. \A m \in Node : ~ Prepares(m, n)
  BY <1>3, AckFrame DEF Prepares, AckUnderWay
<1>7. Silent(n)
  BY <1>3, AckFrame, DataFrame DEF Silent, AckUnderWay
<1>8. ~ Acking(g) /\ \A k \in Node : Prepares(n, k)' => Prepares(n, k)
  BY <1>3, <1>5 DEF Acking, Prepares
<1> HIDE DEF h, g
<1>9. AckInv'
  BY <1>1, <1>2, <1>3, <1>6, <1>8, AckKept
<1>10. ArrivalInv'
  BY <1>1, <1>2, <1>3, <1>4, <1>7, <1>8, ArrivalKept DEF g
<1> QED BY <1>2, <1>9, <1>10 DEF SInv, LinkInv

\* A frame arrives: the queue of its source says what it is.
LEMMA SEnd ==
    ASSUME SUses, NEW n \in Node, EndOfFrame(n)
    PROVE  SInv'
<1> DEFINE h == mac[n]
           g == mac'[n]
           F == onAir[n]
<1>1. /\ HwInv /\ QInv /\ LinkInv /\ AckInv /\ ArrivalInv
      /\ TypeInv /\ h \in Fields /\ HostOK(h, F)
  BY DEF SUses, SInv, LinkInv, HwInv, HostInv, TypeInv
<1>2. /\ Calm(n) /\ LinkInv' /\ Steady(n) /\ OnlyAt(n)
      /\ queued' = queued /\ taken' = taken /\ TakenGrows
  <2>1. Calm(n) /\ Steady(n)
    BY <1>1, TimersCalm, SteadyTimers
  <2> QED BY <1>1, <2>1, LinkCalm DEF Calm, TakenGrows
<1>3. /\ F \in Data \cup Ack
      /\ onAir' = [onAir EXCEPT ![n] = NoFrame]
      /\ \A m \in Node :
           /\ arriving'[m] = F \/ arriving'[m] = NoFrame
           /\ arriving'[m] # NoFrame => m # n /\ mac[m].radio = "RX"
  <2>1. F # NoFrame /\ onAir' = [onAir EXCEPT ![n] = NoFrame]
    BY DEF EndOfFrame
  <2>2. F \in Data \cup Ack
    BY <1>1, <2>1, OnAirState DEF Frame
  <2>3. PICK heard \in SUBSET {m \in Node \ {n} : mac[m].radio = "RX"} :
          arriving' = [m \in Node |-> IF m \in heard THEN F ELSE NoFrame]
    BY DEF EndOfFrame
  <2>4. \A m \in Node :
           /\ arriving'[m] = F \/ arriving'[m] = NoFrame
           /\ arriving'[m] # NoFrame => m # n /\ mac[m].radio = "RX"
    BY <2>3
  <2> QED BY <2>1, <2>2, <2>4
<1>4. /\ \A m \in Node : m # n => onAir'[m] = onAir[m] /\ mac'[m] = mac[m]
      /\ onAir'[n] = NoFrame /\ arriving'[n] = NoFrame
  BY <1>1, <1>2, <1>3 DEF TypeInv, OnlyAt
<1>5. \/ /\ h.state = "TRANSMITACK_7" /\ outcome' = outcome
         /\ g.state \in {"BACKOFF_2", "IDLE_1"}
      \/ /\ h.state = "TRANSMITFRAME_4" /\ Dest[First(h).packet] # Broadcast
         /\ g.state = "WAITACK_5" /\ g.queue = h.queue
      \/ /\ h.state = "TRANSMITFRAME_4" /\ Dest[First(h).packet] = Broadcast
         /\ outcome' = [outcome EXCEPT ![First(h).packet] = "sent"]
         /\ g.state \in {"BACKOFF_2", "IDLE_1"} /\ g.queue = Tail(h.queue)
  <2>1. h.state = "TRANSMITFRAME_4" => h.queue # <<>>
    BY <1>1 DEF HostOK
  <2> QED BY <1>1, <2>1, EndEffect DEF GoesOn
<1>6. ~ Acking(g)
  BY <1>5 DEF Acking
<1> HIDE DEF F, h, g
<1>7. AckInv'
  <2>1. \A a \in Ack : onAir'[n] # a
    BY <1>4, AckFrame
  <2>2. \A k \in Node : ~ Prepares(n, k)'
    BY <1>6, <2>1 DEF Prepares, Acking, g
  <2> QED BY <1>1, <1>2, <1>4, <2>1, <2>2, AckKept
<1>8. ASSUME NEW m \in Node, arriving'[m] # NoFrame
      PROVE  /\ arriving'[m] = F /\ m # n /\ mac'[m] = mac[m]
             /\ ~ Acking(mac[m]) /\ HostOK(mac[m], onAir[m])
  <2>1. arriving'[m] = F /\ m # n /\ mac[m].radio = "RX" /\ mac'[m] = mac[m]
    BY <1>3, <1>4, <1>8
  <2>2. HostOK(mac[m], onAir[m])
    BY <1>1 DEF HwInv, HostInv
  <2> QED BY <2>1, <2>2 DEF HostOK, Acking
<1>9. ASSUME NEW m \in Node, arriving'[m] # NoFrame,
             NEW a \in Ack, arriving'[m] = a
      PROVE  AckArrives(m, a)'
  <2>1. a.ackFrom = n /\ a.ackTo \in Node /\ onAir[n] = a
    <3>1. onAir[n] = a
      BY <1>8, <1>9 DEF F
    <3> QED BY <1>1, <3>1, AckFrame DEF AckInv
  <2>2. ASSUME a.ackTo = m
        PROVE  Awaits(mac'[m], taken'[n], n)
    <3>1. Prepares(n, m)
      BY <2>1, <2>2 DEF Prepares
    <3>2. Awaits(mac[m], taken[n], n)
      BY <1>1, <3>1 DEF AckInv
    <3> QED BY <1>2, <1>8, <1>9, <3>2
  <2> QED BY <1>4, <1>6, <2>1, <2>2 DEF AckArrives, g
<1>10. ASSUME NEW m \in Node, arriving'[m] # NoFrame,
              NEW f \in Data, arriving'[m] = f
       PROVE  DataArrives(m, f)'
  <2>1. onAir[n] = f
    BY <1>8, <1>10 DEF F
  <2>2. h.state = "TRANSMITFRAME_4" /\ h.queue # <<>> /\ f = First(h)
    BY <1>1, <2>1, OnAirState DEF h
  <2>3. f.packet \in Packet /\ Src[f.packet] = n
    BY <1>1, <2>2, FirstUnfinished DEF h
  <2>4. ASSUME Dest[f.packet] = m
        PROVE  g.state = "WAITACK_5" /\ g.queue # <<>> /\ First(g) = f
    <3>1. Dest[f.packet] # Broadcast
      BY <2>4
    <3> QED BY <1>5, <2>2, <3>1 DEF First
  <2>5. ASSUME Dest[f.packet] = Broadcast
        PROVE  /\ outcome'[f.packet] = "sent"
               /\ \A x \in Members(taken[m]) :
                    Src[x] = n => Before(queued, x, f.packet)
               /\ \A e \in Members(g.queue) : Before(queued, f.packet, e.packet)
    <3>1. /\ outcome' = [outcome EXCEPT ![f.packet] = "sent"]
          /\ g.queue = Tail(h.queue)
      BY <1>5, <2>2, <2>5
    <3>2. outcome'[f.packet] = "sent"
      BY <1>1, <2>3, <3>1, QueueTypes
    <3>3. /\ f \in Members(h.queue)
          /\ \A e \in Members(h.queue) :
               e = f \/ Before(queued, f.packet, e.packet)
          /\ \A e \in Members(Tail(h.queue)) : e # f
      BY <1>1, <2>2, QueueFrames DEF h
    <3>4. Members(g.queue) \subseteq Members(h.queue)
      BY <1>2 DEF Calm, g, h
    <3>5. \A e \in Members(g.queue) : Before(queued, f.packet, e.packet)
      BY <3>1, <3>3, <3>4
    <3>6. f.packet \notin Members(taken[m])
      BY <1>1, <2>5, <3>3 DEF LinkInv, TakenInv, h
    <3>7. \A x \in Members(taken[m]) :
            Src[x] = n => Before(queued, x, f.packet)
      BY <1>1, <3>3, <3>6 DEF LinkInv, TakenInv, h
    <3> QED BY <3>2, <3>5, <3>7
  <2> QED BY <1>2, <1>4, <2>3, <2>4, <2>5 DEF DataArrives, g
<1>11. ArrivalInv'
  <2>1. ASSUME NEW m \in Node, arriving'[m] # NoFrame
        PROVE  /\ ~ Acking(mac'[m])
               /\ \A k \in Node : arriving'[k] # NoFrame =>
                    arriving'[k] = arriving'[m]
    BY <1>8, <2>1
  <2> QED BY <1>9, <1>10, <2>1 DEF ArrivalInv
<1> QED BY <1>2, <1>7, <1>11 DEF SInv, LinkInv

\* A frame is handled: as data for this host, as data for all, as the
\* acknowledgement it waits for, or not at all.
LEMMA SLower ==
    ASSUME SUses, NEW n \in Node, HandleLowerMsg(n)
    PROVE  SInv'
<1> DEFINE h == mac[n]
           g == mac'[n]
           f == arriving[n]
<1>1. /\ HwInv /\ QInv /\ LinkInv /\ AckInv /\ ArrivalInv
      /\ TypeInv /\ h \in Fields /\ HostOK(h, onAir[n])
  BY DEF SUses, SInv, LinkInv, HwInv, HostInv, TypeInv
<1>2. /\ f \in Data \cup Ack /\ f # NoFrame
      /\ onAir' = onAir /\ queued' = queued
      /\ arriving'[n] = NoFrame
      /\ \A m \in Node : m # n => arriving'[m] = arriving[m]
      /\ \/ f \in Data /\ ReceiveData(n, f)
         \/ f \in Data /\ ReceiveBroadcast(n, f)
         \/ f \in Ack /\ ReceiveAck(n, f)
         \/ Discard(n, f)
  BY <1>1, LowerCases, DataFrame, AckFrame DEF TypeInv
<1>3. Grows(n)
  BY <1>1, LowerStep, QueueGrowth
<1>4. /\ ~ Acking(h)
      /\ \A a \in Ack : f = a => AckArrives(n, a)
      /\ \A e \in Data : f = e => DataArrives(n, e)
  BY <1>1, <1>2 DEF ArrivalInv
<1>5. \A m \in Node : arriving'[m] = arriving[m] \/ arriving'[m] = NoFrame
  BY <1>2
<1> HIDE DEF f
<1>6. CASE f \in Data /\ ReceiveData(n, f)
  <2> DEFINE s == Src[f.packet]
  <2>1. /\ DataMakes(n, f) /\ OnlyAt(n) /\ Dest[f.packet] = n
        /\ s \in Node /\ s # n
        /\ IF f.seq < mac[n].SeqNrChild[s] THEN taken' = taken ELSE Take(n, f)
    <3>1. DataMakes(n, f)
      BY <1>1, <1>6, DataEffect
    <3>2. OnlyAt(n) /\ Dest[f.packet] = n
      BY <3>1 DEF DataMakes
    <3>3. s \in Node /\ s # n
      BY <1>6, <3>2, DataFrame
    <3>4. IF f.seq < mac[n].SeqNrChild[s] THEN taken' = taken ELSE Take(n, f)
      BY <1>6 DEF ReceiveData
    <3> QED BY <3>1, <3>2, <3>3, <3>4
  <2>2. /\ mac[s].state = "WAITACK_5" /\ mac[s].queue # <<>>
        /\ First(mac[s]) = f
    BY <1>4, <1>6, <2>1 DEF DataArrives
  <2>3. LinkInv' /\ f.packet \in Members(taken'[n]) /\ TakenGrows
    BY <1>1, <1>2, <1>6, <2>1, <2>2, LinkData DEF TakenGrows
  <2>4. /\ g.queue = h.queue /\ g.ackMessage = s
        /\ ~ Acknowledges(h) => g.state = h.state
    BY <2>1 DEF DataMakes, Source
  <2>5. Steady(n)
    BY <1>1, <2>4 DEF Steady, First, Acknowledges, HostOK
  <2>6. \A m \in Node : m # n => taken'[m] = taken[m]
    BY <1>1, <2>1 DEF Take, TypeInv
  <2>7. mac'[s] = mac[s]
    BY <2>1 DEF OnlyAt
  <2>8. Awaits(mac'[s], taken'[n], n)
    BY <2>1, <2>2, <2>3, <2>7 DEF Awaits
  <2>9. \A k \in Node : Prepares(n, k)' =>
          Prepares(n, k) \/ Awaits(mac'[k], taken'[n], n)
    BY <1>2, <2>4, <2>8 DEF Prepares
  <2> HIDE DEF s, h, g
  <2>10. AckInv'
    BY <1>1, <1>2, <2>1, <2>3, <2>5, <2>9, AckKept
  <2>11. ArrivalInv'
    BY <1>1, <1>2, <1>3, <1>5, <2>1, <2>3, <2>5, <2>6, ArrivalKept DEF f
  <2> QED BY <2>3, <2>10, <2>11 DEF SInv, LinkInv
<1>7. CASE mac' = mac /\ LinkInv' /\ TakenGrows
           /\ \A m \in Node : m # n => taken'[m] = taken[m]
  <2>1. OnlyAt(n)
    BY <1>1, <1>7 DEF OnlyAt, TypeInv
  <2>2. Steady(n) /\ \A k : Prepares(n, k)' => Prepares(n, k)
    BY <1>1, <1>2, <1>7 DEF Steady, Prepares, HostOK
  <2>3. AckInv'
    BY <1>1, <1>2, <1>7, <2>1, <2>2, AckKept
  <2>4. ArrivalInv'
    BY <1>1, <1>2, <1>3, <1>5, <1>7, <2>1, <2>2, ArrivalKept DEF f
  <2> QED BY <1>7, <2>3, <2>4 DEF SInv, LinkInv
<1>8. CASE f \in Data /\ ReceiveBroadcast(n, f)
  <2>1. DataArrives(n, f)
    BY <1>4, <1>8
  <2>2. LinkInv' /\ TakenGrows
    BY <1>1, <1>2, <1>8, <2>1, LinkBroadcast DEF TakenGrows
  <2>3. mac' = mac /\ \A m \in Node : m # n => taken'[m] = taken[m]
    BY <1>1, <1>8 DEF ReceiveBroadcast, Take, TypeInv
  <2> QED BY <1>7, <2>2, <2>3
<1>9. CASE Discard(n, f)
  <2>1. mac' = mac /\ taken' = taken
    BY <1>9 DEF Discard
  <2>2. LinkInv'
    BY <1>1, <1>2, <2>1 DEF LinkInv, SeqInv, TakenInv, DuplicateInv
  <2> QED BY <1>7, <2>1, <2>2 DEF TakenGrows
<1>10. CASE f \in Ack /\ ReceiveAck(n, f)
  <2> DEFINE j == f.ackFrom
  <2>1. /\ OnlyAt(n) /\ Numbers(h, g) /\ Expected(n, f)
        /\ g.queue = Tail(h.queue) /\ g.state \in {"BACKOFF_2", "IDLE_1"}
    BY <1>1, <1>10, AckEffect DEF GoesOn
  <2>2. /\ taken' = taken /\ TakenGrows /\ h.queue # <<>>
        /\ f.ackTo = n /\ j = Dest[First(h).packet] /\ j \in Node
    BY <1>10, <2>1, AckFrame DEF ReceiveAck, Expected, TakenGrows
  <2>3. LinkInv'
    <3>1. Calm(n)
      BY <1>1, <1>2, <2>1, <2>2, CalmQueue
    <3> QED BY <1>1, <3>1, LinkCalm
  <2>4. AckArrives(n, f) /\ ~ Acking(mac[j])
    BY <1>4, <1>10 DEF AckArrives
  <2>5. ASSUME NEW m \in Node, Prepares(m, n) PROVE FALSE
    <3>1. Dest[First(h).packet] = m
      BY <1>1, <2>5 DEF AckInv, Awaits
    <3>2. Acking(mac[m])
      BY <1>1, <2>5, OnAirState
    <3> QED BY <2>2, <2>4, <3>1, <3>2
  <2>6. ~ Acking(g) /\ \A k : Prepares(n, k)' => Prepares(n, k)
    BY <1>2, <2>1 DEF Acking, Prepares
  <2>7. Silent(n)
    <3>1. ASSUME NEW m \in Node, NEW e \in Data, arriving'[m] = e,
                 Src[e.packet] = n
          PROVE  FALSE
      <4>1. arriving[m] = e /\ e # NoFrame
        BY <1>2, <3>1, DataFrame
      <4>2. arriving[n] = NoFrame
        BY <1>1, <3>1, <4>1 DEF ArrivalInv, DataArrives
      <4> QED BY <1>2, <4>2 DEF f
    <3>2. \A a \in Ack : arriving'[n] # a
      BY <1>2, AckFrame
    <3> QED BY <3>1, <3>2 DEF Silent
  <2> HIDE DEF j, h, g
  <2>8. AckInv'
    BY <1>1, <1>2, <2>1, <2>2, <2>5, <2>6, AckKept
  <2>9. ArrivalInv'
    BY <1>1, <1>2, <1>3, <1>5, <2>1, <2>2, <2>6, <2>7, ArrivalKept DEF g
  <2> QED BY <2>3, <2>8, <2>9 DEF SInv, LinkInv
<1> QED BY <1>2, <1>6, <1>8, <1>9, <1>10 DEF f

LEMMA SInit ==
    ASSUME Init PROVE SInv
<1>1. Len(<<>>) = 0 /\ 1..0 = {} /\ 0 <= 0
  OBVIOUS
<1>2. Members(<<>>) = {}
  BY <1>1 DEF Members
<1>3. /\ \A n \in Node : /\ mac[n].state = "IDLE_1" /\ mac[n].queue = <<>>
                         /\ \A m \in Node : /\ mac[n].SeqNrChild[m] = 0
                                            /\ mac[n].SeqNrParent[m] = 0
                         /\ onAir[n] = NoFrame /\ arriving[n] = NoFrame
                         /\ taken[n] = <<>>
  BY DEF Init
<1>4. SeqInv /\ TakenInv /\ DuplicateInv
  BY <1>1, <1>2, <1>3 DEF SeqInv, TakenInv, DuplicateInv
<1>5. AckInv
  BY <1>3, AckFrame DEF AckInv, Prepares
<1>6. ArrivalInv
  BY <1>3 DEF ArrivalInv
<1> QED BY <1>4, <1>5, <1>6 DEF SInv

LEMMA SStep ==
    ASSUME SUses, [Next]_vars
    PROVE  SInv'
<1>1. CASE UNCHANGED vars
  BY <1>1 DEF vars, history, SUses, SInv, SeqInv, TakenInv, DuplicateInv,
     AckInv, Prepares, Awaits, ArrivalInv, AckArrives, DataArrives
<1>2. CASE Next
  BY <1>2, SUpper, STimers, SRxAck, SEnd, SLower DEF Next
<1> QED BY <1>1, <1>2

LEMMA ServiceInvariant ==
    Spec => []SInv
<1>1. Init => SInv
  BY SInit
<1>2. HwInv /\ QInv /\ SInv /\ [Next]_vars => SInv'
  BY SStep DEF SUses
<1> QED BY <1>1, <1>2, Hardware, QueueInvariant, PTL DEF Spec

-----------------------------------------------------------------------------
(***************************************************************************)
(* Sequence numbers need no agreement: whatever is lost, retransmitted or  *)
(* overheard, a frame waiting at its source is below SeqNrChild of its     *)
(* destination exactly when that host has taken its packet, so that        *)
(* handleLowerMsg passes up no packet twice and suppresses no new one.     *)
(***************************************************************************)
THEOREM DuplicateMeansTakenCorrect ==
    Spec => []DuplicateMeansTaken
<1>1. HwInv /\ QInv /\ SInv => DuplicateMeansTaken
  <2> SUFFICES ASSUME HwInv, QInv, SInv, NEW n \in Node,
                      NEW f \in Members(mac[n].queue),
                      Dest[f.packet] # Broadcast
               PROVE  f.seq < mac[Dest[f.packet]].SeqNrChild[n]
                        <=> f.packet \in Members(taken[Dest[f.packet]])
    BY DEF DuplicateMeansTaken
  <2>1. Dest[f.packet] \in Node
    BY QueueFrames
  <2> QED BY <2>1 DEF SInv, DuplicateInv
<1> QED BY <1>1, Hardware, QueueInvariant, ServiceInvariant, PTL

(***************************************************************************)
(* An acknowledgement carries no number, and is yet never taken for that   *)
(* of another packet: from the moment csma prepares one until it has come, *)
(* the host it is for waits, with the packet in front that was taken; and  *)
(* one that comes is accepted.                                             *)
(***************************************************************************)
THEOREM AckIsExpectedCorrect ==
    Spec => []AckIsExpected
<1>1. HwInv /\ SInv => AckIsExpected
  <2> SUFFICES ASSUME HwInv, SInv, NEW m \in Node
               PROVE  /\ \A n \in AcksTo(m) :
                           /\ mac[n].state = "WAITACK_5"
                           /\ Dest[First(mac[n]).packet] = m
                           /\ First(mac[n]).packet \in Members(taken[m])
                      /\ IsAck(arriving[m]) /\ arriving[m].ackTo = m =>
                           Expected(m, arriving[m])
    BY DEF AckIsExpected
  <2>1. /\ AckInv /\ ArrivalInv
        /\ mac[m] \in Fields /\ HostOK(mac[m], onAir[m])
        /\ onAir[m] \in Frame /\ arriving[m] \in Frame
    BY DEF SInv, HwInv, HostInv, TypeInv
  <2>2. ASSUME NEW n \in AcksTo(m)
        PROVE  Awaits(mac[n], taken[m], m)
    <3>1. n \in Node /\ Prepares(m, n)
      <4>1. CASE mac[m].state = "WAITSIFS_6" /\ n = mac[m].ackMessage
        BY <2>1, <4>1 DEF Fields, HostOK, Prepares
      <4>2. CASE IsAck(onAir[m]) /\ n = onAir[m].ackTo
        <5>1. onAir[m] \in Ack
          BY <2>1, <4>2, FrameKinds
        <5> QED BY <4>2, <5>1, AckFrame DEF Prepares
      <4> QED BY <2>2, <4>1, <4>2 DEF AcksTo
    <3> QED BY <2>1, <3>1 DEF AckInv
  <2>3. ASSUME IsAck(arriving[m]), arriving[m].ackTo = m
        PROVE  Expected(m, arriving[m])
    <3>1. arriving[m] \in Ack /\ arriving[m] # NoFrame
      BY <2>1, <2>3, FrameKinds, AckFrame
    <3>2. AckArrives(m, arriving[m])
      BY <2>1, <3>1 DEF ArrivalInv
    <3> QED BY <2>1, <2>3, <3>2 DEF AckArrives, Awaits, Expected, HostOK
  <2> QED BY <2>2, <2>3 DEF Awaits
<1> QED BY <1>1, Hardware, ServiceInvariant, PTL

-----------------------------------------------------------------------------
(***************************************************************************)
(* Csma implements MacService: what each action is above the MAC layer.    *)
(***************************************************************************)
LEMMA SameMembers ==
    ASSUME NEW s PROVE Service!Members(s) = Members(s)
BY DEF Service!Members, Members

LEMMA TurnOrder ==
    ASSUME Distinct(queued), NEW x, NEW y, Before(queued, x, y)
    PROVE  Service!Turn(x) < Service!Turn(y)
<1>1. PICK i, j \in 1..Len(queued) : i < j /\ queued[i] = x /\ queued[j] = y
  BY DEF Before
<1>2. \A k \in 1..Len(queued) : /\ queued[k] = x => k = i
                                /\ queued[k] = y => k = j
  BY <1>1 DEF Distinct
<1>3. Service!Turn(x) = i /\ Service!Turn(y) = j
  BY <1>1, <1>2 DEF Service!Turn
<1> QED BY <1>1, <1>3

Above == <<queued, outcome, taken, passedUp>>

\* A packet leaves the queue: acknowledged, sent to all, or given up.
LEMMA PopServes ==
    ASSUME SUses, NEW n \in Node, NEW r \in {"success", "dropped", "sent"},
           Pops(n, r), UNCHANGED <<taken, passedUp>>
    PROVE  \E p \in Packet : Service!Finish(p) \/ Service!GiveUp(p)
<1> DEFINE p == First(mac[n]).packet
<1>1. HwInv /\ QInv /\ AckInv /\ ArrivalInv
  BY DEF SUses, SInv
<1>2. /\ mac[n].queue # <<>> /\ queued' = queued
      /\ outcome' = [outcome EXCEPT ![p] = r]
      /\ r = "sent" => Dest[p] = Broadcast
      /\ r = "success" => \E f \in Ack : arriving[n] = f /\ Expected(n, f)
  BY DEF Pops, Unicast
<1>3. p \in Packet /\ p \in Members(queued) /\ outcome[p] = "none"
  BY <1>1, <1>2, FirstUnfinished
<1>4. CASE r = "dropped"
  BY <1>2, <1>3, <1>4, SameMembers DEF Service!GiveUp
<1>5. CASE r = "sent"
  BY <1>2, <1>3, <1>5, SameMembers DEF Service!Finish
<1>6. CASE r = "success"
  <2>1. PICK f \in Ack : arriving[n] = f /\ Expected(n, f)
    BY <1>2, <1>6
  <2>2. AckArrives(n, f) /\ f.ackFrom \in Node /\ f.ackTo = n
    BY <1>1, <2>1, AckFrame DEF ArrivalInv, Expected
  <2>3. Dest[p] = f.ackFrom /\ p \in Members(taken[f.ackFrom])
    BY <2>2 DEF AckArrives, Awaits
  <2>4. Dest[p] # Broadcast
    BY <2>2, <2>3
  <2> HIDE DEF p
  <2> QED BY <1>2, <1>3, <1>6, <2>3, <2>4, SameMembers DEF Service!Finish
<1> QED BY <1>4, <1>5, <1>6

LEMMA DataServes ==
    ASSUME SUses, NEW n \in Node, HandleLowerMsg(n), NEW f \in Data,
           arriving[n] = f, ReceiveData(n, f)
    PROVE  UNCHANGED Above \/ Service!Take(n, f.packet)
<1> DEFINE p == f.packet
           s == Src[p]
<1>1. HwInv /\ QInv /\ SeqInv /\ TakenInv /\ DuplicateInv /\ ArrivalInv
  BY DEF SUses, SInv
<1>2. /\ p \in Packet /\ s \in Node /\ Dest[p] = n /\ s # n /\ f # NoFrame
      /\ queued' = queued /\ outcome' = outcome
      /\ \/ UNCHANGED <<taken, passedUp>>
         \/ ~ (f.seq < mac[n].SeqNrChild[s]) /\ Take(n, f)
  BY DataFrame DEF HandleLowerMsg, ReceiveData
<1>3. mac[s].queue # <<>> /\ First(mac[s]) = f
  BY <1>1, <1>2 DEF ArrivalInv, DataArrives
<1>4. /\ f \in Members(mac[s].queue) /\ p \in Members(queued)
      /\ outcome[p] = "none"
  BY <1>1, <1>2, <1>3, QueueFrames
<1>5. ASSUME ~ (f.seq < mac[n].SeqNrChild[s]), Take(n, f)
      PROVE  Service!Take(n, p)
  <2>1. p \notin Members(taken[n])
    BY <1>1, <1>2, <1>4, <1>5 DEF DuplicateInv
  <2>2. \A x \in Members(taken[n]) :
          Src[x] = s => Service!Turn(x) < Service!Turn(p)
    BY <1>1, <1>2, <1>4, <2>1, TurnOrder DEF TakenInv, QInv
  <2>3. taken' = [taken EXCEPT ![n] = Append(@, p)]
    BY <1>5 DEF Take
  <2>4. passedUp' \in {passedUp, [passedUp EXCEPT ![n] = Append(@, p)]}
    BY <1>5 DEF Take, SendUp, FsmError
  <2> QED BY <1>2, <1>4, <2>2, <2>3, <2>4, SameMembers
          DEF Service!Take, Service!IsFor
<1> QED BY <1>2, <1>5 DEF Above

LEMMA BroadcastServes ==
    ASSUME SUses, NEW n \in Node, HandleLowerMsg(n), NEW f \in Data,
           arriving[n] = f, ReceiveBroadcast(n, f)
    PROVE  Service!Take(n, f.packet)
<1> DEFINE p == f.packet
           s == Src[p]
<1>1. HwInv /\ QInv /\ ArrivalInv
  BY DEF SUses, SInv
<1>2. /\ p \in Packet /\ s \in Node /\ Dest[p] = Broadcast /\ f # NoFrame
      /\ queued' = queued /\ outcome' = outcome
      /\ taken' = [taken EXCEPT ![n] = Append(@, p)]
      /\ passedUp' \in {passedUp, [passedUp EXCEPT ![n] = Append(@, p)]}
  BY DataFrame DEF HandleLowerMsg, ReceiveBroadcast, Take, SendUp, FsmError
<1>3. DataArrives(n, f)
  BY <1>1, <1>2 DEF ArrivalInv
<1>4. /\ s # n /\ outcome[p] = "sent"
      /\ \A x \in Members(taken[n]) : Src[x] = s => Before(queued, x, p)
  BY <1>2, <1>3 DEF DataArrives
<1>5. p \in Members(queued)
  BY <1>1, <1>2, <1>4 DEF QInv
<1>6. \A x \in Members(taken[n]) :
        Src[x] = s => Service!Turn(x) < Service!Turn(p)
  BY <1>1, <1>4, TurnOrder DEF QInv
<1> QED BY <1>2, <1>4, <1>5, <1>6, SameMembers
        DEF Service!Take, Service!IsFor

\* What a step that takes nothing is above the MAC layer.
LEMMA QueueServes ==
    ASSUME SUses, NEW n \in Node, QueueStep(n), UNCHANGED <<taken, passedUp>>
    PROVE  UNCHANGED Above \/ Service!Next
<1>1. CASE Keeps(n) \/ Transmits(n) \/ TriesAgain(n)
  BY <1>1 DEF Keeps, Transmits, TriesAgain, Above
<1>2. ASSUME NEW p \in Packet, Refuses(n, p) PROVE Service!Refuse(p)
  BY <1>2, SameMembers DEF Refuses, Service!Refuse
<1>3. ASSUME NEW p \in Packet, NEW f \in Data, Enqueues(n, p, f)
      PROVE  Service!Accept(p)
  BY <1>3, SameMembers DEF Enqueues, Service!Accept
<1>4. ASSUME NEW r \in {"success", "dropped", "sent"}, Pops(n, r)
      PROVE  \E p \in Packet : Service!Finish(p) \/ Service!GiveUp(p)
  BY <1>4, PopServes
<1> QED BY <1>1, <1>2, <1>3, <1>4 DEF QueueStep, Service!Next

LEMMA ServiceStep ==
    ASSUME SUses, [Next]_vars
    PROVE  [Service!Next]_Above
<1>1. CASE UNCHANGED vars
  BY <1>1 DEF vars, history, Above
<1>2. ASSUME NEW n \in Node, HandleLowerMsg(n)
      PROVE  UNCHANGED Above \/ Service!Next
  <2> DEFINE f == arriving[n]
  <2>1. /\ \/ f \in Data /\ ReceiveData(n, f)
           \/ f \in Data /\ ReceiveBroadcast(n, f)
           \/ f \in Ack /\ ReceiveAck(n, f)
           \/ Discard(n, f)
        /\ QueueStep(n)
    BY <1>2, LowerCases, LowerStep DEF SUses, HwInv
  <2>2. CASE f \in Data /\ ReceiveData(n, f)
    <3>1. UNCHANGED Above \/ Service!Take(n, f.packet)
      BY <1>2, <2>2, DataServes
    <3> QED BY <2>2, <3>1, DataFrame DEF Service!Next
  <2>3. CASE f \in Data /\ ReceiveBroadcast(n, f)
    <3>1. Service!Take(n, f.packet)
      BY <1>2, <2>3, BroadcastServes
    <3> QED BY <2>3, <3>1, DataFrame DEF Service!Next
  <2>4. CASE ReceiveAck(n, f) \/ Discard(n, f)
    <3>1. UNCHANGED <<taken, passedUp>>
      BY <2>4 DEF ReceiveAck, Discard
    <3> QED BY <2>1, <3>1, QueueServes
  <2> QED BY <2>1, <2>2, <2>3, <2>4
<1>3. CASE Next /\ ~ \E n \in Node : HandleLowerMsg(n)
  <2>1. UNCHANGED <<taken, passedUp>>
    BY <1>3 DEF Next, HandleUpperMsg, BackoffTimer, TransmitFrame,
       ChannelBusy, SifsTimer, RxAckTimer, EndOfFrame, history
  <2>2. \E n \in Node : QueueStep(n)
    BY <1>3, EveryQueueStep DEF SUses
  <2> QED BY <2>1, <2>2, QueueServes
<1> QED BY <1>1, <1>2, <1>3

(***************************************************************************)
(* csma.cc keeps the promise of MacService for any hosts, packets, queue   *)
(* length and limits, whatever the medium loses, delays or lets collide:   *)
(* a packet is taken at most once by a host, packets of one host in their  *)
(* order, and each ends once, as a success only when it was taken.         *)
(***************************************************************************)
THEOREM CsmaImplementsMacService ==
    Spec => ImplementsMacService
<1>1. Init => Service!Init
  BY DEF Init, Service!Init
<1>2. HwInv /\ QInv /\ SInv /\ [Next]_vars => [Service!Next]_(Service!vars)
  BY ServiceStep DEF SUses, Above, Service!vars
<1> QED
  BY <1>1, <1>2, Hardware, QueueInvariant, ServiceInvariant, PTL
  DEF Spec, ImplementsMacService, Service!Spec

-----------------------------------------------------------------------------
(***************************************************************************)
(* fsmError.  The frames deleted are those that a host's own transmission  *)
(* met: a host that only listens passes up all it takes.                   *)
(***************************************************************************)
HasSent(n) == \E p \in Packet : Src[p] = n /\ sent[p] > 0

ListenersLoseNothing ==
    \A n \in Node : HasSent(n) \/ passedUp[n] = taken[n]

LEMMA TransmittingHasSent ==
    ASSUME HwInv, QInv, AttemptsInv, NEW n \in Node,
           mac[n].state = "TRANSMITFRAME_4"
    PROVE  HasSent(n)
<1> DEFINE h == mac[n]
           p == First(h).packet
<1>1. h \in Fields /\ h.queue # <<>> /\ Busy(h) /\ AttemptsOK(h, sent)
  BY DEF HwInv, TypeInv, HostInv, HostOK, AttemptsInv, Busy
<1>2. sent[p] = h.txAttempts + 1 /\ h.txAttempts \in Nat
  BY <1>1 DEF AttemptsOK, Fields
<1>3. p \in Packet /\ Src[p] = n
  <2>1. Len(h.queue) >= 1 /\ First(h) = h.queue[1]
    BY <1>1, QueueHead DEF Fields, First
  <2> QED BY <2>1, QueuePackets
<1> HIDE DEF h, p
<1>4. sent[p] > 0
  BY <1>2
<1> QED BY <1>3, <1>4 DEF HasSent

LEMMA HasSentStays ==
    ASSUME HwInv, [Next]_vars, NEW n \in Node, HasSent(n)
    PROVE  HasSent(n)'
<1>1. PICK p \in Packet : Src[p] = n /\ sent[p] > 0
  BY DEF HasSent
<1>2. sent \in [Packet -> Nat]
  BY DEF HwInv, TypeInv
<1>3. CASE sent' = sent
  BY <1>1, <1>3 DEF HasSent
<1>4. ASSUME NEW m \in Node, Transmits(m) PROVE HasSent(n)'
  <2> DEFINE x == First(mac[m]).packet
  <2>1. sent' = [sent EXCEPT ![x] = @ + 1]
    BY <1>4 DEF Transmits
  <2> HIDE DEF x
  <2>2. sent'[p] = sent[p] \/ sent'[p] = sent[p] + 1
    BY <1>2, <2>1
  <2>3. sent'[p] > 0
    BY <1>1, <1>2, <2>2
  <2> QED BY <1>1, <2>3 DEF HasSent
<1>5. ASSUME NEW m \in Node, QueueStep(m), ~ Transmits(m) PROVE sent' = sent
  BY <1>5 DEF QueueStep, Keeps, Enqueues, Refuses, TriesAgain, Pops
<1>6. UNCHANGED vars => sent' = sent
  BY DEF vars, history
<1> QED BY <1>3, <1>4, <1>5, <1>6, EveryQueueStep

LEMMA ListenersStep ==
    ASSUME SUses, PassedUpType, AttemptsInv, ListenersLoseNothing, [Next]_vars
    PROVE  ListenersLoseNothing'
<1>1. HwInv /\ QInv /\ ArrivalInv
  BY DEF SUses, SInv
<1>2. CASE UNCHANGED <<taken, passedUp>>
  <2> SUFFICES ASSUME NEW n \in Node, ~ HasSent(n)'
               PROVE  (passedUp[n] = taken[n])'
    BY DEF ListenersLoseNothing
  <2>1. ~ HasSent(n)
    BY <1>1, HasSentStays
  <2> QED BY <1>2, <2>1 DEF ListenersLoseNothing
<1>3. ASSUME NEW m \in Node, arriving[m] \in Data, Take(m, arriving[m])
      PROVE  ListenersLoseNothing'
  <2> SUFFICES ASSUME NEW n \in Node, ~ HasSent(n)'
               PROVE  (passedUp[n] = taken[n])'
    BY DEF ListenersLoseNothing
  <2> DEFINE f == arriving[m]
  <2>1. passedUp[n] = taken[n]
    BY <1>1, HasSentStays DEF ListenersLoseNothing
  <2>2. n = m => ~ Transmitting(mac[m])
    <3>1. f # NoFrame
      BY <1>3, DataFrame
    <3>2. mac[m].state # "TRANSMITACK_7"
      BY <1>1, <3>1 DEF ArrivalInv, Acking
    <3>3. n = m => mac[m].state # "TRANSMITFRAME_4"
      BY <1>1, AttemptsInv, TransmittingHasSent, HasSentStays
    <3> QED BY <3>2, <3>3 DEF Transmitting
  <2>3. /\ taken' = [taken EXCEPT ![m] = Append(@, f.packet)]
        /\ \/ passedUp' = [passedUp EXCEPT ![m] = Append(@, f.packet)]
           \/ n # m /\ passedUp' = passedUp
    BY <1>3, <2>2 DEF Take, SendUp, FsmError
  <2>4. taken \in [Node -> Seq(Packet)] /\ passedUp \in [Node -> Seq(Packet)]
    BY <1>1 DEF HwInv, TypeInv, PassedUpType
  <2> HIDE DEF f
  <2> QED BY <2>1, <2>3, <2>4
<1> QED BY <1>1, <1>2, <1>3, TakenOnArrival DEF HwInv

(***************************************************************************)
(* A host that has transmitted no packet of its own passes up every packet *)
(* it takes, whatever it acknowledges meanwhile: of the events that        *)
(* fsmError deletes a frame for, those of updateStatusTransmitAck never    *)
(* happen, and those of updateStatusTransmitFrame need a frame of its own. *)
(***************************************************************************)
THEOREM ListenersPassUp ==
    Spec => []ListenersLoseNothing
<1>1. Init => AttemptsInv /\ ListenersLoseNothing
  BY AInit DEF Init, ListenersLoseNothing
<1>2. HwInv /\ QInv /\ SInv /\ PassedUpType
        /\ AttemptsInv /\ ListenersLoseNothing /\ [Next]_vars
        => AttemptsInv' /\ ListenersLoseNothing'
  BY AStep, ListenersStep DEF SUses
<1> QED
  BY <1>1, <1>2, Hardware, QueueInvariant, ServiceInvariant, PassedUp, PTL
  DEF Spec

=============================================================================
