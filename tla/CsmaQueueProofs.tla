--------------------------- MODULE CsmaQueueProofs ---------------------------
(***************************************************************************)
(* The queues of the csma modules, for any number of hosts and packets and *)
(* any limits: each holds the unfinished packets of its host in order, and *)
(* each packet is transmitted a bounded number of times.                   *)
(*                                                                         *)
(* Every step is first classified by what it does to the queue of one      *)
(* host, and the invariants are proved on these kinds of steps.            *)
(***************************************************************************)
EXTENDS CsmaProofs

USE CsmaAssumption

\* The first packet is in the hands of the radio or waits for its Ack.
Busy(h) == h.state \in {"TRANSMITFRAME_4", "WAITACK_5"}

Unicast(h) == Dest[First(h).packet] # Broadcast

\* What a step does to the queue and the attempts of n.
Keeps(n) ==
    LET h == mac[n]
        g == mac'[n]
    IN  /\ g.queue = h.queue /\ g.txAttempts = h.txAttempts
        /\ Busy(g) <=> Busy(h)
        /\ g.state = "WAITACK_5" => h.state = "WAITACK_5" \/ Unicast(h)
        /\ queued' = queued /\ outcome' = outcome /\ sent' = sent

Enqueues(n, p, f) ==
    LET h == mac[n]
        g == mac'[n]
    IN  /\ Src[p] = n /\ f.packet = p
        /\ outcome[p] = "none" /\ p \notin Members(queued)
        /\ Len(h.queue) <= QueueLength
        /\ g.queue = Append(h.queue, f) /\ g.txAttempts = h.txAttempts
        /\ Busy(g) <=> Busy(h)
        /\ g.state = "WAITACK_5" => h.state = "WAITACK_5"
        /\ queued' = Append(queued, p) /\ outcome' = outcome /\ sent' = sent

Refuses(n, p) ==
    LET h == mac[n]
        g == mac'[n]
    IN  /\ outcome[p] = "none" /\ p \notin Members(queued)
        /\ g.queue = h.queue /\ g.txAttempts = h.txAttempts
        /\ g.state = h.state
        /\ queued' = queued /\ sent' = sent
        /\ outcome' = [outcome EXCEPT ![p] = "dropped"]

Pops(n, r) ==
    LET h == mac[n]
        g == mac'[n]
    IN  /\ h.queue # <<>> /\ g.queue = Tail(h.queue)
        /\ ~ Busy(g)
        /\ \/ g.txAttempts = 0
           \/ ~ Unicast(h) /\ g.txAttempts = h.txAttempts
        /\ r = "sent" => ~ Unicast(h)
        /\ r = "success" =>
             \E f \in Ack : arriving[n] = f /\ Expected(n, f)
        /\ queued' = queued /\ sent' = sent
        /\ outcome' = [outcome EXCEPT ![First(h).packet] = r]

Transmits(n) ==
    LET h == mac[n]
        g == mac'[n]
    IN  /\ h.queue # <<>> /\ g.queue = h.queue
        /\ g.txAttempts = h.txAttempts
        /\ ~ Busy(h) /\ Busy(g) /\ g.state # "WAITACK_5"
        /\ queued' = queued /\ outcome' = outcome
        /\ sent' = [sent EXCEPT ![First(h).packet] = @ + 1]

TriesAgain(n) ==
    LET h == mac[n]
        g == mac'[n]
    IN  /\ h.queue # <<>> /\ g.queue = h.queue
        /\ h.state = "WAITACK_5" /\ ~ Busy(g)
        /\ g.txAttempts = h.txAttempts + 1
        /\ queued' = queued /\ outcome' = outcome /\ sent' = sent

\* What a step does to n, whose module is the only one that changes.
QueueStep(n) ==
    /\ OnlyAt(n)
    /\ \/ Keeps(n) \/ Transmits(n) \/ TriesAgain(n)
       \/ \E p \in Packet : Refuses(n, p) \/ \E f \in Data : Enqueues(n, p, f)
       \/ \E r \in {"success", "dropped", "sent"} : Pops(n, r)

-----------------------------------------------------------------------------
LEMMA GoesOnBusy ==
    ASSUME NEW g, NEW q, NEW t, NEW nb, NEW i, GoesOn(g, q, t, nb, i)
    PROVE  g.queue = q /\ ~ Busy(g) /\ g.state # "WAITACK_5"
BY DEF GoesOn, Busy

LEMMA UpperStep ==
    ASSUME HwInv, NEW p \in Packet, HandleUpperMsg(p)
    PROVE  Src[p] \in Node /\ QueueStep(Src[p])
<1> DEFINE n == Src[p]
           h == mac[n]
           g == mac'[n]
           f == [packet |-> p, seq |-> h.SeqNrParent[Dest[p]]]
<1>1. /\ n \in Node /\ OnlyAt(n) /\ f \in Data
      /\ g.txAttempts = h.txAttempts
      /\ \/ /\ Len(h.queue) <= QueueLength
            /\ g.queue = Append(h.queue, f)
            /\ queued' = Append(queued, p) /\ outcome' = outcome
            /\ h.state = "IDLE_1" => g.state = "BACKOFF_2"
            /\ h.state # "IDLE_1" => g.state = h.state
         \/ /\ g.queue = h.queue /\ g.state = h.state
            /\ queued' = queued /\ outcome' = [outcome EXCEPT ![p] = "dropped"]
  BY UpperEffect DEF HwInv
<1>2. outcome[p] = "none" /\ p \notin Members(queued) /\ sent' = sent
  BY DEF HandleUpperMsg, HandedDown
<1>3. f.packet = p
  OBVIOUS
<1> HIDE DEF f
<1>4. CASE /\ Len(h.queue) <= QueueLength
           /\ g.queue = Append(h.queue, f)
           /\ queued' = Append(queued, p) /\ outcome' = outcome
           /\ h.state = "IDLE_1" => g.state = "BACKOFF_2"
           /\ h.state # "IDLE_1" => g.state = h.state
  <2>1. /\ Busy(g) <=> Busy(h)
        /\ g.state = "WAITACK_5" => h.state = "WAITACK_5"
    BY <1>4 DEF Busy
  <2>2. Enqueues(n, p, f)
    BY <1>1, <1>2, <1>3, <1>4, <2>1 DEF Enqueues
  <2> QED BY <1>1, <2>2 DEF QueueStep
<1>5. CASE /\ g.queue = h.queue /\ g.state = h.state
           /\ queued' = queued /\ outcome' = [outcome EXCEPT ![p] = "dropped"]
  <2>1. Refuses(n, p)
    BY <1>1, <1>2, <1>5 DEF Refuses
  <2> QED BY <1>1, <2>1 DEF QueueStep
<1> QED BY <1>1, <1>4, <1>5

LEMMA TimerStep ==
    ASSUME HwInv, NEW n \in Node,
           BackoffTimer(n) \/ TransmitFrame(n) \/ SifsTimer(n)
    PROVE  QueueStep(n)
<1> DEFINE h == mac[n]
           g == mac'[n]
<1>1. TypeInv /\ h \in Fields /\ HostOK(h, onAir[n])
  BY DEF HwInv, TypeInv, HostInv
<1>2. CASE BackoffTimer(n)
  <2>1. /\ OnlyAt(n) /\ "backoff" \in h.timers /\ g.state = "CCA_3"
        /\ g.queue = h.queue /\ g.txAttempts = h.txAttempts
    BY <1>1, <1>2, BackoffEffect
  <2>2. h.state = "BACKOFF_2"
    BY <1>1, <2>1, TimerRuns
  <2>3. queued' = queued /\ outcome' = outcome /\ sent' = sent
    BY <1>2 DEF BackoffTimer, history
  <2>4. Keeps(n)
    BY <2>1, <2>2, <2>3 DEF Keeps, Busy
  <2> QED BY <2>1, <2>4 DEF QueueStep
<1>3. CASE TransmitFrame(n)
  <2>1. /\ OnlyAt(n) /\ "cca" \in h.timers /\ g.state = "TRANSMITFRAME_4"
        /\ g.queue = h.queue /\ g.txAttempts = h.txAttempts
    BY <1>1, <1>3, TransmitEffect
  <2>2. h.state = "CCA_3" /\ h.queue # <<>>
    BY <1>1, <2>1, TimerRuns DEF HostOK
  <2>3. /\ queued' = queued /\ outcome' = outcome
        /\ sent' = [sent EXCEPT ![First(h).packet] = @ + 1]
    BY <1>3 DEF TransmitFrame
  <2>4. Transmits(n)
    BY <2>1, <2>2, <2>3 DEF Transmits, Busy
  <2> QED BY <2>1, <2>4 DEF QueueStep
<1>4. CASE SifsTimer(n)
  <2>1. /\ OnlyAt(n) /\ "sifs" \in h.timers /\ g.state = "TRANSMITACK_7"
        /\ g.queue = h.queue /\ g.txAttempts = h.txAttempts
    BY <1>1, <1>4, SifsEffect
  <2>2. h.state = "WAITSIFS_6"
    BY <1>1, <2>1, TimerRuns
  <2>3. queued' = queued /\ outcome' = outcome /\ sent' = sent
    BY <1>4 DEF SifsTimer, history
  <2>4. Keeps(n)
    BY <2>1, <2>2, <2>3 DEF Keeps, Busy
  <2> QED BY <2>1, <2>4 DEF QueueStep
<1> QED BY <1>2, <1>3, <1>4

LEMMA BusyStep ==
    ASSUME HwInv, NEW n \in Node, ChannelBusy(n)
    PROVE  QueueStep(n)
<1> DEFINE h == mac[n]
           g == mac'[n]
<1>1. TypeInv /\ h \in Fields /\ HostOK(h, onAir[n])
  BY DEF HwInv, TypeInv, HostInv
<1>2. h.state = "CCA_3" /\ h.queue # <<>>
  <2>1. "cca" \in h.timers
    BY DEF ChannelBusy
  <2>2. h.state = "CCA_3"
    BY <1>1, <2>1, TimerRuns
  <2> QED BY <1>1, <2>2 DEF HostOK
<1>3. /\ OnlyAt(n) /\ queued' = queued /\ sent' = sent
      /\ \/ /\ g.txAttempts = 0
            /\ GoesOn(g, Tail(h.queue), h.timers \ {"cca"}, h.NB + 1,
                      h.interrupted)
            /\ outcome' = [outcome EXCEPT ![First(h).packet] = "dropped"]
         \/ /\ g.txAttempts = h.txAttempts /\ g.state = "BACKOFF_2"
            /\ g.queue = h.queue /\ outcome' = outcome
  BY <1>1, <1>2, BusyEffect DEF ChannelBusy
<1> HIDE DEF h, g
<1>4. CASE /\ g.txAttempts = 0
           /\ GoesOn(g, Tail(h.queue), h.timers \ {"cca"}, h.NB + 1,
                     h.interrupted)
           /\ outcome' = [outcome EXCEPT ![First(h).packet] = "dropped"]
  <2>1. g.queue = Tail(h.queue) /\ ~ Busy(g)
    BY <1>4, GoesOnBusy
  <2>2. Pops(n, "dropped")
    BY <1>2, <1>3, <1>4, <2>1 DEF Pops, h, g
  <2> QED BY <1>3, <2>2 DEF QueueStep
<1>5. CASE /\ g.txAttempts = h.txAttempts /\ g.state = "BACKOFF_2"
           /\ g.queue = h.queue /\ outcome' = outcome
  <2>1. Keeps(n)
    BY <1>2, <1>3, <1>5 DEF Keeps, Busy, h, g
  <2> QED BY <1>3, <2>1 DEF QueueStep
<1> QED BY <1>3, <1>4, <1>5

LEMMA RxAckStep ==
    ASSUME HwInv, NEW n \in Node, RxAckTimer(n)
    PROVE  QueueStep(n)
<1> DEFINE h == mac[n]
           g == mac'[n]
           t == h.timers \ {"rxAck"}
<1>1. TypeInv /\ h \in Fields /\ HostOK(h, onAir[n])
  BY DEF HwInv, TypeInv, HostInv
<1>2. h.state = "WAITACK_5" /\ h.queue # <<>>
  <2>1. "rxAck" \in h.timers
    BY DEF RxAckTimer
  <2>2. h.state = "WAITACK_5"
    BY <1>1, <2>1, TimerRuns
  <2> QED BY <1>1, <2>2 DEF HostOK
<1>3. /\ OnlyAt(n) /\ queued' = queued /\ sent' = sent
      /\ \/ /\ g.txAttempts = h.txAttempts + 1 /\ outcome' = outcome
            /\ GoesOn(g, h.queue, t, h.NB, h.interrupted)
         \/ /\ g.txAttempts = 0
            /\ GoesOn(g, Tail(h.queue), t, h.NB, h.interrupted)
            /\ outcome' = [outcome EXCEPT ![First(h).packet] = "dropped"]
  BY <1>1, <1>2, RxAckEffect DEF RxAckTimer
<1> HIDE DEF h, g, t
<1>4. CASE /\ g.txAttempts = h.txAttempts + 1 /\ outcome' = outcome
           /\ GoesOn(g, h.queue, t, h.NB, h.interrupted)
  <2>1. g.queue = h.queue /\ ~ Busy(g)
    BY <1>4, GoesOnBusy
  <2>2. TriesAgain(n)
    BY <1>2, <1>3, <1>4, <2>1 DEF TriesAgain, h, g
  <2> QED BY <1>3, <2>2 DEF QueueStep
<1>5. CASE /\ g.txAttempts = 0
           /\ GoesOn(g, Tail(h.queue), t, h.NB, h.interrupted)
           /\ outcome' = [outcome EXCEPT ![First(h).packet] = "dropped"]
  <2>1. g.queue = Tail(h.queue) /\ ~ Busy(g)
    BY <1>5, GoesOnBusy
  <2>2. Pops(n, "dropped")
    BY <1>2, <1>3, <1>5, <2>1 DEF Pops, h, g
  <2> QED BY <1>3, <2>2 DEF QueueStep
<1> QED BY <1>3, <1>4, <1>5

LEMMA EndStep ==
    ASSUME HwInv, NEW n \in Node, EndOfFrame(n)
    PROVE  QueueStep(n)
<1> DEFINE h == mac[n]
           g == mac'[n]
<1>1. TypeInv /\ h \in Fields /\ HostOK(h, onAir[n])
  BY DEF HwInv, TypeInv, HostInv
<1>2. h.state = "TRANSMITFRAME_4" => h.queue # <<>>
  BY <1>1 DEF HostOK
<1>3. /\ OnlyAt(n) /\ queued' = queued /\ sent' = sent
      /\ g.txAttempts = h.txAttempts
      /\ \/ /\ h.state = "TRANSMITACK_7" /\ outcome' = outcome
            /\ GoesOn(g, h.queue, h.timers, h.NB, h.interrupted)
         \/ /\ h.state = "TRANSMITFRAME_4" /\ outcome' = outcome
            /\ Dest[First(h).packet] # Broadcast
            /\ g.state = "WAITACK_5" /\ g.queue = h.queue
         \/ /\ h.state = "TRANSMITFRAME_4"
            /\ Dest[First(h).packet] = Broadcast
            /\ outcome' = [outcome EXCEPT ![First(h).packet] = "sent"]
            /\ GoesOn(g, Tail(h.queue), h.timers, h.NB, h.interrupted)
  BY <1>1, <1>2, EndEffect DEF EndOfFrame
<1> HIDE DEF h, g
<1>4. CASE /\ h.state = "TRANSMITACK_7" /\ outcome' = outcome
           /\ GoesOn(g, h.queue, h.timers, h.NB, h.interrupted)
  <2>1. g.queue = h.queue /\ ~ Busy(g) /\ g.state # "WAITACK_5"
    BY <1>4, GoesOnBusy
  <2>2. Keeps(n)
    <3>1. ~ Busy(h)
      BY <1>4 DEF Busy
    <3> QED BY <1>3, <1>4, <2>1, <3>1 DEF Keeps, h, g
  <2> QED BY <1>3, <2>2 DEF QueueStep
<1>5. CASE /\ h.state = "TRANSMITFRAME_4" /\ outcome' = outcome
           /\ Dest[First(h).packet] # Broadcast
           /\ g.state = "WAITACK_5" /\ g.queue = h.queue
  <2>1. Busy(h) /\ Busy(g) /\ Unicast(h)
    BY <1>5 DEF Busy, Unicast
  <2>2. Keeps(n)
    BY <1>3, <1>5, <2>1 DEF Keeps, h, g
  <2> QED BY <1>3, <2>2 DEF QueueStep
<1>6. CASE /\ h.state = "TRANSMITFRAME_4"
           /\ Dest[First(h).packet] = Broadcast
           /\ outcome' = [outcome EXCEPT ![First(h).packet] = "sent"]
           /\ GoesOn(g, Tail(h.queue), h.timers, h.NB, h.interrupted)
  <2>1. g.queue = Tail(h.queue) /\ ~ Busy(g) /\ ~ Unicast(h)
    BY <1>6, GoesOnBusy DEF Unicast
  <2>2. Pops(n, "sent")
    BY <1>2, <1>3, <1>6, <2>1 DEF Pops, h, g
  <2> QED BY <1>3, <2>2 DEF QueueStep
<1> QED BY <1>3, <1>4, <1>5, <1>6

LEMMA LowerStep ==
    ASSUME HwInv, NEW n \in Node, HandleLowerMsg(n)
    PROVE  QueueStep(n)
<1> DEFINE h == mac[n]
           g == mac'[n]
           f == arriving[n]
<1>1. TypeInv /\ h \in Fields /\ HostOK(h, onAir[n])
  BY DEF HwInv, TypeInv, HostInv
<1>2. /\ queued' = queued /\ sent' = sent
      /\ \/ f \in Data /\ ReceiveData(n, f)
         \/ f \in Data /\ ReceiveBroadcast(n, f)
         \/ f \in Ack /\ ReceiveAck(n, f)
         \/ Discard(n, f)
  BY <1>1, LowerCases
<1>3. ASSUME mac' = mac, outcome' = outcome PROVE QueueStep(n)
  <2>1. OnlyAt(n)
    BY <1>1, <1>3 DEF OnlyAt, TypeInv
  <2>2. Keeps(n)
    BY <1>2, <1>3 DEF Keeps
  <2> QED BY <2>1, <2>2 DEF QueueStep
<1> HIDE DEF f
<1>4. CASE f \in Data /\ ReceiveData(n, f)
  <2>1. DataMakes(n, f) /\ outcome' = outcome
    BY <1>1, <1>4, DataEffect DEF ReceiveData
  <2>2. /\ OnlyAt(n) /\ g.queue = h.queue /\ g.txAttempts = h.txAttempts
        /\ Acknowledges(h) => g.state = "WAITSIFS_6"
        /\ ~ Acknowledges(h) => g.state = h.state
    BY <2>1 DEF DataMakes
  <2>3. /\ Busy(g) <=> Busy(h)
        /\ g.state = "WAITACK_5" => h.state = "WAITACK_5"
    BY <2>2 DEF Busy, Acknowledges
  <2>4. Keeps(n)
    BY <1>2, <2>1, <2>2, <2>3 DEF Keeps
  <2> QED BY <2>2, <2>4 DEF QueueStep
<1>5. CASE f \in Data /\ ReceiveBroadcast(n, f)
  BY <1>3, <1>5 DEF ReceiveBroadcast
<1>6. CASE f \in Ack /\ ReceiveAck(n, f)
  <2>1. /\ OnlyAt(n) /\ Expected(n, f) /\ g.txAttempts = 0
        /\ GoesOn(g, Tail(h.queue), h.timers \ {"rxAck"}, h.NB, h.interrupted)
        /\ outcome' = [outcome EXCEPT ![First(h).packet] = "success"]
    BY <1>1, <1>6, AckEffect
  <2>2. h.queue # <<>>
    BY <2>1 DEF Expected
  <2> HIDE DEF h, g
  <2>3. g.queue = Tail(h.queue) /\ ~ Busy(g)
    BY <2>1, GoesOnBusy
  <2>4. \E a \in Ack : arriving[n] = a /\ Expected(n, a)
    BY <1>6, <2>1 DEF f
  <2>5. Pops(n, "success")
    BY <1>2, <2>1, <2>2, <2>3, <2>4 DEF Pops, h, g
  <2> QED BY <2>1, <2>5 DEF QueueStep
<1>7. CASE Discard(n, f)
  BY <1>3, <1>7 DEF Discard
<1> QED BY <1>2, <1>4, <1>5, <1>6, <1>7

\* Every step of the model is one of these.
LEMMA EveryQueueStep ==
    ASSUME HwInv, Next
    PROVE  \E n \in Node : QueueStep(n)
BY UpperStep, TimerStep, BusyStep, RxAckStep, EndStep, LowerStep DEF Next

-----------------------------------------------------------------------------
(***************************************************************************)
(* The queue q of host n, the packets queued so far s, and how the packets *)
(* ended o.                                                                *)
(***************************************************************************)
Before(s, x, y) == \E k, l \in 1..Len(s) : k < l /\ s[k] = x /\ s[l] = y

Distinct(s) == \A i, j \in 1..Len(s) : s[i] = s[j] => i = j

Unfinished(n, q, s, o) ==
    \A i \in 1..Len(q) : /\ q[i].packet \in Members(s)
                         /\ Src[q[i].packet] = n /\ o[q[i].packet] = "none"

NoneForgotten(n, q, s, o) ==
    \A x \in Members(s) : Src[x] = n /\ o[x] = "none" =>
        \E i \in 1..Len(q) : q[i].packet = x

InOrder(q, s) ==
    \A i, j \in 1..Len(q) : i < j => Before(s, q[i].packet, q[j].packet)

QueueOK(n, q, s, o) ==
    /\ Unfinished(n, q, s, o) /\ NoneForgotten(n, q, s, o) /\ InOrder(q, s)
    /\ Len(q) <= QueueLength + 1

QInv ==
    /\ Distinct(queued)
    /\ \A n \in Node : QueueOK(n, mac[n].queue, queued, outcome)
    /\ \A x \in Packet : outcome[x] \in {"success", "sent"} => x \in Members(queued)

\* What one more packet makes of the packets queued.
LEMMA HistoryGrows ==
    ASSUME NEW s \in Seq(Packet), NEW p \in Packet, p \notin Members(s)
    PROVE  /\ Append(s, p) \in Seq(Packet)
           /\ Members(Append(s, p)) = Members(s) \cup {p}
           /\ \A x, y : Before(s, x, y) => Before(Append(s, p), x, y)
           /\ \A x \in Members(s) : Before(Append(s, p), x, p)
           /\ Distinct(s) => Distinct(Append(s, p))
<1> DEFINE t == Append(s, p)
           l == Len(s)
<1>1. /\ t \in Seq(Packet) /\ l \in Nat /\ Len(t) = l + 1
      /\ \A i \in 1..l : t[i] = s[i]
      /\ t[l + 1] = p
  OBVIOUS
<1> HIDE DEF t, l
<1>2. \A i \in 1..l + 1 : i \in 1..l \/ i = l + 1
  BY <1>1
<1>3. \A i \in 1..l : i \in 1..l + 1 /\ i < l + 1
  BY <1>1
<1>4. l + 1 \in 1..l + 1
  BY <1>1
<1>5. Members(t) = Members(s) \cup {p}
  BY <1>1, <1>2, <1>3, <1>4 DEF Members, l
<1>6. ASSUME NEW x, NEW y, Before(s, x, y) PROVE Before(t, x, y)
  <2>1. PICK i, j \in 1..l : i < j /\ s[i] = x /\ s[j] = y
    BY <1>6 DEF Before, l
  <2> QED BY <1>1, <1>3, <2>1 DEF Before
<1>7. ASSUME NEW x \in Members(s) PROVE Before(t, x, p)
  <2>1. PICK i \in 1..l : s[i] = x
    BY DEF Members, l
  <2> QED BY <1>1, <1>3, <1>4, <2>1 DEF Before
<1>8. ASSUME Distinct(s) PROVE Distinct(t)
  <2>1. \A i \in 1..l : s[i] \in Members(s) /\ s[i] # p
    BY DEF Members, l
  <2>2. \A i, j \in 1..l : s[i] = s[j] => i = j
    BY <1>8 DEF Distinct, l
  <2>3. ASSUME NEW i \in 1..l + 1, NEW j \in 1..l + 1, t[i] = t[j]
        PROVE  i = j
    BY <1>1, <1>2, <2>1, <2>2, <2>3
  <2> QED BY <1>1, <2>3 DEF Distinct
<1> QED BY <1>1, <1>5, <1>6, <1>7, <1>8 DEF t

\* The queue of the host that is handed the packet.
LEMMA QueueGrows ==
    ASSUME NEW n \in Node, NEW q \in Seq(Data), NEW s \in Seq(Packet), NEW o,
           NEW f \in Data, QueueOK(n, q, s, o), f.packet \notin Members(s),
           Src[f.packet] = n, o[f.packet] = "none", Len(q) <= QueueLength
    PROVE  QueueOK(n, Append(q, f), Append(s, f.packet), o)
<1> DEFINE r == Append(q, f)
           p == f.packet
           t == Append(s, p)
           l == Len(q)
<1>1. /\ r \in Seq(Data) /\ l \in Nat /\ Len(r) = l + 1
      /\ \A i \in 1..l : r[i] = q[i]
      /\ r[l + 1] = f
  OBVIOUS
<1>2. p \in Packet /\ p \notin Members(s) /\ Src[p] = n /\ o[p] = "none"
  BY DataFrame
<1>3. /\ Members(t) = Members(s) \cup {p}
      /\ \A x, y : Before(s, x, y) => Before(t, x, y)
      /\ \A x \in Members(s) : Before(t, x, p)
  BY <1>2, HistoryGrows
<1>4. /\ \A i \in 1..l : /\ q[i].packet \in Members(s)
                         /\ Src[q[i].packet] = n /\ o[q[i].packet] = "none"
      /\ \A x \in Members(s) : Src[x] = n /\ o[x] = "none" =>
           \E i \in 1..l : q[i].packet = x
      /\ \A i, j \in 1..l : i < j => Before(s, q[i].packet, q[j].packet)
  BY DEF QueueOK, Unfinished, NoneForgotten, InOrder
<1>5. f.packet = p
  OBVIOUS
<1>6. l <= QueueLength
  OBVIOUS
<1> HIDE DEF r, t, l, p
<1>7. \A i \in 1..l + 1 : i \in 1..l \/ i = l + 1
  BY <1>1
<1>8. Unfinished(n, r, t, o)
  <2> SUFFICES ASSUME NEW i \in 1..l + 1
               PROVE  /\ r[i].packet \in Members(t)
                      /\ Src[r[i].packet] = n /\ o[r[i].packet] = "none"
    BY <1>1 DEF Unfinished
  <2>1. CASE i \in 1..l
    BY <1>1, <1>3, <1>4, <2>1
  <2>2. CASE i = l + 1
    BY <1>1, <1>2, <1>3, <1>5, <2>2
  <2> QED BY <1>7, <2>1, <2>2
<1>9. NoneForgotten(n, r, t, o)
  <2> SUFFICES ASSUME NEW x \in Members(t), Src[x] = n, o[x] = "none"
               PROVE  \E i \in 1..l + 1 : r[i].packet = x
    BY <1>1 DEF NoneForgotten
  <2>1. CASE x = p
    <3>1. l + 1 \in 1..l + 1
      BY <1>1
    <3> QED BY <1>1, <1>5, <2>1, <3>1
  <2>2. CASE x \in Members(s)
    <3>1. PICK i \in 1..l : q[i].packet = x
      BY <1>4, <2>2
    <3>2. i \in 1..l + 1
      BY <1>1
    <3> QED BY <1>1, <3>1, <3>2
  <2> QED BY <1>3, <2>1, <2>2
<1>10. InOrder(r, t)
  <2> SUFFICES ASSUME NEW i \in 1..l + 1, NEW j \in 1..l + 1, i < j
               PROVE  Before(t, r[i].packet, r[j].packet)
    BY <1>1 DEF InOrder
  <2>1. i \in 1..l
    BY <1>1
  <2>2. CASE j \in 1..l
    BY <1>1, <1>3, <1>4, <2>1, <2>2
  <2>3. CASE j = l + 1
    BY <1>1, <1>3, <1>4, <1>5, <2>1, <2>3
  <2> QED BY <1>7, <2>2, <2>3
<1>11. Len(r) <= QueueLength + 1
  BY <1>1, <1>6
<1> QED BY <1>8, <1>9, <1>10, <1>11 DEF QueueOK, r, t, p

\* The queue of another host.
LEMMA OtherGrows ==
    ASSUME NEW n \in Node, NEW q \in Seq(Data), NEW s \in Seq(Packet), NEW o,
           NEW p \in Packet, QueueOK(n, q, s, o), p \notin Members(s),
           Src[p] # n
    PROVE  QueueOK(n, q, Append(s, p), o)
<1>1. /\ Members(Append(s, p)) = Members(s) \cup {p}
      /\ \A x, y : Before(s, x, y) => Before(Append(s, p), x, y)
  BY HistoryGrows
<1> QED BY <1>1 DEF QueueOK, Unfinished, NoneForgotten, InOrder

\* A packet that is not in a queue ends.
LEMMA RefusedOK ==
    ASSUME NEW n \in Node, NEW q, NEW s, NEW p \in Packet, NEW r,
           NEW o \in [Packet -> {"none", "success", "dropped", "sent"}],
           s \in Seq(Packet), QueueOK(n, q, s, o), p \notin Members(s)
    PROVE  QueueOK(n, q, s, [o EXCEPT ![p] = r])
<1>1. \A x \in Members(s) : x \in Packet /\ [o EXCEPT ![p] = r][x] = o[x]
  BY DEF Members
<1> QED BY <1>1 DEF QueueOK, Unfinished, NoneForgotten, InOrder

\* The first packet of a queue ends.
LEMMA PoppedOK ==
    ASSUME NEW n \in Node, NEW q \in Seq(Data), NEW s \in Seq(Packet), NEW r,
           NEW o \in [Packet -> {"none", "success", "dropped", "sent"}],
           QueueOK(n, q, s, o), Distinct(s), q # <<>>, r # "none"
    PROVE  QueueOK(n, Tail(q), s, [o EXCEPT ![Head(q).packet] = r])
<1> DEFINE t == Tail(q)
           p == Head(q).packet
           e == [o EXCEPT ![p] = r]
           l == Len(q)
<1>1. /\ l \in Nat /\ l > 0 /\ Len(t) = l - 1 /\ Head(q) = q[1]
      /\ \A i \in 1..l - 1 : t[i] = q[i + 1]
  BY QueueHead
<1>2. /\ \A i \in 1..l : /\ q[i].packet \in Members(s)
                         /\ Src[q[i].packet] = n /\ o[q[i].packet] = "none"
      /\ \A x \in Members(s) : Src[x] = n /\ o[x] = "none" =>
           \E i \in 1..l : q[i].packet = x
      /\ \A i, j \in 1..l : i < j => Before(s, q[i].packet, q[j].packet)
      /\ l <= QueueLength + 1
  BY DEF QueueOK, Unfinished, NoneForgotten, InOrder
<1>3. p = q[1].packet
  BY <1>1
<1>4. \A x, y : Before(s, x, y) => x # y
  BY DEF Before, Distinct
<1> HIDE DEF p
<1>5. \A x \in Members(s) : x # p => x \in Packet /\ e[x] = o[x]
  BY DEF Members
<1>6. p \in Packet /\ e[p] = r
  <2>1. q[1].packet \in Members(s)
    BY <1>1, <1>2
  <2>2. p \in Packet
    BY <1>3, <2>1 DEF Members
  <2> QED BY <2>2
<1> HIDE DEF t, e, l
<1>7. \A i \in 1..l - 1 : i + 1 \in 1..l /\ 1 < i + 1 /\ 1 \in 1..l
  BY <1>1
<1>8. \A i \in 1..l - 1 : t[i].packet # p
  <2> TAKE i \in 1..l - 1
  <2>1. i + 1 \in 1..l /\ 1 < i + 1 /\ 1 \in 1..l
    BY <1>7
  <2>2. Before(s, q[1].packet, q[i + 1].packet)
    BY <1>2, <2>1
  <2>3. q[1].packet # q[i + 1].packet
    BY <1>4, <2>2
  <2> QED BY <1>1, <1>3, <2>3
<1>9. Unfinished(n, t, s, e)
  BY <1>1, <1>2, <1>5, <1>7, <1>8 DEF Unfinished
<1>10. NoneForgotten(n, t, s, e)
  <2> SUFFICES ASSUME NEW x \in Members(s), Src[x] = n, e[x] = "none"
               PROVE  \E i \in 1..l - 1 : t[i].packet = x
    BY <1>1 DEF NoneForgotten
  <2>1. x # p /\ o[x] = "none"
    BY <1>5, <1>6
  <2>2. PICK i \in 1..l : q[i].packet = x
    BY <1>2, <2>1
  <2>3. i # 1
    BY <1>3, <2>1, <2>2
  <2>4. i - 1 \in 1..l - 1 /\ (i - 1) + 1 = i
    BY <1>1, <2>3
  <2> QED BY <1>1, <2>2, <2>4
<1>11. InOrder(t, s)
  <2> SUFFICES ASSUME NEW i \in 1..l - 1, NEW j \in 1..l - 1, i < j
               PROVE  Before(s, t[i].packet, t[j].packet)
    BY <1>1 DEF InOrder
  <2>1. i + 1 \in 1..l /\ j + 1 \in 1..l /\ i + 1 < j + 1
    BY <1>1
  <2>2. Before(s, q[i + 1].packet, q[j + 1].packet)
    BY <1>2, <2>1
  <2>3. t[i] = q[i + 1] /\ t[j] = q[j + 1]
    BY <1>1
  <2> QED BY <2>2, <2>3
<1>12. Len(t) <= QueueLength + 1
  BY <1>1, <1>2
<1> QED BY <1>9, <1>10, <1>11, <1>12 DEF QueueOK, t, e, p

\* The queue of another host.
LEMMA OtherPops ==
    ASSUME NEW n \in Node, NEW q, NEW s, NEW p \in Packet, NEW r, r # "none",
           NEW o \in [Packet -> {"none", "success", "dropped", "sent"}],
           s \in Seq(Packet), QueueOK(n, q, s, o), Src[p] # n
    PROVE  QueueOK(n, q, s, [o EXCEPT ![p] = r])
<1>1. \A x \in Members(s) : x \in Packet
  BY DEF Members
<1>2. \A x \in Packet : x # p => [o EXCEPT ![p] = r][x] = o[x]
  OBVIOUS
<1>3. Unfinished(n, q, s, [o EXCEPT ![p] = r])
  BY <1>1, <1>2 DEF QueueOK, Unfinished
<1>4. NoneForgotten(n, q, s, [o EXCEPT ![p] = r])
  BY <1>1, <1>2 DEF QueueOK, NoneForgotten
<1> QED BY <1>3, <1>4 DEF QueueOK

-----------------------------------------------------------------------------
LEMMA QueueTypes ==
    ASSUME HwInv
    PROVE  /\ queued \in Seq(Packet)
           /\ outcome \in [Packet -> {"none", "success", "dropped", "sent"}]
           /\ \A n \in Node : mac[n] \in Fields /\ mac[n].queue \in Seq(Data)
BY DEF HwInv, TypeInv, Fields

\* The first packet of a queue is unfinished.
LEMMA FirstUnfinished ==
    ASSUME HwInv, QInv, NEW n \in Node, mac[n].queue # <<>>
    PROVE  LET f == First(mac[n])
           IN  /\ f \in Data /\ f.packet \in Packet /\ Src[f.packet] = n
               /\ f.packet \in Members(queued) /\ outcome[f.packet] = "none"
<1>1. /\ mac[n].queue \in Seq(Data)
      /\ QueueOK(n, mac[n].queue, queued, outcome)
  BY QueueTypes DEF QInv
<1>2. /\ Head(mac[n].queue) \in Data /\ Head(mac[n].queue) = mac[n].queue[1]
      /\ 1 \in 1..Len(mac[n].queue)
  BY <1>1, QueueHead
<1>3. First(mac[n]) = mac[n].queue[1]
  BY <1>2 DEF First
<1> QED BY <1>1, <1>2, <1>3, DataFrame DEF QueueOK, Unfinished

LEMMA QInit ==
    ASSUME Init PROVE QInv
<1>1. /\ queued = <<>> /\ \A x \in Packet : outcome[x] = "none"
      /\ \A n \in Node : mac[n].queue = <<>>
  BY DEF Init
<1>2. Len(<<>>) = 0 /\ 1..0 = {} /\ 0 <= QueueLength + 1
  OBVIOUS
<1>3. Distinct(<<>>) /\ Members(<<>>) = {}
  BY <1>2 DEF Distinct, Members
<1>4. ASSUME NEW n \in Node PROVE QueueOK(n, <<>>, <<>>, outcome)
  BY <1>2, <1>3 DEF QueueOK, Unfinished, NoneForgotten, InOrder
<1> QED BY <1>1, <1>3, <1>4 DEF QInv

\* The queues and the packets queued stay.
LEMMA QKeeps ==
    ASSUME HwInv, QInv, NEW n \in Node, OnlyAt(n),
           mac'[n].queue = mac[n].queue, queued' = queued, outcome' = outcome
    PROVE  QInv'
<1>1. \A m \in Node : mac'[m].queue = mac[m].queue
  BY DEF OnlyAt
<1>2. \A m \in Node : QueueOK(m, mac'[m].queue, queued', outcome')
  BY <1>1 DEF QInv
<1>3. /\ Distinct(queued')
      /\ \A x \in Packet :
           outcome'[x] \in {"success", "sent"} => x \in Members(queued')
  BY DEF QInv
<1> QED BY <1>2, <1>3 DEF QInv

LEMMA QEnqueues ==
    ASSUME HwInv, QInv, NEW n \in Node, OnlyAt(n), NEW p \in Packet,
           NEW f \in Data, Enqueues(n, p, f)
    PROVE  QInv'
<1>1. /\ Src[p] = n /\ f.packet = p
      /\ outcome[p] = "none" /\ p \notin Members(queued)
      /\ Len(mac[n].queue) <= QueueLength
      /\ mac'[n].queue = Append(mac[n].queue, f)
      /\ queued' = Append(queued, p) /\ outcome' = outcome
      /\ \A m \in Node : m # n => mac'[m].queue = mac[m].queue
  BY DEF Enqueues, OnlyAt
<1>2. /\ queued \in Seq(Packet) /\ Distinct(queued)
      /\ \A m \in Node : /\ mac[m].queue \in Seq(Data)
                         /\ QueueOK(m, mac[m].queue, queued, outcome)
      /\ \A x \in Packet :
           outcome[x] \in {"success", "sent"} => x \in Members(queued)
  BY QueueTypes DEF QInv
<1>3. QueueOK(n, mac'[n].queue, queued', outcome')
  <2>1. QueueOK(n, Append(mac[n].queue, f), Append(queued, f.packet), outcome)
    BY <1>1, <1>2, QueueGrows
  <2> QED BY <1>1, <2>1
<1>4. ASSUME NEW m \in Node, m # n
      PROVE  QueueOK(m, mac'[m].queue, queued', outcome')
  BY <1>1, <1>2, <1>4, OtherGrows
<1>5. Distinct(queued') /\ Members(queued') = Members(queued) \cup {p}
  BY <1>1, <1>2, HistoryGrows
<1>6. \A x \in Packet :
        outcome'[x] \in {"success", "sent"} => x \in Members(queued')
  BY <1>1, <1>2, <1>5
<1> QED BY <1>3, <1>4, <1>5, <1>6 DEF QInv

LEMMA QRefuses ==
    ASSUME HwInv, QInv, NEW n \in Node, OnlyAt(n), NEW p \in Packet,
           Refuses(n, p)
    PROVE  QInv'
<1>1. /\ p \notin Members(queued) /\ queued' = queued
      /\ \A m \in Node : mac'[m].queue = mac[m].queue
      /\ outcome' = [outcome EXCEPT ![p] = "dropped"]
  BY DEF Refuses, OnlyAt
<1>2. /\ queued \in Seq(Packet) /\ Distinct(queued)
      /\ outcome \in [Packet -> {"none", "success", "dropped", "sent"}]
      /\ \A m \in Node : QueueOK(m, mac[m].queue, queued, outcome)
      /\ \A x \in Packet :
           outcome[x] \in {"success", "sent"} => x \in Members(queued)
  BY QueueTypes DEF QInv
<1>3. \A m \in Node : QueueOK(m, mac'[m].queue, queued', outcome')
  BY <1>1, <1>2, RefusedOK
<1>4. \A x \in Packet :
        outcome'[x] \in {"success", "sent"} => x \in Members(queued')
  BY <1>1, <1>2
<1> QED BY <1>1, <1>2, <1>3, <1>4 DEF QInv

LEMMA QPops ==
    ASSUME HwInv, QInv, NEW n \in Node, OnlyAt(n),
           NEW r \in {"success", "dropped", "sent"}, Pops(n, r)
    PROVE  QInv'
<1> DEFINE p == Head(mac[n].queue).packet
<1>1. /\ mac[n].queue # <<>> /\ mac'[n].queue = Tail(mac[n].queue)
      /\ queued' = queued /\ outcome' = [outcome EXCEPT ![p] = r]
      /\ \A m \in Node : m # n => mac'[m].queue = mac[m].queue
  BY DEF Pops, OnlyAt, First
<1>2. /\ queued \in Seq(Packet) /\ Distinct(queued)
      /\ outcome \in [Packet -> {"none", "success", "dropped", "sent"}]
      /\ \A m \in Node : /\ mac[m].queue \in Seq(Data)
                         /\ QueueOK(m, mac[m].queue, queued, outcome)
      /\ \A x \in Packet :
           outcome[x] \in {"success", "sent"} => x \in Members(queued)
  BY QueueTypes DEF QInv
<1>3. p \in Packet /\ Src[p] = n /\ p \in Members(queued)
  BY <1>1, FirstUnfinished DEF First
<1>4. r # "none"
  OBVIOUS
<1>5. QueueOK(n, mac'[n].queue, queued', outcome')
  <2> DEFINE q == mac[n].queue
  <2>1. /\ q \in Seq(Data) /\ QueueOK(n, q, queued, outcome) /\ q # <<>>
        /\ mac'[n].queue = Tail(q) /\ p = Head(q).packet
    BY <1>1, <1>2
  <2> HIDE DEF q, p
  <2>2. QueueOK(n, Tail(q), queued, [outcome EXCEPT ![Head(q).packet] = r])
    BY <1>2, <1>4, <2>1, PoppedOK
  <2> QED BY <1>1, <2>1, <2>2
<1> HIDE DEF p
<1>6. ASSUME NEW m \in Node, m # n
      PROVE  QueueOK(m, mac'[m].queue, queued', outcome')
  BY <1>1, <1>2, <1>3, <1>4, <1>6, OtherPops
<1>7. \A x \in Packet :
        outcome'[x] \in {"success", "sent"} => x \in Members(queued')
  BY <1>1, <1>2, <1>3
<1> QED BY <1>1, <1>2, <1>5, <1>6, <1>7 DEF QInv

LEMMA QStep ==
    ASSUME HwInv, QInv, [Next]_vars
    PROVE  QInv'
<1>1. CASE UNCHANGED vars
  BY <1>1 DEF vars, history, QInv
<1>2. CASE Next
  <2>1. PICK n \in Node : QueueStep(n)
    BY <1>2, EveryQueueStep
  <2>2. OnlyAt(n)
    BY <2>1 DEF QueueStep
  <2>3. CASE Keeps(n) \/ Transmits(n) \/ TriesAgain(n)
    <3>1. /\ mac'[n].queue = mac[n].queue
          /\ queued' = queued /\ outcome' = outcome
      BY <2>3 DEF Keeps, Transmits, TriesAgain
    <3> QED BY <2>2, <3>1, QKeeps
  <2>4. CASE \E p \in Packet : Refuses(n, p) \/ \E f \in Data : Enqueues(n, p, f)
    BY <2>2, <2>4, QRefuses, QEnqueues
  <2>5. CASE \E r \in {"success", "dropped", "sent"} : Pops(n, r)
    BY <2>2, <2>5, QPops
  <2> QED BY <2>1, <2>3, <2>4, <2>5 DEF QueueStep
<1> QED BY <1>1, <1>2

LEMMA QueueInvariant ==
    Spec => []QInv
<1>1. Init => QInv
  BY QInit
<1>2. HwInv /\ QInv /\ [Next]_vars => QInv'
  BY QStep
<1> QED BY <1>1, <1>2, Hardware, PTL DEF Spec

(***************************************************************************)
(* Whatever is lost, times out or interrupts, each host's macQueue holds   *)
(* exactly its packets that have not ended, in the order it was handed     *)
(* them: updateStatusWaitAck, updateStatusCCA and updateStatusTransmitFrame *)
(* pop the packet whose end they tell the network layer, and no other.     *)
(***************************************************************************)
THEOREM QueueIsUnfinishedCorrect ==
    Spec => []QueueIsUnfinished
<1>1. HwInv /\ QInv => QueueIsUnfinished
  <2> SUFFICES ASSUME HwInv, QInv, NEW n \in Node
               PROVE  LET queue == mac[n].queue IN
          /\ {f.packet : f \in Members(queue)} =
               {p \in Members(queued) : Src[p] = n /\ outcome[p] = "none"}
          /\ \A i, j \in 1..Len(queue) :
               i < j => EarlierQueued(queue[i].packet, queue[j].packet)
          /\ Len(queue) <= QueueLength + 1
    BY DEF QueueIsUnfinished
  <2> DEFINE q == mac[n].queue
  <2>1. QueueOK(n, q, queued, outcome)
    BY DEF QInv
  <2> HIDE DEF q
  <2>2. {f.packet : f \in Members(q)} =
          {p \in Members(queued) : Src[p] = n /\ outcome[p] = "none"}
    <3>1. ASSUME NEW f \in Members(q)
          PROVE  f.packet \in
                   {p \in Members(queued) : Src[p] = n /\ outcome[p] = "none"}
      <4>1. PICK i \in 1..Len(q) : f = q[i]
        BY DEF Members
      <4> QED BY <2>1, <4>1 DEF QueueOK, Unfinished
    <3>2. ASSUME NEW x \in Members(queued), Src[x] = n, outcome[x] = "none"
          PROVE  x \in {f.packet : f \in Members(q)}
      <4>1. PICK i \in 1..Len(q) : q[i].packet = x
        BY <2>1, <3>2 DEF QueueOK, NoneForgotten
      <4>2. q[i] \in Members(q)
        BY DEF Members
      <4> QED BY <4>1, <4>2
    <3> QED BY <3>1, <3>2
  <2>3. \A i, j \in 1..Len(q) :
          i < j => EarlierQueued(q[i].packet, q[j].packet)
    BY <2>1 DEF QueueOK, InOrder, Before, EarlierQueued
  <2>4. Len(q) <= QueueLength + 1
    BY <2>1 DEF QueueOK
  <2> QED BY <2>2, <2>3, <2>4 DEF q
<1> QED BY <1>1, Hardware, QueueInvariant, PTL

-----------------------------------------------------------------------------
(***************************************************************************)
(* How often the packets of host h were transmitted, s: the first one once *)
(* for each attempt that failed and once more if it is under way, the      *)
(* others not yet.  The attempts of a broadcast never fail.                *)
(***************************************************************************)
AttemptsOK(h, s) ==
    /\ h.queue = <<>> => h.txAttempts = 0
    /\ h.queue # <<>> =>
         /\ Busy(h) => s[First(h).packet] = h.txAttempts + 1
         /\ ~ Busy(h) => s[First(h).packet] = h.txAttempts
         /\ ~ Unicast(h) => h.txAttempts = 0
    /\ h.state = "WAITACK_5" => Unicast(h)
    /\ \A i \in 2..Len(h.queue) : s[h.queue[i].packet] = 0

AttemptsInv ==
    /\ \A n \in Node : AttemptsOK(mac[n], sent)
    /\ \A x \in Packet : x \notin Members(queued) => sent[x] = 0
    /\ \A x \in Packet : sent[x] <= MaxRetries + 2

\* The packets of a queue differ, and they are those of its host.
LEMMA QueuePackets ==
    ASSUME HwInv, QInv, NEW n \in Node
    PROVE  LET q == mac[n].queue
           IN  /\ \A i \in 1..Len(q) : /\ q[i].packet \in Packet
                                       /\ q[i].packet \in Members(queued)
                                       /\ Src[q[i].packet] = n
               /\ \A i, j \in 1..Len(q) : i # j => q[i].packet # q[j].packet
<1> DEFINE q == mac[n].queue
<1>1. /\ q \in Seq(Data) /\ QueueOK(n, q, queued, outcome) /\ Distinct(queued)
  BY QueueTypes DEF QInv
<1> HIDE DEF q
<1>2. \A i \in 1..Len(q) : /\ q[i].packet \in Packet
                           /\ q[i].packet \in Members(queued)
                           /\ Src[q[i].packet] = n
  <2>1. \A i \in 1..Len(q) : q[i] \in Data
    BY <1>1
  <2> QED BY <1>1, <2>1, DataFrame DEF QueueOK, Unfinished
<1>3. \A x, y : Before(queued, x, y) => x # y
  BY <1>1 DEF Before, Distinct
<1>4. \A i, j \in 1..Len(q) : i < j => q[i].packet # q[j].packet
  BY <1>1, <1>3 DEF QueueOK, InOrder
<1>5. \A i, j \in 1..Len(q) : i # j => q[i].packet # q[j].packet
  <2> SUFFICES ASSUME NEW i \in 1..Len(q), NEW j \in 1..Len(q), i # j
               PROVE  q[i].packet # q[j].packet
    OBVIOUS
  <2>1. i < j \/ j < i
    BY <1>1
  <2> QED BY <1>4, <2>1
<1> QED BY <1>2, <1>5 DEF q

\* The packets queued behind the first were never sent; a queue grows.
LEMMA AttemptsAppend ==
    ASSUME NEW h, NEW g, NEW f \in Data, NEW s, h.queue \in Seq(Data),
           AttemptsOK(h, s), g.queue = Append(h.queue, f),
           g.txAttempts = h.txAttempts, Busy(g) <=> Busy(h),
           g.state = "WAITACK_5" => h.state = "WAITACK_5",
           Busy(h) => h.queue # <<>>, s[f.packet] = 0
    PROVE  AttemptsOK(g, s)
<1> DEFINE l == Len(h.queue)
<1>1. /\ g.queue # <<>> /\ l \in Nat /\ Len(g.queue) = l + 1
      /\ \A i \in 1..l : g.queue[i] = h.queue[i]
      /\ g.queue[l + 1] = f
      /\ h.queue = <<>> => Head(g.queue) = f
      /\ h.queue # <<>> => Head(g.queue) = Head(h.queue)
  <2> DEFINE q == h.queue
  <2>1. q \in Seq(Data) /\ g.queue = Append(q, f) /\ l = Len(q)
    OBVIOUS
  <2> HIDE DEF q, l
  <2>2. /\ g.queue # <<>> /\ l \in Nat /\ Len(g.queue) = l + 1
        /\ \A i \in 1..l : g.queue[i] = q[i]
        /\ g.queue[l + 1] = f
        /\ q = <<>> => Head(g.queue) = f
        /\ q # <<>> => Head(g.queue) = Head(q)
    BY <2>1
  <2> QED BY <2>2 DEF q
<1>2. /\ \A i \in 2..l : s[h.queue[i].packet] = 0
      /\ h.queue = <<>> => h.txAttempts = 0
  BY DEF AttemptsOK
<1>3. h.queue # <<>> => First(g) = First(h) /\ (Unicast(g) <=> Unicast(h))
  BY <1>1 DEF First, Unicast
<1>4. g.state = "WAITACK_5" => h.queue # <<>> /\ Unicast(h)
  BY DEF AttemptsOK, Busy
<1> HIDE DEF l
<1>5. \A i \in 2..l + 1 : (i \in 2..l /\ i \in 1..l) \/ i = l + 1
  BY <1>1
<1>6. ASSUME NEW i \in 2..l + 1 PROVE s[g.queue[i].packet] = 0
  <2>1. CASE i \in 2..l /\ i \in 1..l
    BY <1>1, <1>2, <2>1
  <2>2. CASE i = l + 1
    BY <1>1, <2>2
  <2> QED BY <1>5, <2>1, <2>2
<1>7. CASE h.queue = <<>>
  <2>1. First(g) = f /\ ~ Busy(g) /\ g.txAttempts = 0 /\ g.state # "WAITACK_5"
    BY <1>1, <1>2, <1>4, <1>7 DEF First
  <2> QED BY <1>1, <1>6, <2>1 DEF AttemptsOK
<1>8. CASE h.queue # <<>>
  <2>1. /\ Busy(h) => s[First(h).packet] = h.txAttempts + 1
        /\ ~ Busy(h) => s[First(h).packet] = h.txAttempts
        /\ ~ Unicast(h) => h.txAttempts = 0
    BY <1>8 DEF AttemptsOK
  <2> QED BY <1>1, <1>3, <1>4, <1>6, <1>8, <2>1 DEF AttemptsOK
<1> QED BY <1>7, <1>8

\* The next packet of a queue starts from no attempts.
LEMMA AttemptsPop ==
    ASSUME NEW h, NEW g, NEW s, h.queue \in Seq(Data), h.queue # <<>>,
           AttemptsOK(h, s), g.queue = Tail(h.queue), ~ Busy(g),
           g.txAttempts = 0
    PROVE  AttemptsOK(g, s)
<1> DEFINE l == Len(h.queue)
           q == h.queue
<1>1. /\ q \in Seq(Data) /\ q # <<>> /\ g.queue = Tail(q) /\ l = Len(q)
      /\ \A i \in 2..l : s[q[i].packet] = 0
  BY DEF AttemptsOK
<1>2. g.state # "WAITACK_5"
  BY DEF Busy
<1> HIDE DEF l, q
<1>3. /\ l \in Nat /\ l > 0 /\ Len(g.queue) = l - 1 /\ g.queue \in Seq(Data)
      /\ \A i \in 1..l - 1 : g.queue[i] = q[i + 1]
  <2> DEFINE t == Tail(q)
  <2>1. /\ Len(q) \in Nat \ {0} /\ t \in Seq(Data)
        /\ Len(t) = Len(q) - 1
        /\ \A i \in 1..Len(q) - 1 : t[i] = q[i + 1]
    BY <1>1, QueueHead
  <2>2. g.queue = t
    BY <1>1
  <2> HIDE DEF t
  <2>3. l \in Nat /\ l > 0 /\ l = Len(q)
    BY <1>1, <2>1
  <2> QED BY <2>1, <2>2, <2>3
<1>4. \A i \in 1..l - 1 : i + 1 \in 2..l
  BY <1>3
<1>5. \A i \in 1..l - 1 : s[g.queue[i].packet] = 0
  BY <1>1, <1>3, <1>4
<1>6. \A i \in 2..l - 1 : i \in 1..l - 1
  BY <1>3
<1>7. g.queue # <<>> => s[First(g).packet] = 0
  <2> HAVE g.queue # <<>>
  <2>1. First(g) = g.queue[1] /\ 1 \in 1..l - 1
    BY <1>3, QueueHead DEF First
  <2> QED BY <1>5, <2>1
<1> QED BY <1>2, <1>3, <1>5, <1>6, <1>7 DEF AttemptsOK

LEMMA AInit ==
    ASSUME Init PROVE AttemptsInv
<1>1. /\ \A x \in Packet : sent[x] = 0
      /\ \A n \in Node : /\ mac[n].queue = <<>> /\ mac[n].txAttempts = 0
                         /\ mac[n].state = "IDLE_1"
  BY DEF Init
<1>2. Len(<<>>) = 0 /\ 2..0 = {} /\ 0 <= MaxRetries + 2
  OBVIOUS
<1> QED BY <1>1, <1>2 DEF AttemptsInv, AttemptsOK

LEMMA AKeeps ==
    ASSUME HwInv, QInv, AttemptsInv, NEW n \in Node, OnlyAt(n),
           Keeps(n) \/ TriesAgain(n) \/ \E p \in Packet : Refuses(n, p)
    PROVE  AttemptsInv'
<1> DEFINE h == mac[n]
           g == mac'[n]
<1>1. AttemptsOK(h, sent)
  BY DEF AttemptsInv
<1>2. sent' = sent /\ queued' = queued /\ g.queue = h.queue
  BY DEF Keeps, TriesAgain, Refuses
<1>3. First(g) = First(h) /\ (Unicast(g) <=> Unicast(h))
  BY <1>2 DEF First, Unicast
<1>4. AttemptsOK(g, sent)
  <2>1. CASE Keeps(n)
    <3>1. /\ g.txAttempts = h.txAttempts /\ (Busy(g) <=> Busy(h))
          /\ g.state = "WAITACK_5" => h.state = "WAITACK_5" \/ Unicast(h)
      BY <2>1 DEF Keeps
    <3> HIDE DEF h, g
    <3> QED BY <1>1, <1>2, <1>3, <3>1 DEF AttemptsOK
  <2>2. CASE TriesAgain(n)
    <3>1. /\ h.queue # <<>> /\ h.state = "WAITACK_5" /\ ~ Busy(g)
          /\ g.txAttempts = h.txAttempts + 1
      BY <2>2 DEF TriesAgain
    <3> HIDE DEF h, g
    <3>2. Busy(h) /\ g.state # "WAITACK_5"
      BY <3>1 DEF Busy
    <3> QED BY <1>1, <1>2, <1>3, <3>1, <3>2 DEF AttemptsOK
  <2>3. CASE \E p \in Packet : Refuses(n, p)
    <3>1. g.txAttempts = h.txAttempts /\ g.state = h.state
      BY <2>3 DEF Refuses
    <3> HIDE DEF h, g
    <3>2. Busy(g) <=> Busy(h)
      BY <3>1 DEF Busy
    <3> QED BY <1>1, <1>2, <1>3, <3>1, <3>2 DEF AttemptsOK
  <2> QED BY <2>1, <2>2, <2>3
<1>5. \A m \in Node : AttemptsOK(mac'[m], sent')
  BY <1>2, <1>4 DEF OnlyAt, AttemptsInv
<1>6. \A x \in Packet : /\ x \notin Members(queued') => sent'[x] = 0
                        /\ sent'[x] <= MaxRetries + 2
  BY <1>2 DEF AttemptsInv
<1> QED BY <1>5, <1>6 DEF AttemptsInv

LEMMA AEnqueues ==
    ASSUME HwInv, QInv, AttemptsInv, NEW n \in Node, OnlyAt(n),
           NEW p \in Packet, NEW f \in Data, Enqueues(n, p, f)
    PROVE  AttemptsInv'
<1> DEFINE h == mac[n]
           g == mac'[n]
<1>1. /\ f.packet = p /\ p \notin Members(queued)
      /\ g.queue = Append(h.queue, f) /\ g.txAttempts = h.txAttempts
      /\ Busy(g) <=> Busy(h)
      /\ g.state = "WAITACK_5" => h.state = "WAITACK_5"
      /\ queued' = Append(queued, p) /\ sent' = sent
  BY DEF Enqueues
<1>2. /\ h.queue \in Seq(Data) /\ AttemptsOK(h, sent) /\ sent[p] = 0
  BY <1>1, QueueTypes DEF AttemptsInv
<1>3. Busy(h) => h.queue # <<>>
  BY DEF HwInv, HostInv, HostOK, Busy
<1> HIDE DEF h, g
<1>4. AttemptsOK(g, sent)
  BY <1>1, <1>2, <1>3, AttemptsAppend
<1>5. \A m \in Node : AttemptsOK(mac'[m], sent')
  BY <1>1, <1>4 DEF OnlyAt, AttemptsInv, g
<1>6. Members(queued') = Members(queued) \cup {p}
  BY <1>1, QueueTypes, HistoryGrows
<1>7. \A x \in Packet : /\ x \notin Members(queued') => sent'[x] = 0
                        /\ sent'[x] <= MaxRetries + 2
  BY <1>1, <1>6 DEF AttemptsInv
<1> QED BY <1>5, <1>7 DEF AttemptsInv

LEMMA APops ==
    ASSUME HwInv, QInv, AttemptsInv, NEW n \in Node, OnlyAt(n),
           NEW r, Pops(n, r)
    PROVE  AttemptsInv'
<1> DEFINE h == mac[n]
           g == mac'[n]
<1>1. /\ h.queue # <<>> /\ g.queue = Tail(h.queue) /\ ~ Busy(g)
      /\ \/ g.txAttempts = 0
         \/ ~ Unicast(h) /\ g.txAttempts = h.txAttempts
      /\ queued' = queued /\ sent' = sent
  BY DEF Pops
<1>2. /\ h.queue \in Seq(Data) /\ AttemptsOK(h, sent)
  BY QueueTypes DEF AttemptsInv
<1> HIDE DEF h, g
<1>3. g.txAttempts = 0
  BY <1>1, <1>2 DEF AttemptsOK
<1>4. AttemptsOK(g, sent)
  BY <1>1, <1>2, <1>3, AttemptsPop
<1>5. \A m \in Node : AttemptsOK(mac'[m], sent')
  BY <1>1, <1>4 DEF OnlyAt, AttemptsInv, g
<1>6. \A x \in Packet : /\ x \notin Members(queued') => sent'[x] = 0
                        /\ sent'[x] <= MaxRetries + 2
  BY <1>1 DEF AttemptsInv
<1> QED BY <1>5, <1>6 DEF AttemptsInv

LEMMA ATransmits ==
    ASSUME HwInv, QInv, AttemptsInv, NEW n \in Node, OnlyAt(n), Transmits(n)
    PROVE  AttemptsInv'
<1> DEFINE h == mac[n]
           g == mac'[n]
           p == First(h).packet
<1>1. /\ h.queue # <<>> /\ g.queue = h.queue
      /\ g.txAttempts = h.txAttempts
      /\ ~ Busy(h) /\ Busy(g) /\ g.state # "WAITACK_5"
      /\ queued' = queued
      /\ sent' = [sent EXCEPT ![p] = @ + 1]
  BY DEF Transmits
<1>2. /\ p \in Packet /\ p \in Members(queued) /\ Src[p] = n
  BY <1>1, FirstUnfinished
<1>3. AttemptsOK(h, sent) /\ sent \in [Packet -> Nat] /\ h.queue \in Seq(Data)
  BY QueueTypes DEF AttemptsInv, HwInv, TypeInv
<1>4. /\ \A i \in 1..Len(h.queue) : h.queue[i].packet \in Packet
      /\ \A i \in 1..Len(h.queue) : i # 1 => h.queue[i].packet # p
  <2>1. p = h.queue[1].packet /\ 1 \in 1..Len(h.queue)
    BY <1>1, <1>3, QueueHead DEF First
  <2> HIDE DEF p
  <2> QED BY <2>1, QueuePackets
<1>5. h.txAttempts <= MaxRetries + 1 /\ h.txAttempts \in Nat
  BY QueueTypes DEF HwInv, HostInv, HostOK, Fields
<1>6. First(g) = First(h) /\ (Unicast(g) <=> Unicast(h))
  BY <1>1 DEF First, Unicast
<1>7. sent'[p] = sent[p] + 1 /\ \A x \in Packet : x # p => sent'[x] = sent[x]
  BY <1>1, <1>2, <1>3
<1>8. First(h).packet = p
  OBVIOUS
<1> HIDE DEF h, g, p
<1>9. sent[p] = h.txAttempts
  BY <1>1, <1>3, <1>8 DEF AttemptsOK
<1>10. AttemptsOK(g, sent')
  <2>1. \A i \in 2..Len(h.queue) : sent'[h.queue[i].packet] = 0
    <3>1. \A i \in 2..Len(h.queue) : i \in 1..Len(h.queue) /\ i # 1
      BY <1>3
    <3> QED BY <1>3, <1>4, <1>7, <3>1 DEF AttemptsOK
  <2>2. sent'[First(g).packet] = g.txAttempts + 1
    BY <1>1, <1>6, <1>7, <1>8, <1>9
  <2>3. ~ Unicast(g) => g.txAttempts = 0
    BY <1>1, <1>3, <1>6 DEF AttemptsOK
  <2> QED BY <1>1, <2>1, <2>2, <2>3 DEF AttemptsOK
<1>11. ASSUME NEW m \in Node, m # n PROVE AttemptsOK(mac'[m], sent')
  <2> DEFINE e == mac[m]
  <2>1. mac'[m] = e /\ AttemptsOK(e, sent) /\ e.queue \in Seq(Data)
    BY <1>11, QueueTypes DEF OnlyAt, AttemptsInv
  <2>2. \A i \in 1..Len(e.queue) :
          /\ e.queue[i].packet \in Packet /\ e.queue[i].packet # p
    BY <1>2, <1>11, QueuePackets
  <2> HIDE DEF e
  <2>3. \A i \in 1..Len(e.queue) : sent'[e.queue[i].packet] = sent[e.queue[i].packet]
    BY <1>7, <2>2
  <2>4. e.queue # <<>> => sent'[First(e).packet] = sent[First(e).packet]
    <3> HAVE e.queue # <<>>
    <3>1. First(e) = e.queue[1] /\ 1 \in 1..Len(e.queue)
      BY <2>1, QueueHead DEF First
    <3> QED BY <2>3, <3>1
  <2>5. \A i \in 2..Len(e.queue) : sent'[e.queue[i].packet] = 0
    <3>1. \A i \in 2..Len(e.queue) : i \in 1..Len(e.queue)
      BY <2>1
    <3> QED BY <2>1, <2>3, <3>1 DEF AttemptsOK
  <2>6. AttemptsOK(e, sent')
    BY <2>1, <2>4, <2>5 DEF AttemptsOK
  <2> QED BY <2>1, <2>6
<1>12. \A m \in Node : AttemptsOK(mac'[m], sent')
  BY <1>10, <1>11 DEF g
<1>13. \A x \in Packet : /\ x \notin Members(queued') => sent'[x] = 0
                         /\ sent'[x] <= MaxRetries + 2
  <2> SUFFICES ASSUME NEW x \in Packet
               PROVE  /\ x \notin Members(queued') => sent'[x] = 0
                      /\ sent'[x] <= MaxRetries + 2
    OBVIOUS
  <2>1. CASE x = p
    <3>1. sent'[p] <= MaxRetries + 2
      BY <1>5, <1>7, <1>9
    <3> QED BY <1>1, <1>2, <2>1, <3>1
  <2>2. CASE x # p
    BY <1>1, <1>7, <2>2 DEF AttemptsInv
  <2> QED BY <2>1, <2>2
<1> QED BY <1>12, <1>13 DEF AttemptsInv

LEMMA AStep ==
    ASSUME HwInv, QInv, AttemptsInv, [Next]_vars
    PROVE  AttemptsInv'
<1>1. CASE UNCHANGED vars
  BY <1>1 DEF vars, history, AttemptsInv
<1>2. CASE Next
  <2>1. PICK n \in Node : QueueStep(n)
    BY <1>2, EveryQueueStep
  <2>2. OnlyAt(n)
    BY <2>1 DEF QueueStep
  <2> QED BY <2>1, <2>2, AKeeps, AEnqueues, APops, ATransmits DEF QueueStep
<1> QED BY <1>1, <1>2

(***************************************************************************)
(* However often frames and acknowledgements are lost and the channel is   *)
(* busy, a packet goes on the air at most macMaxFrameRetries + 2 times:    *)
(* txAttempts counts the attempts of the packet in front and of no other.  *)
(***************************************************************************)
THEOREM AttemptsBoundedCorrect ==
    Spec => []AttemptsBounded
<1>1. Init => AttemptsInv
  BY AInit
<1>2. HwInv /\ QInv /\ AttemptsInv /\ [Next]_vars => AttemptsInv'
  BY AStep
<1>3. HwInv /\ AttemptsInv => AttemptsBounded
  <2> SUFFICES ASSUME HwInv, AttemptsInv PROVE AttemptsBounded
    OBVIOUS
  <2>1. ASSUME NEW n \in Node, mac[n].queue # <<>>
        PROVE  sent[First(mac[n]).packet] - mac[n].txAttempts \in {0, 1}
    <3>1. mac[n].txAttempts \in Nat
      BY QueueTypes DEF Fields
    <3>2. \/ sent[First(mac[n]).packet] = mac[n].txAttempts + 1
          \/ sent[First(mac[n]).packet] = mac[n].txAttempts
      BY <2>1 DEF AttemptsInv, AttemptsOK
    <3> QED BY <3>1, <3>2
  <2> QED BY <2>1 DEF AttemptsBounded, AttemptsInv
<1> QED BY <1>1, <1>2, <1>3, Hardware, QueueInvariant, PTL DEF Spec

-----------------------------------------------------------------------------
(***************************************************************************)
(* What the network layers, which send all their packets to the broadcast  *)
(* address, get: nobody acknowledges a broadcast and no attempt at one     *)
(* fails, so that none is repeated.                                        *)
(***************************************************************************)
BroadcastOnce == \A x \in Packet : Dest[x] = Broadcast => sent[x] <= 1

LEMMA BroadcastStep ==
    ASSUME HwInv, QInv, AttemptsInv, BroadcastOnce, [Next]_vars
    PROVE  BroadcastOnce'
<1>1. CASE UNCHANGED vars
  BY <1>1 DEF vars, history, BroadcastOnce
<1>2. ASSUME NEW n \in Node, Transmits(n) PROVE BroadcastOnce'
  <2> DEFINE h == mac[n]
             p == First(h).packet
  <2>1. /\ h.queue # <<>> /\ ~ Busy(h) /\ sent' = [sent EXCEPT ![p] = @ + 1]
        /\ AttemptsOK(h, sent) /\ sent \in [Packet -> Nat]
    BY <1>2 DEF Transmits, AttemptsInv, HwInv, TypeInv
  <2>2. p \in Packet
    BY <2>1, FirstUnfinished
  <2>3. Dest[p] = Broadcast => sent[p] = 0
    BY <2>1 DEF AttemptsOK, Unicast
  <2> HIDE DEF h, p
  <2>4. sent'[p] = sent[p] + 1 /\ \A x \in Packet : x # p => sent'[x] = sent[x]
    BY <2>1, <2>2
  <2> QED BY <2>3, <2>4 DEF BroadcastOnce
<1>3. CASE sent' = sent
  BY <1>3 DEF BroadcastOnce
<1>4. ASSUME NEW n \in Node, QueueStep(n), ~ Transmits(n) PROVE sent' = sent
  BY <1>4 DEF QueueStep, Keeps, Enqueues, Refuses, TriesAgain, Pops
<1> QED BY <1>1, <1>2, <1>3, <1>4, EveryQueueStep

(***************************************************************************)
(* A broadcast goes on the air once at most, whatever is lost or busy      *)
(* (handleUpperMsg, updateStatusTransmitFrame): each host has one chance   *)
(* to hear a packet of the network layers.                                 *)
(***************************************************************************)
THEOREM BroadcastsOnce ==
    Spec => []BroadcastOnce
<1>1. Init => AttemptsInv /\ BroadcastOnce
  BY AInit DEF Init, BroadcastOnce
<1>2. HwInv /\ QInv /\ AttemptsInv /\ BroadcastOnce /\ [Next]_vars
        => AttemptsInv' /\ BroadcastOnce'
  BY AStep, BroadcastStep
<1> QED BY <1>1, <1>2, Hardware, QueueInvariant, PTL DEF Spec

=============================================================================
