----------------------------- MODULE CsmaProofs -----------------------------
(***************************************************************************)
(* The csma module for any number of hosts and packets, any queue length   *)
(* and any limits: types, and the state of each host against its timers,   *)
(* its radio and what it has on the air.                                   *)
(*                                                                         *)
(* The lemmas named ...Effect say, field by field, what an action makes of *)
(* the csma module of its host; every proof about Csma rests on them.      *)
(***************************************************************************)
EXTENDS Csma, TLAPS

USE CsmaAssumption

Frame == Data \cup Ack \cup {NoFrame}

\* A csma module whose counters are not bounded yet.
Fields == [state : State, queue : Seq(Data), NB : Nat, txAttempts : Nat,
           interrupted : BOOLEAN,
           timers : SUBSET {"backoff", "cca", "sifs", "rxAck"},
           radio : {"RX", "TX"},
           SeqNrParent : [Node \cup {Broadcast} -> Nat],
           SeqNrChild : [Node -> Nat],
           ackMessage : Node \cup {NoHost}]

TypeInv ==
    /\ mac \in [Node -> Fields]
    /\ onAir \in [Node -> Frame]
    /\ arriving \in [Node -> Frame]
    /\ queued \in Seq(Packet)
    /\ outcome \in [Packet -> {"none", "success", "dropped", "sent"}]
    /\ taken \in [Node -> Seq(Packet)]
    /\ sent \in [Packet -> Nat]

-----------------------------------------------------------------------------
\* The host a data frame comes from.
Source(f) == Src[f.packet]

\* Frames are data, acknowledgements or none, and only one of these.
LEMMA DataFrame ==
    ASSUME NEW f \in Data
    PROVE  /\ f # NoFrame /\ IsData(f) /\ ~ IsAck(f)
           /\ f.packet \in Packet /\ f.seq \in Nat
           /\ Src[f.packet] \in Node /\ Dest[f.packet] \in Node \cup {Broadcast}
           /\ Dest[f.packet] # Src[f.packet]
<1>1. DOMAIN f = {"packet", "seq"} /\ f.packet \in Packet /\ f.seq \in Nat
  BY DEF Data
<1>2. f # NoFrame
  <2>1. \A e : e \notin DOMAIN <<>>
    OBVIOUS
  <2> QED BY <1>1, <2>1 DEF NoFrame
<1> QED BY <1>1, <1>2 DEF IsData, IsAck

LEMMA AckFrame ==
    ASSUME NEW f \in Ack
    PROVE  /\ f # NoFrame /\ IsAck(f) /\ ~ IsData(f)
           /\ f.ackFrom \in Node /\ f.ackTo \in Node
<1>1. DOMAIN f = {"ackFrom", "ackTo"} /\ f.ackFrom \in Node /\ f.ackTo \in Node
  BY DEF Ack
<1>2. f # NoFrame
  <2>1. \A e : e \notin DOMAIN <<>>
    OBVIOUS
  <2> QED BY <1>1, <2>1 DEF NoFrame
<1> QED BY <1>1, <1>2 DEF IsData, IsAck

LEMMA FrameKinds ==
    ASSUME NEW f \in Frame
    PROVE  /\ f \in Data <=> IsData(f)
           /\ f \in Ack <=> IsAck(f)
           /\ f = NoFrame => ~ IsData(f) /\ ~ IsAck(f)
           /\ f # NoFrame => (IsData(f) <=> ~ IsAck(f))
<1>1. f = NoFrame => ~ IsData(f) /\ ~ IsAck(f)
  BY DEF IsData, IsAck
<1> QED BY <1>1, DataFrame, AckFrame DEF Frame

\* The first of a queue, and what is left without it.
LEMMA QueueHead ==
    ASSUME NEW q \in Seq(Data), q # <<>>
    PROVE  /\ Head(q) \in Data /\ Head(q) = q[1]
           /\ Len(q) \in Nat \ {0}
           /\ Tail(q) \in Seq(Data) /\ Len(Tail(q)) = Len(q) - 1
           /\ \A i \in 1..Len(q) - 1 : Tail(q)[i] = q[i + 1]
OBVIOUS

LEMMA QueueAppend ==
    ASSUME NEW S, NEW q \in Seq(S), NEW f \in S
    PROVE  /\ Append(q, f) \in Seq(S) /\ Append(q, f) # <<>>
           /\ Len(q) \in Nat /\ Len(Append(q, f)) = Len(q) + 1
           /\ \A i \in 1..Len(q) : Append(q, f)[i] = q[i]
           /\ Append(q, f)[Len(q) + 1] = f
           /\ Head(Append(q, f)) = IF q = <<>> THEN f ELSE Head(q)
OBVIOUS

-----------------------------------------------------------------------------
\* One host's module changes, the others stay.
LEMMA Updated ==
    ASSUME mac \in [Node -> Fields], NEW n \in Node, NEW g \in Fields,
           mac' = [mac EXCEPT ![n] = g]
    PROVE  /\ mac' \in [Node -> Fields] /\ mac'[n] = g
           /\ \A m \in Node : m # n => mac'[m] = mac[m]
OBVIOUS

\* What manageQueue makes of the module h: g.
Managed(h, g) ==
    /\ g \in Fields
    /\ g.queue = h.queue /\ g.txAttempts = h.txAttempts /\ g.radio = h.radio
    /\ g.SeqNrParent = h.SeqNrParent /\ g.SeqNrChild = h.SeqNrChild
    /\ g.ackMessage = h.ackMessage
    /\ h.queue = <<>> => /\ g.state = "IDLE_1" /\ g.timers = h.timers
                         /\ g.NB = h.NB /\ g.interrupted = h.interrupted
    /\ h.queue # <<>> => /\ g.state = "BACKOFF_2"
                         /\ g.timers = h.timers \cup {"backoff"}
                         /\ g.NB = (IF h.interrupted THEN h.NB ELSE 0)
                         /\ g.interrupted = FALSE

LEMMA ManageQueueFields ==
    ASSUME NEW h \in Fields
    PROVE  Managed(h, ManageQueue(h))
BY DEF Managed, Fields, ManageQueue, State

\* PopFirst is manageQueue on the rest of the queue.
Popped(h, g) ==
    /\ g \in Fields
    /\ g.queue = Tail(h.queue) /\ g.txAttempts = 0 /\ g.radio = h.radio
    /\ g.SeqNrParent = h.SeqNrParent /\ g.SeqNrChild = h.SeqNrChild
    /\ g.ackMessage = h.ackMessage
    /\ g.queue = <<>> => /\ g.state = "IDLE_1" /\ g.timers = h.timers
                         /\ g.NB = h.NB /\ g.interrupted = h.interrupted
    /\ g.queue # <<>> => /\ g.state = "BACKOFF_2"
                         /\ g.timers = h.timers \cup {"backoff"}
                         /\ g.NB = (IF h.interrupted THEN h.NB ELSE 0)
                         /\ g.interrupted = FALSE

LEMMA PopFirstFields ==
    ASSUME NEW h \in Fields, h.queue # <<>>
    PROVE  Popped(h, PopFirst(h))
<1> DEFINE k == [h EXCEPT !.queue = Tail(@), !.txAttempts = 0]
<1>1. Tail(h.queue) \in Seq(Data)
  BY QueueHead DEF Fields
<1>2. /\ k \in Fields /\ k.queue = Tail(h.queue) /\ k.txAttempts = 0
      /\ k.radio = h.radio /\ k.timers = h.timers /\ k.NB = h.NB
      /\ k.interrupted = h.interrupted /\ k.ackMessage = h.ackMessage
      /\ k.SeqNrParent = h.SeqNrParent /\ k.SeqNrChild = h.SeqNrChild
  BY <1>1 DEF Fields
<1>3. PopFirst(h) = ManageQueue(k)
  BY DEF PopFirst
<1> HIDE DEF k
<1>4. Managed(k, PopFirst(h))
  BY <1>2, <1>3, ManageQueueFields
<1> QED BY <1>2, <1>4 DEF Managed, Popped

-----------------------------------------------------------------------------
\* Only the module of n changes.
OnlyAt(n) ==
    /\ mac' \in [Node -> Fields]
    /\ \A m \in Node : m # n => mac'[m] = mac[m]

\* What most handlers leave alone.
Numbers(h, g) ==
    /\ g.SeqNrParent = h.SeqNrParent /\ g.SeqNrChild = h.SeqNrChild

LEMMA UpperEffect ==
    ASSUME TypeInv, NEW p \in Packet, HandleUpperMsg(p)
    PROVE  LET n == Src[p]
               h == mac[n]
               g == mac'[n]
               f == [packet |-> p, seq |-> h.SeqNrParent[Dest[p]]]
           IN  /\ n \in Node /\ f \in Data /\ OnlyAt(n)
               /\ g.txAttempts = h.txAttempts /\ g.interrupted = h.interrupted
               /\ g.radio = h.radio /\ g.ackMessage = h.ackMessage
               /\ g.SeqNrChild = h.SeqNrChild
               /\ g.SeqNrParent = [h.SeqNrParent EXCEPT ![Dest[p]] = f.seq + 1]
               /\ \/ /\ Len(h.queue) <= QueueLength
                     /\ g.queue = Append(h.queue, f)
                     /\ queued' = Append(queued, p) /\ outcome' = outcome
                     /\ h.state = "IDLE_1" =>
                          /\ g.state = "BACKOFF_2" /\ g.NB = 0
                          /\ g.timers = h.timers \cup {"backoff"}
                     /\ h.state # "IDLE_1" =>
                          g.state = h.state /\ g.NB = h.NB /\ g.timers = h.timers
                  \/ /\ g.queue = h.queue /\ g.state = h.state
                     /\ g.NB = h.NB /\ g.timers = h.timers
                     /\ queued' = queued
                     /\ outcome' = [outcome EXCEPT ![p] = "dropped"]
<1> DEFINE n == Src[p]
           h == mac[n]
           f == [packet |-> p, seq |-> h.SeqNrParent[Dest[p]]]
           k == [h EXCEPT !.SeqNrParent[Dest[p]] = h.SeqNrParent[Dest[p]] + 1]
           l == [k EXCEPT !.queue = Append(@, f)]
           b == [l EXCEPT !.state = "BACKOFF_2", !.NB = 0,
                          !.timers = @ \cup {"backoff"}]
<1>1. /\ n \in Node /\ Dest[p] \in Node \cup {Broadcast}
      /\ mac \in [Node -> Fields] /\ h \in Fields
  BY DEF TypeInv
<1>2. f \in Data
  <2>1. h.SeqNrParent \in [Node \cup {Broadcast} -> Nat]
    BY <1>1 DEF Fields
  <2>2. h.SeqNrParent[Dest[p]] \in Nat
    BY <1>1, <2>1
  <2> HIDE DEF h
  <2> QED BY <2>2 DEF Data
<1>3. /\ HasRoom(h) /\ h.state # "IDLE_1" =>
           mac' = [mac EXCEPT ![n] = l]
      /\ HasRoom(h) /\ h.state = "IDLE_1" => mac' = [mac EXCEPT ![n] = b]
      /\ HasRoom(h) => queued' = Append(queued, p) /\ outcome' = outcome
      /\ ~ HasRoom(h) => /\ mac' = [mac EXCEPT ![n] = k]
                         /\ outcome' = [outcome EXCEPT ![p] = "dropped"]
                         /\ queued' = queued
  BY DEF HandleUpperMsg
<1> HIDE DEF h, n
<1>4. /\ k \in Fields
      /\ k.SeqNrParent =
           [h.SeqNrParent EXCEPT ![Dest[p]] = h.SeqNrParent[Dest[p]] + 1]
      /\ k.state = h.state /\ k.queue = h.queue /\ k.NB = h.NB
      /\ k.txAttempts = h.txAttempts /\ k.interrupted = h.interrupted
      /\ k.timers = h.timers /\ k.radio = h.radio
      /\ k.SeqNrChild = h.SeqNrChild /\ k.ackMessage = h.ackMessage
  <2> DEFINE s == [h.SeqNrParent EXCEPT ![Dest[p]] = h.SeqNrParent[Dest[p]] + 1]
  <2>1. h.SeqNrParent \in [Node \cup {Broadcast} -> Nat]
    BY <1>1 DEF Fields
  <2>2. s \in [Node \cup {Broadcast} -> Nat]
    BY <1>1, <2>1
  <2>3. k = [h EXCEPT !.SeqNrParent = s]
    OBVIOUS
  <2> HIDE DEF s, k
  <2>4. /\ k \in Fields /\ k.SeqNrParent = s
        /\ k.state = h.state /\ k.queue = h.queue /\ k.NB = h.NB
        /\ k.txAttempts = h.txAttempts /\ k.interrupted = h.interrupted
        /\ k.timers = h.timers /\ k.radio = h.radio
        /\ k.SeqNrChild = h.SeqNrChild /\ k.ackMessage = h.ackMessage
    BY <1>1, <2>2, <2>3 DEF Fields
  <2> QED BY <2>4 DEF s
<1> HIDE DEF k, f
<1>5. /\ l \in Fields /\ l.queue = Append(k.queue, f)
      /\ l.state = k.state /\ l.NB = k.NB
      /\ l.txAttempts = k.txAttempts /\ l.interrupted = k.interrupted
      /\ l.timers = k.timers /\ l.radio = k.radio
      /\ l.SeqNrChild = k.SeqNrChild /\ l.ackMessage = k.ackMessage
      /\ l.SeqNrParent = k.SeqNrParent
  <2>1. Append(k.queue, f) \in Seq(Data)
    BY <1>2, <1>4 DEF Fields
  <2> QED BY <1>4, <2>1 DEF Fields
<1> HIDE DEF l
<1>6. /\ b \in Fields /\ b.queue = l.queue /\ b.NB = 0
      /\ b.state = "BACKOFF_2" /\ b.timers = l.timers \cup {"backoff"}
      /\ b.txAttempts = l.txAttempts /\ b.interrupted = l.interrupted
      /\ b.radio = l.radio /\ b.SeqNrParent = l.SeqNrParent
      /\ b.SeqNrChild = l.SeqNrChild /\ b.ackMessage = l.ackMessage
  BY <1>5 DEF Fields, State
<1> HIDE DEF b
<1>7. CASE HasRoom(h)
  <2>1. /\ OnlyAt(n)
        /\ mac'[n] = IF h.state = "IDLE_1" THEN b ELSE l
    BY <1>1, <1>3, <1>5, <1>6, <1>7, Updated DEF OnlyAt
  <2>2. Len(h.queue) <= QueueLength
    BY <1>7 DEF HasRoom
  <2> QED BY <1>1, <1>2, <1>3, <1>4, <1>5, <1>6, <1>7, <2>1, <2>2, SMTT(30)
          DEF n, h, f
<1>8. CASE ~ HasRoom(h)
  <2>1. OnlyAt(n) /\ mac'[n] = k
    BY <1>1, <1>3, <1>4, <1>8, Updated DEF OnlyAt
  <2> QED BY <1>1, <1>2, <1>3, <1>4, <1>8, <2>1 DEF n, h, f
<1> QED BY <1>7, <1>8

LEMMA BackoffEffect ==
    ASSUME TypeInv, NEW n \in Node, BackoffTimer(n)
    PROVE  LET h == mac[n]
               g == mac'[n]
           IN  /\ "backoff" \in h.timers /\ OnlyAt(n) /\ Numbers(h, g)
               /\ g.state = "CCA_3" /\ g.radio = "RX"
               /\ g.timers = (h.timers \ {"backoff"}) \cup {"cca"}
               /\ g.queue = h.queue /\ g.NB = h.NB
               /\ g.txAttempts = h.txAttempts /\ g.interrupted = h.interrupted
               /\ g.ackMessage = h.ackMessage
<1> DEFINE h == mac[n]
           g == [h EXCEPT !.state = "CCA_3", !.radio = "RX",
                          !.timers = (@ \ {"backoff"}) \cup {"cca"}]
<1>1. /\ mac \in [Node -> Fields] /\ h \in Fields /\ "backoff" \in h.timers
      /\ mac' = [mac EXCEPT ![n] = g]
  BY DEF TypeInv, BackoffTimer
<1> HIDE DEF h
<1>2. /\ g \in Fields /\ Numbers(h, g)
      /\ g.state = "CCA_3" /\ g.radio = "RX"
      /\ g.timers = (h.timers \ {"backoff"}) \cup {"cca"}
      /\ g.queue = h.queue /\ g.NB = h.NB
      /\ g.txAttempts = h.txAttempts /\ g.interrupted = h.interrupted
      /\ g.ackMessage = h.ackMessage
  BY <1>1 DEF Fields, State, Numbers
<1> HIDE DEF g
<1>3. OnlyAt(n) /\ mac'[n] = g
  BY <1>1, <1>2, Updated DEF OnlyAt
<1> QED BY <1>1, <1>2, <1>3 DEF h

LEMMA TransmitEffect ==
    ASSUME TypeInv, NEW n \in Node, TransmitFrame(n)
    PROVE  LET h == mac[n]
               g == mac'[n]
           IN  /\ "cca" \in h.timers /\ OnlyAt(n) /\ Numbers(h, g)
               /\ g.state = "TRANSMITFRAME_4" /\ g.radio = "TX"
               /\ g.timers = h.timers \ {"cca"}
               /\ g.queue = h.queue /\ g.NB = h.NB
               /\ g.txAttempts = h.txAttempts /\ g.interrupted = h.interrupted
               /\ g.ackMessage = h.ackMessage
<1> DEFINE h == mac[n]
           g == [h EXCEPT !.state = "TRANSMITFRAME_4", !.radio = "TX",
                          !.timers = @ \ {"cca"}]
<1>1. /\ mac \in [Node -> Fields] /\ h \in Fields /\ "cca" \in h.timers
      /\ mac' = [mac EXCEPT ![n] = g]
  BY DEF TypeInv, TransmitFrame
<1> HIDE DEF h
<1>2. /\ g \in Fields /\ Numbers(h, g)
      /\ g.state = "TRANSMITFRAME_4" /\ g.radio = "TX"
      /\ g.timers = h.timers \ {"cca"}
      /\ g.queue = h.queue /\ g.NB = h.NB
      /\ g.txAttempts = h.txAttempts /\ g.interrupted = h.interrupted
      /\ g.ackMessage = h.ackMessage
  BY <1>1 DEF Fields, State, Numbers
<1> HIDE DEF g
<1>3. OnlyAt(n) /\ mac'[n] = g
  BY <1>1, <1>2, Updated DEF OnlyAt
<1> QED BY <1>1, <1>2, <1>3 DEF h

LEMMA SifsEffect ==
    ASSUME TypeInv, NEW n \in Node, SifsTimer(n)
    PROVE  LET h == mac[n]
               g == mac'[n]
           IN  /\ "sifs" \in h.timers /\ OnlyAt(n) /\ Numbers(h, g)
               /\ g.state = "TRANSMITACK_7" /\ g.radio = h.radio
               /\ g.timers = h.timers \ {"sifs"}
               /\ g.queue = h.queue /\ g.NB = h.NB
               /\ g.txAttempts = h.txAttempts /\ g.interrupted = h.interrupted
               /\ g.ackMessage = NoHost
<1> DEFINE h == mac[n]
           g == [h EXCEPT !.state = "TRANSMITACK_7", !.timers = @ \ {"sifs"},
                          !.ackMessage = NoHost]
<1>1. /\ mac \in [Node -> Fields] /\ h \in Fields /\ "sifs" \in h.timers
      /\ mac' = [mac EXCEPT ![n] = g]
  BY DEF TypeInv, SifsTimer
<1> HIDE DEF h
<1>2. /\ g \in Fields /\ Numbers(h, g)
      /\ g.state = "TRANSMITACK_7" /\ g.radio = h.radio
      /\ g.timers = h.timers \ {"sifs"}
      /\ g.queue = h.queue /\ g.NB = h.NB
      /\ g.txAttempts = h.txAttempts /\ g.interrupted = h.interrupted
      /\ g.ackMessage = NoHost
  BY <1>1 DEF Fields, State, Numbers
<1> HIDE DEF g
<1>3. OnlyAt(n) /\ mac'[n] = g
  BY <1>1, <1>2, Updated DEF OnlyAt
<1> QED BY <1>1, <1>2, <1>3 DEF h
\* What manageQueue decides: q is the queue, and t, nb, i the timers, NB and
\* transmissionAttemptInterruptedByRx before.
GoesOn(g, q, t, nb, i) ==
    /\ g.queue = q
    /\ q = <<>> => /\ g.state = "IDLE_1" /\ g.timers = t
                   /\ g.NB = nb /\ g.interrupted = i
    /\ q # <<>> => /\ g.state = "BACKOFF_2" /\ g.timers = t \cup {"backoff"}
                   /\ g.NB = (IF i THEN nb ELSE 0) /\ g.interrupted = FALSE

LEMMA BusyEffect ==
    ASSUME TypeInv, NEW n \in Node, ChannelBusy(n), mac[n].queue # <<>>
    PROVE  LET h == mac[n]
               g == mac'[n]
               t == h.timers \ {"cca"}
           IN  /\ "cca" \in h.timers /\ OnlyAt(n) /\ Numbers(h, g)
               /\ g.radio = h.radio /\ g.ackMessage = h.ackMessage
               /\ \/ /\ h.NB + 1 > MaxBackoffs /\ g.txAttempts = 0
                     /\ GoesOn(g, Tail(h.queue), t, h.NB + 1, h.interrupted)
                     /\ outcome' = [outcome EXCEPT ![First(h).packet] = "dropped"]
                  \/ /\ h.NB + 1 <= MaxBackoffs /\ g.txAttempts = h.txAttempts
                     /\ g.state = "BACKOFF_2" /\ g.timers = t \cup {"backoff"}
                     /\ g.NB = h.NB + 1 /\ g.interrupted = h.interrupted
                     /\ g.queue = h.queue /\ outcome' = outcome
<1> DEFINE h == mac[n]
           k == [h EXCEPT !.timers = @ \ {"cca"}, !.NB = @ + 1]
           b == [k EXCEPT !.state = "BACKOFF_2", !.timers = @ \cup {"backoff"}]
<1>1. /\ mac \in [Node -> Fields] /\ h \in Fields /\ "cca" \in h.timers
      /\ h.queue # <<>> /\ MaxBackoffs \in Nat /\ h.NB \in Nat
      /\ k.NB > MaxBackoffs =>
           /\ mac' = [mac EXCEPT ![n] = PopFirst(k)]
           /\ outcome' = [outcome EXCEPT ![First(k).packet] = "dropped"]
      /\ ~ (k.NB > MaxBackoffs) =>
           mac' = [mac EXCEPT ![n] = b] /\ outcome' = outcome
  BY DEF TypeInv, ChannelBusy, Fields
<1> HIDE DEF h
<1>2. /\ k \in Fields /\ Numbers(h, k) /\ k.NB = h.NB + 1
      /\ k.timers = h.timers \ {"cca"} /\ k.queue = h.queue
      /\ k.state = h.state /\ k.radio = h.radio /\ k.txAttempts = h.txAttempts
      /\ k.interrupted = h.interrupted /\ k.ackMessage = h.ackMessage
  <2>1. h.NB + 1 \in Nat
    BY <1>1
  <2> QED BY <1>1, <2>1 DEF Fields, Numbers
<1> HIDE DEF k
<1>3. CASE k.NB > MaxBackoffs
  <2>1. Popped(k, PopFirst(k))
    BY <1>1, <1>2, PopFirstFields
  <2>2. OnlyAt(n) /\ mac'[n] = PopFirst(k)
    BY <1>1, <1>3, <2>1, Updated DEF OnlyAt, Popped
  <2>3. /\ Numbers(h, mac'[n]) /\ mac'[n].txAttempts = 0
        /\ mac'[n].radio = h.radio /\ mac'[n].ackMessage = h.ackMessage
        /\ GoesOn(mac'[n], Tail(h.queue), h.timers \ {"cca"}, h.NB + 1,
                  h.interrupted)
    BY <1>2, <2>1, <2>2 DEF Popped, Numbers, GoesOn
  <2>4. First(k) = First(h)
    BY <1>2 DEF First
  <2> QED BY <1>1, <1>2, <1>3, <2>2, <2>3, <2>4 DEF h
<1>4. CASE ~ (k.NB > MaxBackoffs)
  <2>1. /\ b \in Fields /\ Numbers(k, b) /\ b.state = "BACKOFF_2"
        /\ b.timers = k.timers \cup {"backoff"} /\ b.queue = k.queue
        /\ b.NB = k.NB /\ b.interrupted = k.interrupted
        /\ b.radio = k.radio /\ b.txAttempts = k.txAttempts
        /\ b.ackMessage = k.ackMessage
    BY <1>2 DEF Fields, State, Numbers
  <2> HIDE DEF b
  <2>2. OnlyAt(n) /\ mac'[n] = b
    BY <1>1, <1>4, <2>1, Updated DEF OnlyAt
  <2>3. Numbers(h, b)
    BY <1>2, <2>1 DEF Numbers
  <2>4. k.NB <= MaxBackoffs
    BY <1>1, <1>2, <1>4
  <2> QED BY <1>1, <1>2, <1>4, <2>1, <2>2, <2>3, <2>4 DEF h
<1> QED BY <1>3, <1>4

LEMMA RxAckEffect ==
    ASSUME TypeInv, NEW n \in Node, RxAckTimer(n), mac[n].queue # <<>>
    PROVE  LET h == mac[n]
               g == mac'[n]
               t == h.timers \ {"rxAck"}
           IN  /\ "rxAck" \in h.timers /\ OnlyAt(n) /\ Numbers(h, g)
               /\ ~ AckUnderWay(n)
               /\ g.radio = h.radio /\ g.ackMessage = h.ackMessage
               /\ \/ /\ h.txAttempts < MaxRetries + 1
                     /\ g.txAttempts = h.txAttempts + 1 /\ outcome' = outcome
                     /\ GoesOn(g, h.queue, t, h.NB, h.interrupted)
                  \/ /\ g.txAttempts = 0
                     /\ GoesOn(g, Tail(h.queue), t, h.NB, h.interrupted)
                     /\ outcome' = [outcome EXCEPT ![First(h).packet] = "dropped"]
<1> DEFINE h == mac[n]
           k == [h EXCEPT !.timers = @ \ {"rxAck"}]
           l == [k EXCEPT !.txAttempts = @ + 1]
<1>1. /\ mac \in [Node -> Fields] /\ h \in Fields /\ "rxAck" \in h.timers
      /\ h.queue # <<>> /\ ~ AckUnderWay(n)
      /\ Retries(k) => /\ mac' = [mac EXCEPT ![n] = ManageQueue(l)]
                       /\ outcome' = outcome
      /\ ~ Retries(k) =>
           /\ mac' = [mac EXCEPT ![n] = PopFirst(k)]
           /\ outcome' = [outcome EXCEPT ![First(k).packet] = "dropped"]
  BY DEF TypeInv, RxAckTimer
<1> HIDE DEF h
<1>2. /\ k \in Fields /\ Numbers(h, k) /\ k.NB = h.NB
      /\ k.timers = h.timers \ {"rxAck"} /\ k.queue = h.queue
      /\ k.state = h.state /\ k.radio = h.radio /\ k.txAttempts = h.txAttempts
      /\ k.interrupted = h.interrupted /\ k.ackMessage = h.ackMessage
  BY <1>1 DEF Fields, Numbers
<1> HIDE DEF k
<1>3. CASE Retries(k)
  <2>1. /\ l \in Fields /\ Numbers(k, l) /\ l.txAttempts = k.txAttempts + 1
        /\ l.timers = k.timers /\ l.queue = k.queue /\ l.NB = k.NB
        /\ l.interrupted = k.interrupted /\ l.radio = k.radio
        /\ l.ackMessage = k.ackMessage
    <3>1. k.txAttempts \in Nat
      BY <1>2 DEF Fields
    <3>2. k.txAttempts + 1 \in Nat
      BY <3>1
    <3> QED BY <1>2, <3>2 DEF Fields, Numbers
  <2> HIDE DEF l
  <2>2. Managed(l, ManageQueue(l))
    BY <2>1, ManageQueueFields
  <2>3. OnlyAt(n) /\ mac'[n] = ManageQueue(l)
    BY <1>1, <1>3, <2>2, Updated DEF OnlyAt, Managed
  <2>4. /\ Numbers(h, mac'[n]) /\ mac'[n].txAttempts = h.txAttempts + 1
        /\ mac'[n].radio = h.radio /\ mac'[n].ackMessage = h.ackMessage
        /\ GoesOn(mac'[n], h.queue, h.timers \ {"rxAck"}, h.NB, h.interrupted)
    BY <1>2, <2>1, <2>2, <2>3 DEF Managed, Numbers, GoesOn
  <2>5. h.txAttempts < MaxRetries + 1
    BY <1>2, <1>3 DEF Retries
  <2> QED BY <1>1, <1>3, <2>3, <2>4, <2>5 DEF h
<1>4. CASE ~ Retries(k)
  <2>1. Popped(k, PopFirst(k))
    BY <1>1, <1>2, PopFirstFields
  <2>2. OnlyAt(n) /\ mac'[n] = PopFirst(k)
    BY <1>1, <1>4, <2>1, Updated DEF OnlyAt, Popped
  <2>3. /\ Numbers(h, mac'[n]) /\ mac'[n].txAttempts = 0
        /\ mac'[n].radio = h.radio /\ mac'[n].ackMessage = h.ackMessage
        /\ GoesOn(mac'[n], Tail(h.queue), h.timers \ {"rxAck"}, h.NB,
                  h.interrupted)
    BY <1>2, <2>1, <2>2 DEF Popped, Numbers, GoesOn
  <2>4. First(k) = First(h)
    BY <1>2 DEF First
  <2> QED BY <1>1, <1>4, <2>2, <2>3, <2>4 DEF h
<1> QED BY <1>3, <1>4
LEMMA EndEffect ==
    ASSUME TypeInv, NEW n \in Node, EndOfFrame(n),
           mac[n].state = "TRANSMITFRAME_4" => mac[n].queue # <<>>
    PROVE  LET h == mac[n]
               g == mac'[n]
           IN  /\ OnlyAt(n) /\ Numbers(h, g) /\ g.radio = "RX"
               /\ g.ackMessage = h.ackMessage /\ g.txAttempts = h.txAttempts
               /\ \/ /\ h.state = "TRANSMITACK_7" /\ outcome' = outcome
                     /\ GoesOn(g, h.queue, h.timers, h.NB, h.interrupted)
                  \/ /\ h.state = "TRANSMITFRAME_4" /\ outcome' = outcome
                     /\ Dest[First(h).packet] # Broadcast
                     /\ g.state = "WAITACK_5" /\ g.queue = h.queue
                     /\ g.timers = h.timers \cup {"rxAck"}
                     /\ g.NB = h.NB /\ g.interrupted = h.interrupted
                  \/ /\ h.state = "TRANSMITFRAME_4"
                     /\ Dest[First(h).packet] = Broadcast
                     /\ outcome' = [outcome EXCEPT ![First(h).packet] = "sent"]
                     /\ GoesOn(g, Tail(h.queue), h.timers, h.NB, h.interrupted)
<1> DEFINE h == mac[n]
           k == [h EXCEPT !.radio = "RX"]
           w == [k EXCEPT !.state = "WAITACK_5", !.timers = @ \cup {"rxAck"}]
           r == [k EXCEPT !.queue = Tail(@)]
           unicast == Dest[First(k).packet] # Broadcast
<1>1. /\ mac \in [Node -> Fields] /\ h \in Fields
      /\ h.state = "TRANSMITFRAME_4" => h.queue # <<>>
      /\ \/ /\ k.state = "TRANSMITACK_7" /\ outcome' = outcome
            /\ mac' = [mac EXCEPT ![n] = ManageQueue(k)]
         \/ /\ k.state = "TRANSMITFRAME_4" /\ unicast /\ outcome' = outcome
            /\ mac' = [mac EXCEPT ![n] = w]
         \/ /\ k.state = "TRANSMITFRAME_4" /\ ~ unicast
            /\ mac' = [mac EXCEPT ![n] = ManageQueue(r)]
            /\ outcome' = [outcome EXCEPT ![First(k).packet] = "sent"]
  BY DEF TypeInv, EndOfFrame, Transmitted
<1> HIDE DEF h
<1>2. /\ k \in Fields /\ Numbers(h, k) /\ k.NB = h.NB
      /\ k.timers = h.timers /\ k.queue = h.queue /\ k.radio = "RX"
      /\ k.state = h.state /\ k.txAttempts = h.txAttempts
      /\ k.interrupted = h.interrupted /\ k.ackMessage = h.ackMessage
  BY <1>1 DEF Fields, Numbers
<1>3. First(k) = First(h)
  BY <1>2 DEF First
<1> HIDE DEF k
<1>4. CASE /\ k.state = "TRANSMITACK_7" /\ outcome' = outcome
           /\ mac' = [mac EXCEPT ![n] = ManageQueue(k)]
  <2>1. Managed(k, ManageQueue(k))
    BY <1>2, ManageQueueFields
  <2>2. OnlyAt(n) /\ mac'[n] = ManageQueue(k)
    BY <1>1, <1>4, <2>1, Updated DEF OnlyAt, Managed
  <2>3. /\ Numbers(h, mac'[n]) /\ mac'[n].txAttempts = h.txAttempts
        /\ mac'[n].radio = "RX" /\ mac'[n].ackMessage = h.ackMessage
        /\ GoesOn(mac'[n], h.queue, h.timers, h.NB, h.interrupted)
    BY <1>2, <2>1, <2>2 DEF Managed, Numbers, GoesOn
  <2> QED BY <1>2, <1>4, <2>2, <2>3 DEF h
<1>5. CASE /\ k.state = "TRANSMITFRAME_4" /\ unicast /\ outcome' = outcome
           /\ mac' = [mac EXCEPT ![n] = w]
  <2>1. /\ w \in Fields /\ Numbers(k, w) /\ w.state = "WAITACK_5"
        /\ w.timers = k.timers \cup {"rxAck"} /\ w.queue = k.queue
        /\ w.NB = k.NB /\ w.interrupted = k.interrupted
        /\ w.radio = k.radio /\ w.txAttempts = k.txAttempts
        /\ w.ackMessage = k.ackMessage
    BY <1>2 DEF Fields, State, Numbers
  <2> HIDE DEF w
  <2>2. OnlyAt(n) /\ mac'[n] = w
    BY <1>1, <1>5, <2>1, Updated DEF OnlyAt
  <2>3. Numbers(h, w)
    BY <1>2, <2>1 DEF Numbers
  <2> QED BY <1>2, <1>3, <1>5, <2>1, <2>2, <2>3 DEF h
<1>6. CASE /\ k.state = "TRANSMITFRAME_4" /\ ~ unicast
           /\ mac' = [mac EXCEPT ![n] = ManageQueue(r)]
           /\ outcome' = [outcome EXCEPT ![First(k).packet] = "sent"]
  <2>1. Tail(k.queue) \in Seq(Data)
    BY <1>1, <1>2, <1>6, QueueHead DEF Fields
  <2>2. /\ r \in Fields /\ Numbers(k, r) /\ r.queue = Tail(k.queue)
        /\ r.timers = k.timers /\ r.NB = k.NB
        /\ r.interrupted = k.interrupted /\ r.radio = k.radio
        /\ r.txAttempts = k.txAttempts /\ r.ackMessage = k.ackMessage
    BY <1>2, <2>1 DEF Fields, Numbers
  <2> HIDE DEF r
  <2>3. Managed(r, ManageQueue(r))
    BY <2>2, ManageQueueFields
  <2>4. OnlyAt(n) /\ mac'[n] = ManageQueue(r)
    BY <1>1, <1>6, <2>3, Updated DEF OnlyAt, Managed
  <2>5. /\ Numbers(h, mac'[n]) /\ mac'[n].txAttempts = h.txAttempts
        /\ mac'[n].radio = "RX" /\ mac'[n].ackMessage = h.ackMessage
        /\ GoesOn(mac'[n], Tail(h.queue), h.timers, h.NB, h.interrupted)
    BY <1>2, <2>2, <2>3, <2>4 DEF Managed, Numbers, GoesOn
  <2> QED BY <1>2, <1>3, <1>6, <2>4, <2>5 DEF h
<1> QED BY <1>1, <1>4, <1>5, <1>6

\* What ReceiveData makes of the module.
DataMakes(n, f) ==
    LET h == mac[n]
        g == mac'[n]
    IN  /\ OnlyAt(n) /\ Dest[f.packet] = n
        /\ g.queue = h.queue /\ g.NB = h.NB
        /\ g.txAttempts = h.txAttempts /\ g.SeqNrParent = h.SeqNrParent
        /\ g.SeqNrChild[Source(f)] = NextExpected(h, f)
        /\ \A m \in Node : m # Source(f) =>
             g.SeqNrChild[m] = h.SeqNrChild[m]
        /\ g.ackMessage = Source(f)
        /\ Acknowledges(h) =>
             /\ g.state = "WAITSIFS_6" /\ g.radio = "TX"
             /\ g.timers = (h.timers \ {"backoff", "cca"}) \cup {"sifs"}
             /\ h.interrupted = FALSE /\ h.state = "IDLE_1" =>
                  g.interrupted = FALSE
             /\ h.interrupted = TRUE \/ h.state # "IDLE_1" =>
                  g.interrupted = TRUE
        /\ ~ Acknowledges(h) =>
             /\ g.state = h.state /\ g.radio = h.radio
             /\ g.timers = h.timers /\ g.interrupted = h.interrupted

LEMMA DataEffect ==
    ASSUME TypeInv, NEW n \in Node, NEW f \in Data, ReceiveData(n, f)
    PROVE  DataMakes(n, f)
<1> DEFINE h == mac[n]
           s == Source(f)
           x == NextExpected(h, f)
           k == [h EXCEPT !.ackMessage = s, !.SeqNrChild[s] = x]
<1>1. /\ mac \in [Node -> Fields] /\ h \in Fields /\ s \in Node
      /\ f.seq \in Nat /\ Dest[f.packet] = n
      /\ mac' = [mac EXCEPT ![n] = IF Acknowledges(k) THEN Suspend(k) ELSE k]
  BY DataFrame DEF TypeInv, ReceiveData, Source
<1> HIDE DEF h
<1>2. x \in Nat
  <2>1. h.SeqNrChild \in [Node -> Nat]
    BY <1>1 DEF Fields
  <2>2. h.SeqNrChild[s] \in Nat
    BY <1>1, <2>1
  <2> QED BY <1>1, <2>2 DEF NextExpected, Source
<1> HIDE DEF s, x
<1>3. /\ k \in Fields /\ k.SeqNrParent = h.SeqNrParent /\ k.NB = h.NB
      /\ k.SeqNrChild[s] = x /\ k.ackMessage = s
      /\ \A m \in Node : m # s => k.SeqNrChild[m] = h.SeqNrChild[m]
      /\ k.timers = h.timers /\ k.queue = h.queue /\ k.radio = h.radio
      /\ k.state = h.state /\ k.txAttempts = h.txAttempts
      /\ k.interrupted = h.interrupted
  <2> DEFINE c == [h.SeqNrChild EXCEPT ![s] = x]
  <2>1. h.SeqNrChild \in [Node -> Nat]
    BY <1>1 DEF Fields
  <2>2. c \in [Node -> Nat]
    BY <1>1, <1>2, <2>1
  <2>3. k = [h EXCEPT !.ackMessage = s, !.SeqNrChild = c]
    BY <1>1 DEF Fields
  <2> HIDE DEF c, k
  <2>4. /\ k \in Fields /\ k.SeqNrParent = h.SeqNrParent /\ k.NB = h.NB
        /\ k.SeqNrChild = c /\ k.ackMessage = s
        /\ k.timers = h.timers /\ k.queue = h.queue /\ k.radio = h.radio
        /\ k.state = h.state /\ k.txAttempts = h.txAttempts
        /\ k.interrupted = h.interrupted
    BY <1>1, <2>2, <2>3 DEF Fields
  <2>5. c[s] = x /\ \A m \in Node : m # s => c[m] = h.SeqNrChild[m]
    BY <1>1, <2>1 DEF c
  <2> QED BY <2>4, <2>5
<1> HIDE DEF k
<1>4. Acknowledges(k) <=> Acknowledges(h)
  BY <1>3 DEF Acknowledges
<1>5. CASE Acknowledges(h)
  <2> DEFINE g == Suspend(k)
  <2>1. k.interrupted \in BOOLEAN /\ (k.interrupted \/ k.state # "IDLE_1") \in BOOLEAN
    BY <1>3 DEF Fields
  <2>2. /\ g \in Fields /\ g.state = "WAITSIFS_6" /\ g.radio = "TX"
        /\ g.timers = (k.timers \ {"backoff", "cca"}) \cup {"sifs"}
        /\ g.queue = k.queue /\ g.NB = k.NB /\ g.SeqNrChild = k.SeqNrChild
        /\ g.SeqNrParent = k.SeqNrParent /\ g.txAttempts = k.txAttempts
        /\ g.ackMessage = k.ackMessage
        /\ g.interrupted = (k.interrupted \/ k.state # "IDLE_1")
    BY <1>3, <2>1 DEF Fields, State, Suspend
  <2> HIDE DEF g
  <2>3. OnlyAt(n) /\ mac'[n] = g
    BY <1>1, <1>4, <1>5, <2>2, Updated DEF OnlyAt, g
  <2>4. /\ h.interrupted = FALSE /\ h.state = "IDLE_1" => g.interrupted = FALSE
        /\ h.interrupted = TRUE \/ h.state # "IDLE_1" => g.interrupted = TRUE
    BY <1>3, <2>1, <2>2
  <2>5. /\ g.queue = h.queue /\ g.NB = h.NB /\ g.txAttempts = h.txAttempts
        /\ g.SeqNrParent = h.SeqNrParent /\ g.SeqNrChild[s] = x
        /\ \A m \in Node : m # s => g.SeqNrChild[m] = h.SeqNrChild[m]
        /\ g.ackMessage = s
        /\ g.timers = (h.timers \ {"backoff", "cca"}) \cup {"sifs"}
    BY <1>3, <2>2
  <2>6. Dest[f.packet] = n /\ g.state = "WAITSIFS_6" /\ g.radio = "TX"
    BY <1>1, <2>2
  <2> QED BY ONLY <1>5, <2>3, <2>4, <2>5, <2>6 DEF h, s, x, DataMakes
<1>6. CASE ~ Acknowledges(h)
  <2>1. OnlyAt(n) /\ mac'[n] = k
    BY <1>1, <1>3, <1>4, <1>6, Updated DEF OnlyAt
  <2> QED BY <1>1, <1>3, <1>6, <2>1 DEF h, s, x, DataMakes
<1> QED BY <1>5, <1>6

LEMMA AckEffect ==
    ASSUME TypeInv, NEW n \in Node, NEW f \in Ack, ReceiveAck(n, f)
    PROVE  LET h == mac[n]
               g == mac'[n]
           IN  /\ OnlyAt(n) /\ Numbers(h, g) /\ Expected(n, f)
               /\ g.radio = h.radio /\ g.ackMessage = h.ackMessage
               /\ g.txAttempts = 0
               /\ GoesOn(g, Tail(h.queue), h.timers \ {"rxAck"}, h.NB,
                         h.interrupted)
               /\ outcome' = [outcome EXCEPT ![First(h).packet] = "success"]
<1> DEFINE h == mac[n]
           k == [h EXCEPT !.timers = @ \ {"rxAck"}]
<1>1. /\ mac \in [Node -> Fields] /\ h \in Fields
      /\ h.queue # <<>> /\ Expected(n, f)
      /\ mac' = [mac EXCEPT ![n] = PopFirst(k)]
      /\ outcome' = [outcome EXCEPT ![First(h).packet] = "success"]
  BY DEF TypeInv, ReceiveAck, Expected
<1> HIDE DEF h
<1>2. /\ k \in Fields /\ Numbers(h, k) /\ k.NB = h.NB
      /\ k.timers = h.timers \ {"rxAck"} /\ k.queue = h.queue
      /\ k.state = h.state /\ k.radio = h.radio /\ k.txAttempts = h.txAttempts
      /\ k.interrupted = h.interrupted /\ k.ackMessage = h.ackMessage
  BY <1>1 DEF Fields, Numbers
<1> HIDE DEF k
<1>3. Popped(k, PopFirst(k))
  BY <1>1, <1>2, PopFirstFields
<1>4. OnlyAt(n) /\ mac'[n] = PopFirst(k)
  BY <1>1, <1>3, Updated DEF OnlyAt, Popped
<1>5. /\ Numbers(h, mac'[n]) /\ mac'[n].txAttempts = 0
      /\ mac'[n].radio = h.radio /\ mac'[n].ackMessage = h.ackMessage
      /\ GoesOn(mac'[n], Tail(h.queue), h.timers \ {"rxAck"}, h.NB,
                h.interrupted)
  BY <1>2, <1>3, <1>4 DEF Popped, Numbers, GoesOn
<1> QED BY <1>1, <1>4, <1>5 DEF h
\* handleLowerMsg, by the kind of the frame.
LEMMA LowerCases ==
    ASSUME TypeInv, NEW n \in Node, HandleLowerMsg(n)
    PROVE  /\ arriving[n] \in Data \cup Ack
           /\ arriving' = [arriving EXCEPT ![n] = NoFrame]
           /\ onAir' = onAir /\ queued' = queued /\ sent' = sent
           /\ \/ arriving[n] \in Data /\ ReceiveData(n, arriving[n])
              \/ arriving[n] \in Data /\ ReceiveBroadcast(n, arriving[n])
              \/ arriving[n] \in Ack /\ ReceiveAck(n, arriving[n])
              \/ Discard(n, arriving[n])
<1>1. arriving[n] \in Frame
  BY DEF TypeInv
<1>2. /\ arriving[n] \in Data <=> IsData(arriving[n])
      /\ arriving[n] \in Ack <=> IsAck(arriving[n])
      /\ arriving[n] # NoFrame => arriving[n] \in Data \cup Ack
  BY <1>1, FrameKinds DEF Frame
<1> QED BY <1>2 DEF HandleLowerMsg

-----------------------------------------------------------------------------
(***************************************************************************)
(* The state of one host h with air as what its radio sends: the parts of  *)
(* StateIsHardware, the limits of the counters, and that only an attempt   *)
(* that has not failed can be interrupted.                                 *)
(***************************************************************************)
HostOK(h, air) ==
    /\ h.timers = TimersOf[h.state]
    /\ h.radio = "TX" <=>
         h.state \in {"TRANSMITFRAME_4", "WAITSIFS_6", "TRANSMITACK_7"}
    /\ h.state = "TRANSMITFRAME_4" => h.queue # <<>> /\ air = First(h)
    /\ h.state = "TRANSMITACK_7" => IsAck(air)
    /\ air # NoFrame => h.state \in {"TRANSMITFRAME_4", "TRANSMITACK_7"}
    /\ h.state \in {"BACKOFF_2", "CCA_3", "WAITACK_5"} => h.queue # <<>>
    /\ h.state = "WAITSIFS_6" => h.ackMessage # NoHost
    /\ h.NB <= MaxBackoffs + 1 /\ h.txAttempts <= MaxRetries + 1
    /\ h.interrupted =>
         h.state \in {"WAITSIFS_6", "TRANSMITACK_7"} /\ h.queue # <<>>
    /\ h.interrupted \/ h.state \in {"BACKOFF_2", "CCA_3"} => h.NB <= MaxBackoffs

HostInv == \A n \in Node : HostOK(mac[n], onAir[n])

LEMMA Timers ==
    /\ TimersOf["IDLE_1"] = {} /\ TimersOf["BACKOFF_2"] = {"backoff"}
    /\ TimersOf["CCA_3"] = {"cca"} /\ TimersOf["TRANSMITFRAME_4"] = {}
    /\ TimersOf["WAITACK_5"] = {"rxAck"} /\ TimersOf["WAITSIFS_6"] = {"sifs"}
    /\ TimersOf["TRANSMITACK_7"] = {}
BY DEF TimersOf

\* Which timer runs says which state it is.
LEMMA TimerRuns ==
    ASSUME NEW h \in Fields, NEW air, HostOK(h, air)
    PROVE  /\ h.state \in State
           /\ "backoff" \in h.timers => h.state = "BACKOFF_2"
           /\ "cca" \in h.timers => h.state = "CCA_3"
           /\ "sifs" \in h.timers => h.state = "WAITSIFS_6"
           /\ "rxAck" \in h.timers => h.state = "WAITACK_5"
BY Timers DEF HostOK, Fields, State

LEMMA OneHost ==
    ASSUME TypeInv, HostInv, NEW n \in Node, OnlyAt(n),
           \A m \in Node : m # n => onAir'[m] = onAir[m],
           HostOK(mac'[n], onAir'[n])
    PROVE  HostInv'
<1>1. \A m \in Node : m # n => HostOK(mac'[m], onAir'[m])
  BY DEF HostInv, OnlyAt
<1>2. \A m \in Node : HostOK(mac'[m], onAir'[m])
  BY <1>1
<1> QED BY <1>2 DEF HostInv

\* manageQueue leaves a host that has nothing on the air in order.
LEMMA GoesOnOK ==
    ASSUME NEW g \in Fields, NEW q, NEW nb, NEW i \in BOOLEAN,
           GoesOn(g, q, {}, nb, i), g.radio = "RX",
           g.txAttempts <= MaxRetries + 1, nb \in Nat, nb <= MaxBackoffs + 1,
           i => nb <= MaxBackoffs /\ q # <<>>
    PROVE  HostOK(g, NoFrame)
<1>1. CASE q = <<>>
  <2>1. ~ i /\ g.interrupted = i
    BY <1>1 DEF GoesOn
  <2> QED BY <1>1, <2>1, Timers DEF GoesOn, HostOK
<1>2. CASE q # <<>>
  <2>1. /\ g.NB <= MaxBackoffs /\ g.NB \in Nat
        /\ g.state = "BACKOFF_2" /\ g.timers = {"backoff"}
        /\ g.interrupted = FALSE /\ g.queue # <<>>
    BY <1>2 DEF GoesOn, Fields
  <2>2. g.NB <= MaxBackoffs + 1
    BY <2>1
  <2> QED BY <2>1, <2>2, Timers DEF HostOK
<1> QED BY <1>1, <1>2
-----------------------------------------------------------------------------
\* Each action keeps the types and the state of its host in order.
HwInv == TypeInv /\ HostInv

LEMMA HwInit ==
    ASSUME Init PROVE HwInv
<1>1. TypeInv
  <2>1. [n \in Node |-> 0] \in [Node -> Nat]
    OBVIOUS
  <2>2. [m \in Node \cup {Broadcast} |-> 0] \in [Node \cup {Broadcast} -> Nat]
    OBVIOUS
  <2>3. mac \in [Node -> Fields]
    BY <2>1, <2>2 DEF Init, Fields, State
  <2>4. /\ onAir \in [Node -> Frame] /\ arriving \in [Node -> Frame]
        /\ queued \in Seq(Packet)
        /\ outcome \in [Packet -> {"none", "success", "dropped", "sent"}]
        /\ taken \in [Node -> Seq(Packet)] /\ sent \in [Packet -> Nat]
    BY DEF Init, Frame
  <2> QED BY <2>3, <2>4 DEF TypeInv
<1>2. ASSUME NEW n \in Node PROVE HostOK(mac[n], onAir[n])
  <2>1. /\ mac[n].state = "IDLE_1" /\ mac[n].timers = {} /\ mac[n].radio = "RX"
        /\ mac[n].NB = 0 /\ mac[n].txAttempts = 0 /\ mac[n].interrupted = FALSE
        /\ onAir[n] = NoFrame
    BY DEF Init
  <2>2. 0 <= MaxBackoffs + 1 /\ 0 <= MaxRetries + 1
    OBVIOUS
  <2> QED BY <2>1, <2>2, Timers DEF HostOK
<1> QED BY <1>1, <1>2 DEF HwInv, HostInv

LEMMA HwUpper ==
    ASSUME HwInv, NEW p \in Packet, HandleUpperMsg(p)
    PROVE  HwInv'
<1> DEFINE n == Src[p]
           h == mac[n]
           g == mac'[n]
           f == [packet |-> p, seq |-> h.SeqNrParent[Dest[p]]]
<1>1. TypeInv /\ HostInv /\ n \in Node
  BY DEF HwInv
<1>2. /\ onAir' = onAir /\ arriving' = arriving /\ taken' = taken /\ sent' = sent
      /\ OnlyAt(n) /\ f \in Data
      /\ g.txAttempts = h.txAttempts /\ g.interrupted = h.interrupted
      /\ g.radio = h.radio /\ g.ackMessage = h.ackMessage
      /\ \/ /\ g.queue = Append(h.queue, f)
            /\ queued' = Append(queued, p) /\ outcome' = outcome
            /\ h.state = "IDLE_1" =>
                 /\ g.state = "BACKOFF_2" /\ g.NB = 0
                 /\ g.timers = h.timers \cup {"backoff"}
            /\ h.state # "IDLE_1" =>
                 g.state = h.state /\ g.NB = h.NB /\ g.timers = h.timers
         \/ /\ g.queue = h.queue /\ g.state = h.state
            /\ g.NB = h.NB /\ g.timers = h.timers
            /\ queued' = queued /\ outcome' = [outcome EXCEPT ![p] = "dropped"]
  BY <1>1, UpperEffect DEF HandleUpperMsg
<1>3. TypeInv'
  <2>1. queued' \in Seq(Packet)
    <3>1. queued' = queued \/ queued' = Append(queued, p)
      BY <1>2
    <3>2. queued \in Seq(Packet)
      BY <1>1 DEF TypeInv
    <3> QED BY ONLY <3>1, <3>2, p \in Packet
  <2>2. outcome' \in [Packet -> {"none", "success", "dropped", "sent"}]
    BY <1>1, <1>2 DEF TypeInv
  <2>3. mac' \in [Node -> Fields]
    BY <1>2 DEF OnlyAt
  <2> HIDE DEF n, h, g, f
  <2> QED BY <1>1, <1>2, <2>1, <2>2, <2>3 DEF TypeInv
<1>4. h \in Fields /\ g \in Fields /\ HostOK(h, onAir[n])
  BY <1>1, <1>2 DEF TypeInv, HostInv, OnlyAt
<1>5. h.queue \in Seq(Data)
  BY <1>4 DEF Fields
<1> HIDE DEF n, h, g, f
<1>6. HostOK(g, onAir[n])
  <2>1. CASE g.queue = h.queue /\ g.state = h.state /\ g.NB = h.NB
             /\ g.timers = h.timers
    BY <1>2, <1>4, <2>1 DEF HostOK, First
  <2>2. CASE g.queue = Append(h.queue, f)
    <3>1. g.queue # <<>> /\ (h.queue # <<>> => Head(g.queue) = Head(h.queue))
      <4>1. /\ Append(h.queue, f) # <<>>
            /\ Head(Append(h.queue, f)) =
                 IF h.queue = <<>> THEN f ELSE Head(h.queue)
        <5>1. f \in Data
          BY <1>2
        <5> QED BY ONLY <1>5, <5>1, QueueAppend
      <4> QED BY <2>2, <4>1
    <3>2. CASE h.state = "IDLE_1"
      <4>1. /\ g.state = "BACKOFF_2" /\ g.NB = 0 /\ g.timers = {"backoff"}
        BY <1>2, <1>4, <2>2, <3>2, Timers, <3>1 DEF HostOK
      <4>2. g.interrupted = FALSE /\ onAir[n] = NoFrame /\ g.radio = "RX"
        BY <1>2, <1>4, <3>2 DEF HostOK, Fields
      <4>3. 0 <= MaxBackoffs + 1 /\ 0 <= MaxBackoffs
        OBVIOUS
      <4> QED BY <1>2, <1>4, <3>1, <4>1, <4>2, <4>3, Timers DEF HostOK
    <3>3. CASE h.state # "IDLE_1"
      <4>1. g.state = h.state /\ g.NB = h.NB /\ g.timers = h.timers
        BY <1>2, <2>2, <3>3, <3>1
      <4> QED BY <1>2, <1>4, <3>1, <4>1 DEF HostOK, First
    <3> QED BY <3>2, <3>3
  <2> QED BY <1>2, <2>1, <2>2
<1>7. HostInv'
  BY <1>1, <1>2, <1>6, OneHost DEF g
<1> QED BY <1>3, <1>7 DEF HwInv

LEMMA HwBackoff ==
    ASSUME HwInv, NEW n \in Node, BackoffTimer(n)
    PROVE  HwInv'
<1> DEFINE h == mac[n]
           g == mac'[n]
<1>1. TypeInv /\ HostInv
  BY DEF HwInv
<1>2. /\ onAir' = onAir /\ arriving' = arriving /\ taken' = taken /\ sent' = sent
      /\ queued' = queued /\ outcome' = outcome /\ OnlyAt(n)
      /\ "backoff" \in h.timers
      /\ g.state = "CCA_3" /\ g.radio = "RX"
      /\ g.timers = (h.timers \ {"backoff"}) \cup {"cca"}
      /\ g.queue = h.queue /\ g.NB = h.NB
      /\ g.txAttempts = h.txAttempts /\ g.interrupted = h.interrupted
  BY <1>1, BackoffEffect DEF BackoffTimer, history
<1>3. TypeInv'
  BY <1>1, <1>2 DEF TypeInv, OnlyAt
<1>4. h \in Fields /\ g \in Fields /\ HostOK(h, onAir[n])
  BY <1>1, <1>2 DEF TypeInv, HostInv, OnlyAt
<1> HIDE DEF h, g
<1>5. h.state = "BACKOFF_2" /\ h.timers = {"backoff"}
  BY <1>2, <1>4, TimerRuns, Timers DEF HostOK
<1>6. /\ g.timers = {"cca"} /\ onAir[n] = NoFrame /\ g.queue # <<>>
      /\ g.interrupted = FALSE
  BY <1>2, <1>4, <1>5 DEF HostOK, Fields
<1>7. HostOK(g, onAir[n])
  BY <1>2, <1>4, <1>5, <1>6, Timers DEF HostOK
<1>8. HostInv'
  BY <1>1, <1>2, <1>7, OneHost DEF g
<1> QED BY <1>3, <1>8 DEF HwInv

LEMMA HwTransmit ==
    ASSUME HwInv, NEW n \in Node, TransmitFrame(n)
    PROVE  HwInv'
<1> DEFINE h == mac[n]
           g == mac'[n]
<1>1. TypeInv /\ HostInv
  BY DEF HwInv
<1>2. /\ arriving' = arriving /\ taken' = taken
      /\ onAir' = [onAir EXCEPT ![n] = First(h)]
      /\ sent' = [sent EXCEPT ![First(h).packet] = @ + 1]
      /\ queued' = queued /\ outcome' = outcome /\ OnlyAt(n)
      /\ "cca" \in h.timers
      /\ g.state = "TRANSMITFRAME_4" /\ g.radio = "TX"
      /\ g.timers = h.timers \ {"cca"}
      /\ g.queue = h.queue /\ g.NB = h.NB
      /\ g.txAttempts = h.txAttempts /\ g.interrupted = h.interrupted
  BY <1>1, TransmitEffect DEF TransmitFrame
<1>3. h \in Fields /\ g \in Fields /\ HostOK(h, onAir[n])
  BY <1>1, <1>2 DEF TypeInv, HostInv, OnlyAt
<1>4. onAir' [n] = First(h) /\ \A m \in Node : m # n => onAir'[m] = onAir[m]
  BY <1>1, <1>2 DEF TypeInv
<1> HIDE DEF h, g
<1>5. h.state = "CCA_3" /\ h.timers = {"cca"} /\ h.queue # <<>>
  BY <1>2, <1>3, TimerRuns, Timers DEF HostOK
<1>6. First(h) \in Data
  BY <1>3, <1>5, QueueHead DEF First, Fields
<1>7. TypeInv'
  <2>1. onAir' \in [Node -> Frame]
    BY <1>1, <1>2, <1>6 DEF TypeInv, Frame
  <2>2. sent' \in [Packet -> Nat]
    <3>1. First(h).packet \in Packet
      BY <1>6, DataFrame
    <3> QED BY <1>1, <1>2, <3>1 DEF TypeInv
  <2> QED BY <1>1, <1>2, <2>1, <2>2 DEF TypeInv, OnlyAt
<1>8. g.interrupted = FALSE /\ First(g) = First(h) /\ g.timers = {}
  BY <1>2, <1>3, <1>5 DEF HostOK, Fields, First
<1>9. HostOK(g, First(h))
  BY <1>2, <1>3, <1>5, <1>8, Timers DEF HostOK
<1>10. HostInv'
  BY <1>1, <1>2, <1>4, <1>9, OneHost DEF g
<1> QED BY <1>7, <1>10 DEF HwInv

LEMMA HwSifs ==
    ASSUME HwInv, NEW n \in Node, SifsTimer(n)
    PROVE  HwInv'
<1> DEFINE h == mac[n]
           g == mac'[n]
           a == [ackFrom |-> n, ackTo |-> h.ackMessage]
<1>1. TypeInv /\ HostInv
  BY DEF HwInv
<1>2. /\ arriving' = arriving /\ taken' = taken /\ sent' = sent
      /\ onAir' = [onAir EXCEPT ![n] = a]
      /\ queued' = queued /\ outcome' = outcome /\ OnlyAt(n)
      /\ "sifs" \in h.timers
      /\ g.state = "TRANSMITACK_7" /\ g.radio = h.radio
      /\ g.timers = h.timers \ {"sifs"}
      /\ g.queue = h.queue /\ g.NB = h.NB
      /\ g.txAttempts = h.txAttempts /\ g.interrupted = h.interrupted
  BY <1>1, SifsEffect DEF SifsTimer, history
<1>3. h \in Fields /\ g \in Fields /\ HostOK(h, onAir[n])
  BY <1>1, <1>2 DEF TypeInv, HostInv, OnlyAt
<1>4. onAir' [n] = a /\ \A m \in Node : m # n => onAir'[m] = onAir[m]
  BY <1>1, <1>2 DEF TypeInv
<1> HIDE DEF h, g
<1>5. h.state = "WAITSIFS_6" /\ h.timers = {"sifs"} /\ h.ackMessage \in Node
  BY <1>2, <1>3, TimerRuns, Timers, ZenonT(30) DEF HostOK, Fields
<1>6. a \in Ack /\ IsAck(a)
  <2>1. a \in Ack
    BY <1>5 DEF Ack
  <2> QED BY <2>1, AckFrame
<1> HIDE DEF a
<1>7. TypeInv'
  <2>1. onAir' \in [Node -> Frame]
    BY <1>1, <1>2, <1>6 DEF TypeInv, Frame
  <2> QED BY <1>1, <1>2, <2>1 DEF TypeInv, OnlyAt
<1>8. g.timers = {} /\ g.radio = "TX"
  BY <1>2, <1>3, <1>5 DEF HostOK
<1>9. HostOK(g, a)
  BY <1>2, <1>3, <1>5, <1>6, <1>8, Timers DEF HostOK
<1>10. HostInv'
  BY <1>1, <1>2, <1>4, <1>9, OneHost DEF g
<1> QED BY <1>7, <1>10 DEF HwInv
LEMMA HwBusy ==
    ASSUME HwInv, NEW n \in Node, ChannelBusy(n)
    PROVE  HwInv'
<1> DEFINE h == mac[n]
           g == mac'[n]
<1>1. TypeInv /\ HostInv /\ h \in Fields /\ HostOK(h, onAir[n])
  BY DEF HwInv, TypeInv, HostInv
<1>2. h.state = "CCA_3" /\ h.timers = {"cca"} /\ h.queue # <<>>
  BY <1>1, TimerRuns, Timers DEF HostOK, ChannelBusy
<1>3. /\ onAir' = onAir /\ arriving' = arriving /\ taken' = taken /\ sent' = sent
      /\ queued' = queued /\ OnlyAt(n) /\ g.radio = h.radio
      /\ \/ /\ g.txAttempts = 0
            /\ GoesOn(g, Tail(h.queue), h.timers \ {"cca"}, h.NB + 1,
                      h.interrupted)
            /\ outcome' = [outcome EXCEPT ![First(h).packet] = "dropped"]
         \/ /\ h.NB + 1 <= MaxBackoffs /\ g.txAttempts = h.txAttempts
            /\ g.state = "BACKOFF_2"
            /\ g.timers = (h.timers \ {"cca"}) \cup {"backoff"}
            /\ g.NB = h.NB + 1 /\ g.interrupted = h.interrupted
            /\ g.queue = h.queue /\ outcome' = outcome
  BY <1>1, <1>2, BusyEffect DEF ChannelBusy
<1>4. outcome' \in [Packet -> {"none", "success", "dropped", "sent"}]
  BY <1>1, <1>3 DEF TypeInv
<1>5. g \in Fields
  BY <1>3 DEF OnlyAt
<1> HIDE DEF h, g
<1>6. TypeInv'
  BY <1>1, <1>3, <1>4 DEF TypeInv, OnlyAt
<1>7. /\ h.timers \ {"cca"} = {} /\ h.interrupted = FALSE /\ h.radio = "RX"
      /\ h.NB \in Nat /\ h.NB <= MaxBackoffs /\ onAir[n] = NoFrame
  BY <1>1, <1>2 DEF HostOK, Fields
<1>8. HostOK(g, onAir[n])
  <2>1. CASE /\ g.txAttempts = 0
             /\ GoesOn(g, Tail(h.queue), {}, h.NB + 1, h.interrupted)
    <3>1. /\ h.NB + 1 \in Nat /\ h.NB + 1 <= MaxBackoffs + 1
          /\ g.txAttempts <= MaxRetries + 1
      BY <1>7, <2>1
    <3>2. GoesOn(g, Tail(h.queue), {}, h.NB + 1, FALSE)
      BY <1>7, <2>1
    <3> QED BY <1>3, <1>5, <1>7, <3>1, <3>2, GoesOnOK
  <2>2. CASE /\ h.NB + 1 <= MaxBackoffs /\ g.txAttempts = h.txAttempts
             /\ g.state = "BACKOFF_2" /\ g.timers = {"backoff"}
             /\ g.NB = h.NB + 1 /\ g.interrupted = h.interrupted
             /\ g.queue = h.queue
    <3>1. g.NB <= MaxBackoffs /\ g.NB <= MaxBackoffs + 1
      BY <1>7, <2>2
    <3> QED BY <1>1, <1>2, <1>3, <1>7, <2>2, <3>1, Timers DEF HostOK
  <2> QED BY <1>3, <1>7, <2>1, <2>2
<1>9. HostInv'
  BY <1>1, <1>3, <1>8, OneHost DEF g
<1> QED BY <1>6, <1>9 DEF HwInv

LEMMA HwRxAck ==
    ASSUME HwInv, NEW n \in Node, RxAckTimer(n)
    PROVE  HwInv'
<1> DEFINE h == mac[n]
           g == mac'[n]
<1>1. TypeInv /\ HostInv /\ h \in Fields /\ HostOK(h, onAir[n])
  BY DEF HwInv, TypeInv, HostInv
<1>2. h.state = "WAITACK_5" /\ h.timers = {"rxAck"} /\ h.queue # <<>>
  <2>1. "rxAck" \in h.timers
    BY DEF RxAckTimer
  <2> QED BY <1>1, <2>1, TimerRuns, Timers DEF HostOK
<1>3. /\ onAir' = onAir /\ arriving' = arriving /\ taken' = taken /\ sent' = sent
      /\ queued' = queued /\ OnlyAt(n) /\ g.radio = h.radio
      /\ \/ /\ h.txAttempts < MaxRetries + 1
            /\ g.txAttempts = h.txAttempts + 1 /\ outcome' = outcome
            /\ GoesOn(g, h.queue, h.timers \ {"rxAck"}, h.NB, h.interrupted)
         \/ /\ g.txAttempts = 0
            /\ GoesOn(g, Tail(h.queue), h.timers \ {"rxAck"}, h.NB,
                      h.interrupted)
            /\ outcome' = [outcome EXCEPT ![First(h).packet] = "dropped"]
  BY <1>1, <1>2, RxAckEffect DEF RxAckTimer
<1>4. outcome' \in [Packet -> {"none", "success", "dropped", "sent"}]
  BY <1>1, <1>3 DEF TypeInv
<1>5. g \in Fields
  BY <1>3 DEF OnlyAt
<1> HIDE DEF h, g
<1>6. TypeInv'
  BY <1>1, <1>3, <1>4 DEF TypeInv, OnlyAt
<1>7. /\ h.timers \ {"rxAck"} = {} /\ h.interrupted = FALSE /\ h.radio = "RX"
      /\ h.NB \in Nat /\ h.NB <= MaxBackoffs + 1 /\ onAir[n] = NoFrame
      /\ h.txAttempts \in Nat
  BY <1>1, <1>2 DEF HostOK, Fields
<1>8. /\ g.txAttempts <= MaxRetries + 1
      /\ \/ GoesOn(g, h.queue, {}, h.NB, FALSE)
         \/ GoesOn(g, Tail(h.queue), {}, h.NB, FALSE)
  <2>1. g.txAttempts <= MaxRetries + 1
    BY <1>3, <1>7
  <2>2. \/ GoesOn(g, h.queue, h.timers \ {"rxAck"}, h.NB, h.interrupted)
        \/ GoesOn(g, Tail(h.queue), h.timers \ {"rxAck"}, h.NB, h.interrupted)
    BY <1>3
  <2> QED BY <1>7, <2>1, <2>2
<1>9. HostOK(g, onAir[n])
  BY <1>3, <1>5, <1>7, <1>8, GoesOnOK
<1>10. HostInv'
  BY <1>1, <1>3, <1>9, OneHost DEF g
<1> QED BY <1>6, <1>10 DEF HwInv

LEMMA HwEnd ==
    ASSUME HwInv, NEW n \in Node, EndOfFrame(n)
    PROVE  HwInv'
<1> DEFINE h == mac[n]
           g == mac'[n]
<1>1. TypeInv /\ HostInv /\ h \in Fields /\ HostOK(h, onAir[n])
  BY DEF HwInv, TypeInv, HostInv
<1>2. h.state = "TRANSMITFRAME_4" => h.queue # <<>>
  BY <1>1 DEF HostOK
<1>3. /\ onAir' = [onAir EXCEPT ![n] = NoFrame]
      /\ taken' = taken /\ sent' = sent /\ queued' = queued
      /\ OnlyAt(n) /\ g.radio = "RX" /\ g.txAttempts = h.txAttempts
      /\ \/ /\ h.state = "TRANSMITACK_7" /\ outcome' = outcome
            /\ GoesOn(g, h.queue, h.timers, h.NB, h.interrupted)
         \/ /\ h.state = "TRANSMITFRAME_4" /\ outcome' = outcome
            /\ g.state = "WAITACK_5" /\ g.queue = h.queue
            /\ g.timers = h.timers \cup {"rxAck"}
            /\ g.NB = h.NB /\ g.interrupted = h.interrupted
         \/ /\ h.state = "TRANSMITFRAME_4"
            /\ outcome' = [outcome EXCEPT ![First(h).packet] = "sent"]
            /\ GoesOn(g, Tail(h.queue), h.timers, h.NB, h.interrupted)
  BY <1>1, <1>2, EndEffect DEF EndOfFrame
<1>4. outcome' \in [Packet -> {"none", "success", "dropped", "sent"}]
  BY <1>1, <1>3 DEF TypeInv
<1>5. /\ g \in Fields /\ onAir'[n] = NoFrame
      /\ \A m \in Node : m # n => onAir'[m] = onAir[m]
  BY <1>1, <1>3 DEF TypeInv, OnlyAt
<1>6. onAir' \in [Node -> Frame] /\ arriving' \in [Node -> Frame]
  <2>1. onAir' \in [Node -> Frame]
    BY <1>1, <1>3 DEF TypeInv, Frame
  <2>2. onAir[n] \in Frame /\ NoFrame \in Frame
    BY <1>1 DEF TypeInv, Frame
  <2>3. PICK heard : arriving' =
          [m \in Node |-> IF m \in heard THEN onAir[n] ELSE NoFrame]
    BY DEF EndOfFrame
  <2> QED BY <2>1, <2>2, <2>3
<1> HIDE DEF h, g
<1>7. TypeInv'
  BY <1>1, <1>3, <1>4, <1>6 DEF TypeInv, OnlyAt
<1>8. /\ h.state \in {"TRANSMITFRAME_4", "TRANSMITACK_7"} => h.timers = {}
      /\ h.NB \in Nat /\ h.NB <= MaxBackoffs + 1
      /\ h.txAttempts <= MaxRetries + 1 /\ h.interrupted \in BOOLEAN
      /\ h.interrupted =>
           h.NB <= MaxBackoffs /\ h.queue # <<>> /\ h.state # "TRANSMITFRAME_4"
  BY <1>1, Timers DEF HostOK, Fields
<1>9. HostOK(g, NoFrame)
  <2>1. CASE /\ h.state = "TRANSMITACK_7"
             /\ GoesOn(g, h.queue, h.timers, h.NB, h.interrupted)
    BY <1>3, <1>5, <1>8, <2>1, GoesOnOK
  <2>2. CASE /\ h.state = "TRANSMITFRAME_4"
             /\ g.state = "WAITACK_5" /\ g.queue = h.queue
             /\ g.timers = h.timers \cup {"rxAck"}
             /\ g.NB = h.NB /\ g.interrupted = h.interrupted
    BY <1>2, <1>3, <1>8, <2>2, Timers DEF HostOK
  <2>3. CASE /\ h.state = "TRANSMITFRAME_4"
             /\ GoesOn(g, Tail(h.queue), h.timers, h.NB, h.interrupted)
    BY <1>3, <1>5, <1>8, <2>3, GoesOnOK
  <2> QED BY <1>3, <2>1, <2>2, <2>3
<1>10. HostInv'
  BY <1>1, <1>3, <1>5, <1>9, OneHost DEF g
<1> QED BY <1>7, <1>10 DEF HwInv
LEMMA HwLower ==
    ASSUME HwInv, NEW n \in Node, HandleLowerMsg(n)
    PROVE  HwInv'
<1> DEFINE h == mac[n]
           g == mac'[n]
           f == arriving[n]
<1>1. TypeInv /\ HostInv /\ h \in Fields /\ HostOK(h, onAir[n])
  BY DEF HwInv, TypeInv, HostInv
<1>2. /\ onAir' = onAir /\ queued' = queued /\ sent' = sent
      /\ arriving' = [arriving EXCEPT ![n] = NoFrame]
      /\ \/ f \in Data /\ ReceiveData(n, f)
         \/ f \in Data /\ ReceiveBroadcast(n, f)
         \/ f \in Ack /\ ReceiveAck(n, f)
         \/ Discard(n, f)
  BY <1>1, LowerCases
<1>3. arriving' \in [Node -> Frame]
  BY <1>1, <1>2 DEF TypeInv, Frame
<1> HIDE DEF f
<1>4. ASSUME f \in Data, ReceiveData(n, f) \/ ReceiveBroadcast(n, f)
      PROVE  taken' \in [Node -> Seq(Packet)] /\ outcome' = outcome
  <2>1. f.packet \in Packet
    BY <1>4, DataFrame
  <2>2. taken[n] \in Seq(Packet)
    BY <1>1 DEF TypeInv
  <2>3. Append(taken[n], f.packet) \in Seq(Packet)
    BY <2>1, <2>2
  <2>4. \/ taken' = taken
        \/ taken' = [taken EXCEPT ![n] = Append(taken[n], f.packet)]
    BY <1>4 DEF ReceiveData, ReceiveBroadcast, Take
  <2>5. outcome' = outcome
    BY <1>4 DEF ReceiveData, ReceiveBroadcast
  <2>6. taken \in [Node -> Seq(Packet)]
    BY <1>1 DEF TypeInv
  <2> QED BY ONLY <2>3, <2>4, <2>5, <2>6, n \in Node
<1>5. ASSUME mac' = mac PROVE HostInv' /\ mac' \in [Node -> Fields]
  <2>1. OnlyAt(n) /\ mac'[n] = mac[n] /\ onAir'[n] = onAir[n]
    BY <1>1, <1>2, <1>5 DEF OnlyAt, TypeInv
  <2> QED BY <1>1, <1>2, <1>5, <2>1, OneHost DEF OnlyAt
<1>6. CASE f \in Data /\ ReceiveData(n, f)
  <2>1. /\ OnlyAt(n)
        /\ g.queue = h.queue /\ g.NB = h.NB /\ g.txAttempts = h.txAttempts
        /\ g.ackMessage = Source(f)
        /\ Acknowledges(h) =>
             /\ g.state = "WAITSIFS_6" /\ g.radio = "TX"
             /\ g.timers = (h.timers \ {"backoff", "cca"}) \cup {"sifs"}
             /\ h.interrupted = FALSE /\ h.state = "IDLE_1" =>
                  g.interrupted = FALSE
        /\ ~ Acknowledges(h) =>
             /\ g.state = h.state /\ g.radio = h.radio
             /\ g.timers = h.timers /\ g.interrupted = h.interrupted
    <3>1. DataMakes(n, f)
      BY <1>1, <1>6, DataEffect
    <3> QED BY <3>1 DEF DataMakes
  <2>2. g.ackMessage # NoHost
    BY <1>6, <2>1, DataFrame DEF Source
  <2>3. TypeInv'
    BY <1>1, <1>2, <1>3, <1>4, <1>6, <2>1 DEF TypeInv, OnlyAt
  <2> HIDE DEF h, g
  <2>4. HostOK(g, onAir[n])
    <3>1. CASE ~ Acknowledges(h)
      BY <1>1, <2>1, <2>2, <3>1 DEF HostOK, First
    <3>2. CASE Acknowledges(h)
      <4>1. /\ h.state \in {"IDLE_1", "BACKOFF_2", "CCA_3"}
            /\ h.timers \ {"backoff", "cca"} = {}
        BY <1>1, <3>2, Timers DEF HostOK, Acknowledges
      <4>2. g.timers = {"sifs"} /\ onAir[n] = NoFrame
        BY <1>1, <2>1, <3>2, <4>1 DEF HostOK
      <4>3. h.interrupted = FALSE
        BY <1>1, <4>1 DEF HostOK, Fields
      <4>4. g.interrupted => h.state \in {"BACKOFF_2", "CCA_3"}
        BY <2>1, <3>2, <4>1, <4>3
      <4>5. g.interrupted => h.queue # <<>> /\ h.NB <= MaxBackoffs
        BY <1>1, <4>4 DEF HostOK
      <4> QED BY <1>1, <2>1, <2>2, <3>2, <4>2, <4>5, Timers DEF HostOK
    <3> QED BY <3>1, <3>2
  <2>5. HostInv'
    BY <1>1, <1>2, <2>1, <2>4, OneHost DEF g
  <2> QED BY <2>3, <2>5 DEF HwInv
<1>7. CASE f \in Data /\ ReceiveBroadcast(n, f)
  <2>1. mac' = mac
    BY <1>7 DEF ReceiveBroadcast
  <2> QED BY <1>1, <1>2, <1>3, <1>4, <1>5, <1>7, <2>1 DEF HwInv, TypeInv
<1>8. CASE f \in Ack /\ ReceiveAck(n, f)
  <2>1. /\ OnlyAt(n) /\ h.state = "WAITACK_5" /\ taken' = taken
        /\ g.radio = h.radio /\ g.txAttempts = 0
        /\ GoesOn(g, Tail(h.queue), h.timers \ {"rxAck"}, h.NB, h.interrupted)
        /\ outcome' = [outcome EXCEPT ![First(h).packet] = "success"]
    BY <1>1, <1>8, AckEffect DEF Expected, ReceiveAck
  <2>2. outcome' \in [Packet -> {"none", "success", "dropped", "sent"}]
    BY <1>1, <2>1 DEF TypeInv
  <2>3. g \in Fields
    BY <2>1 DEF OnlyAt
  <2> HIDE DEF h, g
  <2>4. TypeInv'
    BY <1>1, <1>2, <1>3, <2>1, <2>2 DEF TypeInv, OnlyAt
  <2>5. /\ h.timers \ {"rxAck"} = {} /\ h.interrupted = FALSE
        /\ h.radio = "RX" /\ h.NB \in Nat /\ h.NB <= MaxBackoffs + 1
        /\ onAir[n] = NoFrame
    BY <1>1, <2>1, Timers DEF HostOK, Fields
  <2>6. g.txAttempts <= MaxRetries + 1
    BY <2>1
  <2>7. GoesOn(g, Tail(h.queue), {}, h.NB, FALSE)
    BY <2>1, <2>5
  <2>8. HostOK(g, onAir[n])
    BY <2>1, <2>3, <2>5, <2>6, <2>7, GoesOnOK
  <2>9. HostInv'
    BY <1>1, <1>2, <2>1, <2>8, OneHost DEF g
  <2> QED BY <2>4, <2>9 DEF HwInv
<1>9. CASE Discard(n, f)
  <2>1. mac' = mac /\ outcome' = outcome /\ taken' = taken
    BY <1>9 DEF Discard
  <2> QED BY <1>1, <1>2, <1>3, <1>5, <2>1 DEF HwInv, TypeInv
<1> QED BY <1>2, <1>6, <1>7, <1>8, <1>9

LEMMA HwStep ==
    ASSUME HwInv, [Next]_vars
    PROVE  HwInv'
<1>1. CASE UNCHANGED vars
  BY <1>1 DEF vars, history, HwInv, TypeInv, HostInv
<1>2. CASE Next
  BY <1>2, HwUpper, HwBackoff, HwTransmit, HwBusy, HwSifs, HwRxAck, HwEnd,
     HwLower DEF Next
<1> QED BY <1>1, <1>2

LEMMA Hardware ==
    Spec => []HwInv
<1>1. Init => HwInv
  BY HwInit
<1>2. HwInv /\ [Next]_vars => HwInv'
  BY HwStep
<1> QED BY <1>1, <1>2, PTL DEF Spec

-----------------------------------------------------------------------------
\* A packet is passed up when it is taken, from the frame that arrived.
LEMMA TakenOnArrival ==
    ASSUME TypeInv, [Next]_vars
    PROVE  \/ UNCHANGED <<taken, passedUp>>
           \/ \E n \in Node : /\ arriving[n] \in Data
                              /\ HandleLowerMsg(n) /\ Take(n, arriving[n])
<1>1. CASE UNCHANGED vars
  BY <1>1 DEF vars, history
<1>2. ASSUME NEW n \in Node, HandleLowerMsg(n)
      PROVE  \/ UNCHANGED <<taken, passedUp>>
             \/ arriving[n] \in Data /\ Take(n, arriving[n])
  BY <1>2, LowerCases DEF ReceiveData, ReceiveBroadcast, ReceiveAck, Discard
<1>3. ASSUME NEW p \in Packet, HandleUpperMsg(p)
      PROVE  UNCHANGED <<taken, passedUp>>
  BY <1>3 DEF HandleUpperMsg
<1>4. ASSUME NEW n \in Node,
             BackoffTimer(n) \/ TransmitFrame(n) \/ ChannelBusy(n)
               \/ SifsTimer(n) \/ RxAckTimer(n) \/ EndOfFrame(n)
      PROVE  UNCHANGED <<taken, passedUp>>
  BY <1>4 DEF BackoffTimer, TransmitFrame, ChannelBusy, SifsTimer, RxAckTimer,
              EndOfFrame, history
<1> QED BY <1>1, <1>2, <1>3, <1>4 DEF Next

PassedUpType == passedUp \in [Node -> Seq(Packet)]

LEMMA PassedUp == Spec => []PassedUpType
<1>1. Init => PassedUpType
  BY DEF Init, PassedUpType
<1>2. ASSUME HwInv, PassedUpType, [Next]_vars PROVE PassedUpType'
  <2>1. CASE UNCHANGED <<taken, passedUp>>
    BY <1>2, <2>1 DEF PassedUpType
  <2>2. ASSUME NEW n \in Node, arriving[n] \in Data, Take(n, arriving[n])
        PROVE  PassedUpType'
    <3> DEFINE f == arriving[n]
    <3>1. \/ passedUp' = passedUp
          \/ passedUp' = [passedUp EXCEPT ![n] = Append(passedUp[n], f.packet)]
      BY <2>2 DEF Take, SendUp, FsmError
    <3>2. f.packet \in Packet
      BY <2>2, DataFrame
    <3>3. Append(passedUp[n], f.packet) \in Seq(Packet)
      BY <1>2, <3>2 DEF PassedUpType
    <3> QED BY <1>2, <3>1, <3>3 DEF PassedUpType
  <2> QED BY <1>2, <2>1, <2>2, TakenOnArrival DEF HwInv
<1> QED BY <1>1, <1>2, Hardware, PTL DEF Spec

(***************************************************************************)
(* Every variable of the model has its type; in particular NB and          *)
(* txAttempts, which are ints without a bound in csma.h, never exceed      *)
(* macMaxCSMABackoffs + 1 and macMaxFrameRetries + 1.                      *)
(***************************************************************************)
THEOREM TypeCorrect ==
    Spec => []TypeOK
<1>1. HwInv /\ PassedUpType => TypeOK
  <2> SUFFICES ASSUME HwInv, PassedUpType PROVE TypeOK
    OBVIOUS
  <2>1. ASSUME NEW n \in Node PROVE mac[n] \in Mac
    <3>1. mac[n] \in Fields /\ HostOK(mac[n], onAir[n])
      BY DEF HwInv, TypeInv, HostInv
    <3>2. mac[n].NB \in 0..MaxBackoffs + 1 /\ mac[n].txAttempts \in 0..MaxRetries + 1
      BY <3>1 DEF HostOK, Fields
    <3> QED BY <3>1, <3>2 DEF Fields, Mac
  <2>2. mac \in [Node -> Mac]
    BY <2>1 DEF HwInv, TypeInv
  <2> QED BY <2>2 DEF HwInv, TypeInv, PassedUpType, TypeOK, Frame
<1> QED BY <1>1, Hardware, PassedUp, PTL

(***************************************************************************)
(* The timers, the radio and the frame on the air of a host are those of   *)
(* its state: no timer of csma is ever scheduled while it is scheduled or  *)
(* fires in a state that has no transition for it, and nothing is sent but *)
(* with the radio in TX.                                                   *)
(***************************************************************************)
THEOREM StateIsHardwareCorrect ==
    Spec => []StateIsHardware
<1>1. HwInv => StateIsHardware
  BY DEF HwInv, HostInv, HostOK, StateIsHardware
<1> QED BY <1>1, Hardware, PTL

=============================================================================
