-------------------------------- MODULE Csma --------------------------------
(***************************************************************************)
(* The MAC layer below the network layers: the state machine of            *)
(* src/MiXiM/src/modules/mac/csma.cc, one per host, with acknowledgements  *)
(* (useMACAcks, as the hosts' CSMA802154 has it), and the medium between   *)
(* the hosts.                                                              *)
(*                                                                         *)
(* A frame is on the air from the step that sends it to EndOfFrame, when   *)
(* it arrives at any of the other hosts whose radio is in reception: which *)
(* ones, and what the others sensed of it, is for noise, collisions and    *)
(* distance to decide.  Time is not modelled but for two facts: nothing    *)
(* that takes time happens between the arrival of a frame and its handler, *)
(* and an acknowledgement takes less than macAckWaitDuration (csma.ned).   *)
(***************************************************************************)
EXTENDS Integers, Sequences, FiniteSets

CONSTANTS
    Node,            \* the hosts
    Packet,          \* the packets of the network layers
    Broadcast,       \* LAddress::L2BROADCAST
    NoHost,          \* no address
    Src,             \* Src[p]: the host whose network layer hands p down
    Dest,            \* Dest[p]: the host p is for, or Broadcast
    Order,           \* Order[p]: a host's packets come in this order
    QueueLength,     \* queueLength
    MaxBackoffs,     \* macMaxCSMABackoffs
    MaxRetries       \* macMaxFrameRetries

ASSUME CsmaAssumption ==
    /\ Broadcast \notin Node /\ NoHost \notin Node \cup {Broadcast}
    /\ Src \in [Packet -> Node]
    /\ Dest \in [Packet -> Node \cup {Broadcast}]
    /\ \A p \in Packet : Dest[p] # Src[p]
    /\ Order \in [Packet -> Nat]
    /\ QueueLength \in Nat /\ MaxBackoffs \in Nat /\ MaxRetries \in Nat

VARIABLES
    mac,          \* mac[n]: the fields of the csma module of n
    onAir,        \* onAir[n]: what the radio of n is sending
    arriving,     \* arriving[n]: the frame the PHY of n hands up now
    queued,       \* history: packets put in a macQueue, in that order
    outcome,      \* history: outcome[p], how p ended at its source
    taken,        \* history: taken[n], the packets n counted as new, in order
    passedUp,     \* history: passedUp[n], those its network layer got
    sent          \* history: sent[p], how often p was transmitted

history == <<queued, outcome, taken, passedUp, sent>>

vars == <<mac, onAir, arriving, history>>

State == {"IDLE_1", "BACKOFF_2", "CCA_3", "TRANSMITFRAME_4", "WAITACK_5",
          "WAITSIFS_6", "TRANSMITACK_7"}

\* A MacPkt: a packet with its SequenceId, or a CSMA-Ack.
Data == [packet : Packet, seq : Nat]
Ack == [ackFrom : Node, ackTo : Node]

NoFrame == <<>>
IsData(f) == f # NoFrame /\ "packet" \in DOMAIN f
IsAck(f) == f # NoFrame /\ "ackTo" \in DOMAIN f

\* The fields of a csma module.  A map without an entry behaves as with 0.
Mac == [state : State, queue : Seq(Data),
        NB : 0..MaxBackoffs + 1, txAttempts : 0..MaxRetries + 1,
        interrupted : BOOLEAN,          \* transmissionAttemptInterruptedByRx
        timers : SUBSET {"backoff", "cca", "sifs", "rxAck"},
        radio : {"RX", "TX"},           \* phy->setRadioState
        SeqNrParent : [Node \cup {Broadcast} -> Nat],
        SeqNrChild : [Node -> Nat],
        ackMessage : Node \cup {NoHost}]   \* the host it is for

Init ==
    /\ mac = [n \in Node |->
         [state |-> "IDLE_1", queue |-> <<>>, NB |-> 0, txAttempts |-> 0,
          interrupted |-> FALSE, timers |-> {}, radio |-> "RX",
          SeqNrParent |-> [m \in Node \cup {Broadcast} |-> 0],
          SeqNrChild |-> [m \in Node |-> 0],
          ackMessage |-> NoHost]]
    /\ onAir = [n \in Node |-> NoFrame]
    /\ arriving = [n \in Node |-> NoFrame]
    /\ queued = <<>>
    /\ outcome = [p \in Packet |-> "none"]
    /\ taken = [n \in Node |-> <<>>]
    /\ passedUp = [n \in Node |-> <<>>]
    /\ sent = [p \in Packet |-> 0]

-----------------------------------------------------------------------------
(***************************************************************************)
(* The functions of csma that its handlers share, on the fields h of one   *)
(* host.  Operators named ...Bug are wrong variants of the one that        *)
(* follows them, used only to show that a property catches the mistake.    *)
(***************************************************************************)
\* The last packet in the place of the first.
FirstBug(h) == h.queue[Len(h.queue)]

First(h) == Head(h.queue)

\* The room of the queue: one packet more than queueLength.
HasRoom(h) == Len(h.queue) <= QueueLength

\* NB never starts from 0 again; an interrupted attempt is not taken up.
ManageQueueNBBug(h) ==
    IF h.queue = <<>> THEN [h EXCEPT !.state = "IDLE_1"]
    ELSE [h EXCEPT !.state = "BACKOFF_2", !.timers = @ \cup {"backoff"},
                   !.interrupted = FALSE]

ManageQueueStallsBug(h) ==
    IF h.queue = <<>> THEN [h EXCEPT !.state = "IDLE_1"]
    ELSE [h EXCEPT !.state = "BACKOFF_2", !.interrupted = FALSE,
                   !.timers = @ \cup IF h.interrupted THEN {} ELSE {"backoff"},
                   !.NB = IF h.interrupted THEN @ ELSE 0]

\* manageQueue: back off for the first packet, as a new attempt unless the
\* last one was interrupted.
ManageQueue(h) ==
    IF h.queue = <<>> THEN [h EXCEPT !.state = "IDLE_1"]
    ELSE [h EXCEPT !.state = "BACKOFF_2", !.timers = @ \cup {"backoff"},
                   !.NB = IF h.interrupted THEN @ ELSE 0,
                   !.interrupted = FALSE]

\* The attempts of the first packet are counted on for the second.
PopFirstBug(h) == ManageQueue([h EXCEPT !.queue = Tail(@)])

\* The first packet leaves the queue, and the next starts from no attempts.
PopFirst(h) == ManageQueue([h EXCEPT !.queue = Tail(@), !.txAttempts = 0])

\* The test of manageMissingAck that has the packet sent again.
Retries(h) == h.txAttempts < MaxRetries + 1

\* A cancelEvent forgotten.
SuspendNotCancelledBug(h) ==
    [h EXCEPT !.state = "WAITSIFS_6", !.radio = "TX",
              !.timers = (@ \ {"backoff"}) \cup {"sifs"},
              !.interrupted = @ \/ h.state # "IDLE_1"]

\* Setting up the radio for the acknowledgement; an attempt is interrupted.
Suspend(h) ==
    [h EXCEPT !.state = "WAITSIFS_6", !.radio = "TX",
              !.timers = (@ \ {"backoff", "cca"}) \cup {"sifs"},
              !.interrupted = @ \/ h.state # "IDLE_1"]

\* The sequence number expected next is that of the first frame for ever.
NextExpectedOnceBug(h, f) ==
    IF h.SeqNrChild[Src[f.packet]] = 0 THEN f.seq + 1
    ELSE h.SeqNrChild[Src[f.packet]]

\* SeqNrChild of its source after a data frame, new or a duplicate.
NextExpected(h, f) ==
    IF f.seq < h.SeqNrChild[Src[f.packet]] THEN h.SeqNrChild[Src[f.packet]]
    ELSE f.seq + 1

\* The states whose handlers acknowledge a frame.
Acknowledges(h) == h.state \in {"IDLE_1", "BACKOFF_2", "CCA_3"}

-----------------------------------------------------------------------------
Members(q) == {q[i] : i \in 1..Len(q)}

HandedDown(p) == outcome[p] # "none" \/ p \in Members(queued)

\* handleUpperMsg: SequenceId, and the queue (updateStatusIdle, -NotIdle).
HandleUpperMsg(p) ==
    LET n == Src[p]
        h == mac[n]
        id == h.SeqNrParent[Dest[p]]
        numbered == [h EXCEPT !.SeqNrParent[Dest[p]] = id + 1]
        frame == [packet |-> p, seq |-> id]
        longer == [numbered EXCEPT !.queue = Append(@, frame)]
    IN
    /\ ~ HandedDown(p)
    /\ \A x \in Packet : Src[x] = n /\ Order[x] < Order[p] => HandedDown(x)
    /\ IF HasRoom(h)
       THEN /\ mac' = [mac EXCEPT ![n] =
                 IF h.state # "IDLE_1" THEN longer
                 ELSE [longer EXCEPT !.state = "BACKOFF_2", !.NB = 0,
                                     !.timers = @ \cup {"backoff"}]]
            /\ queued' = Append(queued, p)
            /\ UNCHANGED outcome
       ELSE /\ mac' = [mac EXCEPT ![n] = numbered]
            /\ outcome' = [outcome EXCEPT ![p] = "dropped"]
            /\ UNCHANGED queued
    /\ UNCHANGED <<onAir, arriving, taken, passedUp, sent>>

\* EV_TIMER_BACKOFF: sense the channel.
BackoffTimer(n) ==
    LET h == mac[n] IN
    /\ "backoff" \in h.timers
    /\ mac' = [mac EXCEPT ![n] =
                [h EXCEPT !.state = "CCA_3", !.radio = "RX",
                          !.timers = (@ \ {"backoff"}) \cup {"cca"}]]
    /\ UNCHANGED <<onAir, arriving, history>>

\* EV_TIMER_CCA, channel idle: send a copy of the first packet.
TransmitFrame(n) ==
    LET h == mac[n] IN
    /\ "cca" \in h.timers
    /\ mac' = [mac EXCEPT ![n] =
                [h EXCEPT !.state = "TRANSMITFRAME_4", !.radio = "TX",
                          !.timers = @ \ {"cca"}]]
    /\ onAir' = [onAir EXCEPT ![n] = First(h)]
    /\ sent' = [sent EXCEPT ![First(h).packet] = @ + 1]
    /\ UNCHANGED <<arriving, queued, outcome, taken, passedUp>>

\* EV_TIMER_CCA, channel busy: back off again, or drop the packet.
ChannelBusy(n) ==
    LET h == [mac[n] EXCEPT !.timers = @ \ {"cca"}, !.NB = @ + 1] IN
    /\ "cca" \in mac[n].timers
    /\ IF h.NB > MaxBackoffs
       THEN /\ mac' = [mac EXCEPT ![n] = PopFirst(h)]
            /\ outcome' = [outcome EXCEPT ![First(h).packet] = "dropped"]
       ELSE /\ mac' = [mac EXCEPT ![n] =
                 [h EXCEPT !.state = "BACKOFF_2", !.timers = @ \cup {"backoff"}]]
            /\ UNCHANGED outcome
    /\ UNCHANGED <<onAir, arriving, queued, taken, passedUp, sent>>

\* EV_TIMER_SIFS: send the acknowledgement.
SifsTimer(n) ==
    LET h == mac[n] IN
    /\ "sifs" \in h.timers
    /\ mac' = [mac EXCEPT ![n] =
                [h EXCEPT !.state = "TRANSMITACK_7", !.timers = @ \ {"sifs"},
                          !.ackMessage = NoHost]]
    /\ onAir' = [onAir EXCEPT ![n] = [ackFrom |-> n, ackTo |-> h.ackMessage]]
    /\ UNCHANGED <<arriving, history>>

\* macAckWaitDuration is too short.
AckUnderWayBug(n) == FALSE

\* An acknowledgement for n, or the frame to be acknowledged, is under way:
\* 192 us of sifs and 352 us of transmission, of the 560 us that n waits.
AckUnderWay(n) ==
    \E m \in Node :
        \/ mac[m].state = "WAITSIFS_6" /\ mac[m].ackMessage = n
        \/ \E f \in {onAir[m], arriving[m]} : IsAck(f) /\ f.ackTo = n
        \/ IsData(arriving[m]) /\ Src[arriving[m].packet] = n

\* EV_ACK_TIMEOUT, manageMissingAck: another attempt, or drop the packet.
RxAckTimer(n) ==
    LET h == [mac[n] EXCEPT !.timers = @ \ {"rxAck"}] IN
    /\ "rxAck" \in mac[n].timers
    /\ ~ AckUnderWay(n)
    /\ IF Retries(h)
       THEN /\ mac' = [mac EXCEPT ![n] =
                        ManageQueue([h EXCEPT !.txAttempts = @ + 1])]
            /\ UNCHANGED outcome
       ELSE /\ mac' = [mac EXCEPT ![n] = PopFirst(h)]
            /\ outcome' = [outcome EXCEPT ![First(h).packet] = "dropped"]
    /\ UNCHANGED <<onAir, arriving, queued, taken, passedUp, sent>>

-----------------------------------------------------------------------------
\* EV_FRAME_TRANSMITTED: after an acknowledgement or a broadcast the queue
\* goes on, after any other frame the acknowledgement is awaited.
Transmitted(n) ==
    LET h == [mac[n] EXCEPT !.radio = "RX"]
        done == First(h).packet
    IN
    \/ /\ h.state = "TRANSMITACK_7"
       /\ mac' = [mac EXCEPT ![n] = ManageQueue(h)]
       /\ UNCHANGED outcome
    \/ /\ h.state = "TRANSMITFRAME_4" /\ Dest[done] # Broadcast
       /\ mac' = [mac EXCEPT ![n] =
                   [h EXCEPT !.state = "WAITACK_5", !.timers = @ \cup {"rxAck"}]]
       /\ UNCHANGED outcome
    \/ /\ h.state = "TRANSMITFRAME_4" /\ Dest[done] = Broadcast
       /\ mac' = [mac EXCEPT ![n] = ManageQueue([h EXCEPT !.queue = Tail(@)])]
       /\ outcome' = [outcome EXCEPT ![done] = "sent"]

\* The frame n sends is over, and arrives at any hosts in reception.
EndOfFrame(n) ==
    /\ onAir[n] # NoFrame
    /\ \A m \in Node : arriving[m] = NoFrame
    /\ onAir' = [onAir EXCEPT ![n] = NoFrame]
    /\ \E heard \in SUBSET {m \in Node \ {n} : mac[m].radio = "RX"} :
         arriving' = [m \in Node |-> IF m \in heard THEN onAir[n] ELSE NoFrame]
    /\ Transmitted(n)
    /\ UNCHANGED <<queued, taken, passedUp, sent>>

\* A host that senses the channel does not know them either.
TransmittingBug(h) == h.state \in {"CCA_3", "TRANSMITFRAME_4", "TRANSMITACK_7"}

\* The states whose handlers know the end of the host's own frame only.
Transmitting(h) == h.state \in {"TRANSMITFRAME_4", "TRANSMITACK_7"}

SendUp(n, f) == passedUp' = [passedUp EXCEPT ![n] = Append(@, f.packet)]

\* The frame is deleted.
FsmError == UNCHANGED passedUp

\* EV_FRAME_RECEIVED, EV_BROADCAST_RECEIVED, for a frame counted as new: n may
\* have begun to transmit since it arrived.
Take(n, f) ==
    /\ taken' = [taken EXCEPT ![n] = Append(@, f.packet)]
    /\ IF Transmitting(mac[n]) THEN FsmError ELSE SendUp(n, f)

\* handleLowerMsg, data for n: EV_FRAME_RECEIVED, EV_DUPLICATE_RECEIVED.
ReceiveData(n, f) ==
    LET h == [mac[n] EXCEPT !.ackMessage = Src[f.packet],
                            !.SeqNrChild[Src[f.packet]] = NextExpected(mac[n], f)]
    IN
    /\ Dest[f.packet] = n
    /\ mac' = [mac EXCEPT ![n] = IF Acknowledges(h) THEN Suspend(h) ELSE h]
    /\ IF f.seq < mac[n].SeqNrChild[Src[f.packet]]
       THEN UNCHANGED <<taken, passedUp>>
       ELSE Take(n, f)
    /\ UNCHANGED outcome

\* handleLowerMsg, EV_BROADCAST_RECEIVED.
ReceiveBroadcast(n, f) ==
    /\ Dest[f.packet] = Broadcast
    /\ Take(n, f)
    /\ UNCHANGED <<mac, outcome>>

\* An acknowledgement is for the first packet when it comes from its
\* destination; it carries no SequenceId.  EV_ACK_RECEIVED.
Expected(n, f) ==
    /\ f.ackTo = n
    /\ mac[n].queue # <<>>
    /\ f.ackFrom = Dest[First(mac[n]).packet]
    /\ mac[n].state = "WAITACK_5"

ReceiveAck(n, f) ==
    /\ Expected(n, f)
    /\ mac' = [mac EXCEPT ![n] =
                PopFirst([mac[n] EXCEPT !.timers = @ \ {"rxAck"}])]
    /\ outcome' = [outcome EXCEPT ![First(mac[n]).packet] = "success"]
    /\ UNCHANGED <<taken, passedUp>>

\* Anything else is deleted: not for n, or an acknowledgement out of turn.
Discard(n, f) ==
    /\ \/ IsData(f) /\ Dest[f.packet] \notin {n, Broadcast}
       \/ IsAck(f) /\ ~ Expected(n, f)
    /\ UNCHANGED <<mac, outcome, taken, passedUp>>

\* handleLowerMsg.
HandleLowerMsg(n) ==
    LET f == arriving[n] IN
    /\ f # NoFrame
    /\ \/ IsData(f) /\ (ReceiveData(n, f) \/ ReceiveBroadcast(n, f))
       \/ IsAck(f) /\ ReceiveAck(n, f)
       \/ Discard(n, f)
    /\ arriving' = [arriving EXCEPT ![n] = NoFrame]
    /\ UNCHANGED <<onAir, queued, sent>>

Next ==
    \/ \E p \in Packet : HandleUpperMsg(p)
    \/ \E n \in Node : \/ BackoffTimer(n) \/ TransmitFrame(n) \/ ChannelBusy(n)
                       \/ SifsTimer(n) \/ RxAckTimer(n)
                       \/ EndOfFrame(n) \/ HandleLowerMsg(n)

Spec == Init /\ [][Next]_vars

(***************************************************************************)
(* The scheduler executes the event list until it is empty.  Retries and   *)
(* backoffs are bounded, so that every run is finite and this makes every  *)
(* timer fire and every frame end.                                         *)
(***************************************************************************)
FairSpec == Spec /\ WF_vars(Next)

-----------------------------------------------------------------------------
\* Type invariant.
TypeOK ==
    /\ mac \in [Node -> Mac]
    /\ onAir \in [Node -> Data \cup Ack \cup {NoFrame}]
    /\ arriving \in [Node -> Data \cup Ack \cup {NoFrame}]
    /\ queued \in Seq(Packet)
    /\ outcome \in [Packet -> {"none", "success", "dropped", "sent"}]
    /\ taken \in [Node -> Seq(Packet)]
    /\ passedUp \in [Node -> Seq(Packet)]
    /\ sent \in [Packet -> Nat]

(***************************************************************************)
(* The timers, the radio and the medium are what the state stands for: a   *)
(* timer runs in its state only, so that none is scheduled twice and none  *)
(* fires where the state machine does not know it, and the radio is in TX  *)
(* whenever something is sent and in RX again when it was (BasePhyLayer    *)
(* stops the simulation otherwise).                                        *)
(***************************************************************************)
TimersOf == [IDLE_1 |-> {}, BACKOFF_2 |-> {"backoff"}, CCA_3 |-> {"cca"},
             TRANSMITFRAME_4 |-> {}, WAITACK_5 |-> {"rxAck"},
             WAITSIFS_6 |-> {"sifs"}, TRANSMITACK_7 |-> {}]

StateIsHardware ==
    \A n \in Node :
        LET h == mac[n] IN
        /\ h.timers = TimersOf[h.state]
        /\ h.radio = "TX" <=>
             h.state \in {"TRANSMITFRAME_4", "WAITSIFS_6", "TRANSMITACK_7"}
        /\ h.state = "TRANSMITFRAME_4" => h.queue # <<>> /\ onAir[n] = First(h)
        /\ h.state = "TRANSMITACK_7" => IsAck(onAir[n])
        /\ onAir[n] # NoFrame =>
             h.state \in {"TRANSMITFRAME_4", "TRANSMITACK_7"}
        /\ h.state \in {"BACKOFF_2", "CCA_3", "WAITACK_5"} => h.queue # <<>>
        /\ h.state = "WAITSIFS_6" => h.ackMessage # NoHost

(***************************************************************************)
(* The queue of a host holds exactly its packets that have not ended, in   *)
(* the order it was handed them: each ends once, none is forgotten, and    *)
(* success and error messages name the packet they are about.              *)
(***************************************************************************)
EarlierQueued(p, x) ==
    \E k, l \in 1..Len(queued) : k < l /\ queued[k] = p /\ queued[l] = x

QueueIsUnfinished ==
    \A n \in Node :
        LET queue == mac[n].queue IN
        /\ {f.packet : f \in Members(queue)} =
             {p \in Members(queued) : Src[p] = n /\ outcome[p] = "none"}
        /\ \A i, j \in 1..Len(queue) :
             i < j => EarlierQueued(queue[i].packet, queue[j].packet)
        /\ Len(queue) <= QueueLength + 1

(***************************************************************************)
(* Sender and receiver agree without a word about the sequence numbers: a  *)
(* frame waiting for its acknowledgement is a duplicate at its destination *)
(* if and only if that host has taken its packet.                          *)
(***************************************************************************)
DuplicateMeansTaken ==
    \A n \in Node : \A f \in Members(mac[n].queue) :
        LET m == Dest[f.packet] IN
        m # Broadcast =>
            (f.seq < mac[m].SeqNrChild[n] <=> f.packet \in Members(taken[m]))

(***************************************************************************)
(* An acknowledgement names no packet.  It is right all the same: from the *)
(* moment a host prepares one until it has arrived, the host it is for     *)
(* waits for it, with a packet in front that the first host has taken.     *)
(***************************************************************************)
AcksTo(m) == (IF mac[m].state = "WAITSIFS_6" THEN {mac[m].ackMessage} ELSE {})
             \cup {f.ackTo : f \in {g \in {onAir[m]} : IsAck(g)}}

AckIsExpected ==
    \A m \in Node :
        /\ \A n \in AcksTo(m) :
             /\ mac[n].state = "WAITACK_5"
             /\ Dest[First(mac[n]).packet] = m
             /\ First(mac[n]).packet \in Members(taken[m])
        /\ IsAck(arriving[m]) /\ arriving[m].ackTo = m =>
             Expected(m, arriving[m])

(***************************************************************************)
(* A packet is transmitted at most MaxRetries + 2 times: manageMissingAck  *)
(* retransmits it MaxRetries + 1 times.                                    *)
(***************************************************************************)
AttemptsBounded ==
    /\ \A p \in Packet : sent[p] <= MaxRetries + 2
    /\ \A n \in Node : mac[n].queue # <<>> /\ mac[n].state # "TRANSMITFRAME_4" =>
         sent[First(mac[n]).packet] - mac[n].txAttempts \in {0, 1}

(***************************************************************************)
(* "macMaxFrameRetries: maximum number of frame retransmission" (csma.ned, *)
(* line 59): a packet is retransmitted at most that many times.            *)
(***************************************************************************)
RetransmissionsAsDocumented ==
    \A p \in Packet : sent[p] <= 1 + MaxRetries

(***************************************************************************)
(* Every packet queued ends, acknowledged, dropped or sent: again and      *)
(* again there is none that has not.  Retries and backoffs give up, and an *)
(* interrupted attempt is taken up again.                                  *)
(***************************************************************************)
EveryPacketEnds ==
    []<>(\A p \in Members(queued) : outcome[p] # "none")

(***************************************************************************)
(* Refinement: whatever the medium loses, delays or lets collide, each     *)
(* network layer is passed a packet at most once and in order, and only    *)
(* what its host took.  A success says that the destination took the       *)
(* packet: fsmError may have deleted it, and its frame is acknowledged as  *)
(* a duplicate when it comes again.                                        *)
(***************************************************************************)
Service == INSTANCE MacService

ImplementsMacService == Service!Spec
=============================================================================
