----------------------------- MODULE GeoRouting -----------------------------
(***************************************************************************)
(* The earlier greedy network layer, src/GeoRouting/GeoBasic.cc, one       *)
(* instance per host.  Nothing ends the simulation: packets of several     *)
(* sources travel at the same time, carry neither route nor length, and    *)
(* their ends are only logged.  A destination logs every copy it hears.    *)
(***************************************************************************)
EXTENDS GeoNeighbors

CONSTANTS
    Origin,          \* Origin[p]: the host whose application creates p
    SourceNodes      \* the hosts with isSourceNode = true

ASSUME GeoRoutingAssumption ==
    /\ Origin \in [Packet -> Node]
    /\ SourceNodes \subseteq Node

VARIABLES
    air,          \* GreedyPkt copies on their way to a host
    pending,      \* packets the applications have not handed down yet
    trail,        \* trail[p]: the hosts that transmitted p, in order
    received,     \* received[p]: copies logged by "DESTINATION: received"
    stuck         \* stuck[p]: hosts that logged "STUCK: packet stuck here"

pktVars == <<air, pending, trail, received, stuck>>

vars == <<nbVars, pktVars>>

\* A copy of a GreedyPkt, from the host that sent it to one that hears it.
Copy == [packet : Packet, interNode : Node, from : Node, to : Node]

Init ==
    /\ NbInit
    /\ air = {}
    /\ pending = Packet
    /\ trail = [pk \in Packet |-> <<>>]
    /\ received = [pk \in Packet |-> <<>>]
    /\ stuck = [pk \in Packet |-> <<>>]

-----------------------------------------------------------------------------
\* encapsMsg and sendDown: one copy for each host the transmission reaches.
Copies(n, pk, next, heard) ==
    {[packet |-> pk, interNode |-> next, from |-> n, to |-> m] : m \in heard}

\* Wrong variants, as in GeoNeighbors.
\* Whoever hears the packet relays it.
IsNextHopAnyBug(c) == TRUE

\* The forwarder sends the packet on without setInterNode.
InterNodeBug(c) == c.interNode

\* The handler sends a duplicate and keeps the packet.
ConsumedBug(c) == air

\* The tests on the received copy, and what its receiver makes of it.
IsDest(c) == c.to = DestId[c.packet]

IsNextHop(c) == c.interNode = c.to

InterNode(c) == FindNextNode(c.to, c.packet)

Consumed(c) == air \ {c}

\* handleUpperMsg: a source sends, even with itself as next hop; others delete.
HandleUpperMsg(pk) ==
    LET n == Origin[pk] IN
    /\ pk \in pending
    /\ pending' = pending \ {pk}
    /\ IF n \in SourceNodes
       THEN /\ \E heard \in Reach(n) :
                 air' = air \cup Copies(n, pk, FindNextNode(n, pk), heard)
            /\ trail' = [trail EXCEPT ![pk] = <<n>>]
       ELSE UNCHANGED <<air, trail>>
    /\ UNCHANGED <<received, stuck>>

\* A GreedyPkt that is not for this host is deleted.
Discard(c) ==
    /\ ~ IsDest(c) /\ ~ IsNextHop(c)
    /\ air' = Consumed(c)
    /\ UNCHANGED <<trail, received, stuck>>

\* The destination logs the copy and deletes it, named in it or not.
Deliver(c) ==
    /\ IsDest(c)
    /\ air' = Consumed(c)
    /\ received' = [received EXCEPT ![c.packet] = Append(@, c)]
    /\ UNCHANGED <<trail, stuck>>

\* The next hop knows no closer host.
GiveUp(c) ==
    /\ ~ IsDest(c) /\ IsNextHop(c)
    /\ FindNextNode(c.to, c.packet) = c.to
    /\ air' = Consumed(c)
    /\ stuck' = [stuck EXCEPT ![c.packet] = Append(@, c.to)]
    /\ UNCHANGED <<trail, received>>

\* The next hop names the one after it and transmits.
Forward(c) ==
    /\ ~ IsDest(c) /\ IsNextHop(c)
    /\ FindNextNode(c.to, c.packet) # c.to
    /\ \E heard \in Reach(c.to) :
         air' = Consumed(c) \cup Copies(c.to, c.packet, InterNode(c), heard)
    /\ trail' = [trail EXCEPT ![c.packet] = Append(@, c.to)]
    /\ UNCHANGED <<received, stuck>>

\* handleLowerMsg of a GreedyPkt.
HandleGreedyPkt(c) ==
    /\ Discard(c) \/ Deliver(c) \/ GiveUp(c) \/ Forward(c)
    /\ UNCHANGED pending

Next ==
    \/ \E n \in Node : HandleSelfMsg(n) /\ UNCHANGED pktVars
    \/ \E n, m \in Node : HandleNbBroadcast(n, m) /\ UNCHANGED pktVars
    \/ \E pk \in Packet : HandleUpperMsg(pk) /\ UNCHANGED nbVars
    \/ \E c \in air : HandleGreedyPkt(c) /\ UNCHANGED nbVars

Spec == Init /\ [][Next]_vars

(***************************************************************************)
(* The scheduler executes the event list until it is empty; every run is   *)
(* finite, so this makes every scheduled event happen.                     *)
(***************************************************************************)
FairSpec == Spec /\ WF_vars(Next)

-----------------------------------------------------------------------------
\* The copies of pk that oblige the host they reach to act.
Custody(pk) == {c \in air : c.packet = pk /\ c.interNode = c.to}

\* The receptions of pk by its destination as the named next hop.
NamedReceptions(pk) ==
    {i \in 1..Len(received[pk]) : received[pk][i].interNode = DestId[pk]}

\* What the network made of pk, copies overheard by the destination aside.
Verdict(pk) == IF stuck[pk] # <<>> THEN "stuck"
               ELSE IF NamedReceptions(pk) # {} THEN "arrived"
               ELSE "running"

\* Type invariant.
TypeOK ==
    /\ NbTypeOK
    /\ air \subseteq Copy
    /\ pending \subseteq Packet
    /\ trail \in [Packet -> Seq(Node)]
    /\ received \in [Packet -> Seq(Copy)]
    /\ stuck \in [Packet -> Seq(Node)]

(***************************************************************************)
(* Of all a packet's copies at most one obliges its receiver to act, it    *)
(* comes from the last host that transmitted the packet and goes to a      *)
(* strictly closer one, and the hosts that transmitted it come strictly    *)
(* closer: no host transmits a packet twice, whatever other packets do.    *)
(***************************************************************************)
SingleCustody == \A pk \in Packet : \A c, e \in Custody(pk) : c = e

CustodyAtHolder ==
    \A c \in air :
        /\ c.to \in InRange[c.from]
        /\ \E i \in 1..Len(trail[c.packet]) : trail[c.packet][i] = c.from
        /\ IsNextHop(c) =>
             /\ c.from = trail[c.packet][Len(trail[c.packet])]
             /\ DistToDest[c.packet][c.to] < DistToDest[c.packet][c.from]

FreshPending == \A pk \in pending : trail[pk] = <<>>

LoopFree ==
    \A pk \in Packet : \A i, j \in 1..Len(trail[pk]) :
        i < j => DistToDest[pk][trail[pk][j]] < DistToDest[pk][trail[pk][i]]

PathInv == SingleCustody /\ CustodyAtHolder /\ FreshPending /\ LoopFree

(***************************************************************************)
(* A packet ends once: it is logged stuck, or received by its destination  *)
(* as next hop, at most once and not both, and nobody has to act on it any *)
(* more.  No variable of the protocol records that a packet has ended.     *)
(***************************************************************************)
EndsOnce ==
    \A pk \in Packet :
        /\ Len(stuck[pk]) <= 1
        /\ \A i, j \in NamedReceptions(pk) : i = j
        /\ Verdict(pk) # "running" => Custody(pk) = {}
        /\ stuck[pk] # <<>> => NamedReceptions(pk) = {}

(***************************************************************************)
(* How often "DESTINATION: received" can be logged for one packet: once    *)
(* for each transmission of it, and never for a copy still in the air.     *)
(***************************************************************************)
ReceivedPerTransmission ==
    \A pk \in Packet :
        /\ \A i, j \in 1..Len(received[pk]) :
             received[pk][i].from = received[pk][j].from => i = j
        /\ \A i \in 1..Len(received[pk]) :
             /\ received[pk][i] \notin air
             /\ \E k \in 1..Len(trail[pk]) : trail[pk][k] = received[pk][i].from

(***************************************************************************)
(* A host that knows the destination names it (it is nearer than any other *)
(* host): the destination overhears a packet meant for another host only   *)
(* from a host whose table does not have it yet.                           *)
(***************************************************************************)
OverheardFromUnaware ==
    [][\A c \in air' \ air :
          IsDest(c) /\ ~ IsNextHop(c) => DestId[c.packet] \notin Heard(c.from)]_vars

(***************************************************************************)
(* Over a radio that loses nothing, a packet named to a next hop comes to  *)
(* an end: received as next hop, or stuck.                                 *)
(***************************************************************************)
PacketEnds ==
    \A pk \in Packet : Custody(pk) # {} ~> Verdict(pk) # "running"

(***************************************************************************)
(* Over a radio that loses nothing, a packet handed down by a source once  *)
(* the beacons are over reaches its destination as the named next hop, if  *)
(* every host but the destination has a closer one in range: whatever      *)
(* packets sent earlier are stuck meanwhile.                               *)
(***************************************************************************)
Settled == Quiet /\ \A n \in Node : ~ timer[n]

DeliversOnceSettled ==
    \A pk \in Packet :
        (pk \in pending /\ Settled /\ NoVoid(pk) /\ Origin[pk] \in SourceNodes)
            ~> (Verdict(pk) = "arrived")

(***************************************************************************)
(* Refinement, one packet at a time: the trail and the end of each packet  *)
(* are those of a run of GreedyPath with that packet alone; other packets, *)
(* copies the destination overhears, beacons and losses are internal.      *)
(***************************************************************************)
PathOf(pk) == INSTANCE GreedyPath WITH
    Packet <- {pk}, trail <- [x \in {pk} |-> trail[x]], verdict <- Verdict(pk)

\* PathOf(pk)!Spec for every packet: its next hops are in range and closer,
\* and it ends once, at a host that heard its trail, whatever the others do.
ImplementsGreedyPath ==
    /\ \A pk \in Packet : PathOf(pk)!Init
    /\ [][\A pk \in Packet : [PathOf(pk)!Next]_(PathOf(pk)!vars)]_vars
=============================================================================
