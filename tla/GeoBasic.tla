------------------------------ MODULE GeoBasic ------------------------------
(***************************************************************************)
(* Greedy geographic forwarding: the network layer GeoBasic of             *)
(* src/Greedy/GeoBasic.cc (src/Greedy1/GeoBasic.cc is the same file), one  *)
(* instance per host, over a broadcast radio.                              *)
(*                                                                         *)
(* A source turns an application packet into a GreedyPkt naming the next   *)
(* hop (interNode); the named host forwards it to the neighbour nearest to *)
(* the destination point, or calls endSimulation() because it is the       *)
(* destination or has no closer neighbour.  Tables and beacons are those   *)
(* of GeoNeighbors, and change while packets travel.                       *)
(*                                                                         *)
(* Distances are integers; only their order and sums matter.               *)
(***************************************************************************)
EXTENDS GeoNeighbors

CONSTANTS
    Origin,          \* Origin[p]: the host whose application creates p
    SourceNodes,     \* the hosts with isSourceNode = true
    Dist             \* Dist[m][n]: distance between two hosts

ASSUME GeoBasicAssumption ==
    /\ Origin \in [Packet -> Node]
    /\ SourceNodes \subseteq Node
    /\ Dist \in [Node -> [Node -> Nat]]

VARIABLES
    air,          \* GreedyPkt copies on their way to a host
    pending,      \* packets the applications have not handed down yet
    trail,        \* trail[p]: the hosts that logged having transmitted p
    outcome       \* what the run logged before endSimulation()

pktVars == <<air, pending, trail, outcome>>

vars == <<nbVars, pktVars>>

(***************************************************************************)
(* A copy of a GreedyPkt, from the host that sent it to one that hears it. *)
(***************************************************************************)
Copy == [packet : Packet, interNode : Node, route : Seq(Node), length : Nat,
         from : Node, to : Node]

\* The log of an arrival gives the route and its length, that of a stuck
\* packet only the route.
Arrived == [kind : {"arrived"}, packet : Packet, at : Node,
            route : Seq(Node), length : Nat]

Stuck == [kind : {"stuck"}, packet : Packet, at : Node, route : Seq(Node)]

Running == [kind |-> "running"]

Init ==
    /\ NbInit
    /\ air = {}
    /\ pending = Packet
    /\ trail = [p \in Packet |-> <<>>]
    /\ outcome = Running

-----------------------------------------------------------------------------
\* encapsMsg and sendDown: one copy for each host the transmission reaches.
Copies(n, p, next, route, length, heard) ==
    {[packet |-> p, interNode |-> next, route |-> route, length |-> length,
      from |-> n, to |-> m] : m \in heard}

\* Wrong variants, as in GeoNeighbors.
\* Everyone who hears the packet acts; the sender is compared, not the receiver.
IsNextHopAnyBug(c) == TRUE

IsNextHopSenderBug(c) == c.interNode = c.from

\* The copy is duplicated for sending and stays with its receiver.
ConsumedBug(c) == air

\* The route is sent on as received; the length adds the hop already made.
LongerRouteBug(c) == c.route

LongerLengthBug(c, next) == c.length + Dist[c.from][c.to]

\* The tests on the received copy, and what its receiver makes of it.
IsDest(c) == c.to = DestId[c.packet]

IsNextHop(c) == c.interNode = c.to

Consumed(c) == air \ {c}

LongerRoute(c) == Append(c.route, c.to)

LongerLength(c, next) == c.length + Dist[c.to][next]

\* The first transmission of p, to the next hop its origin found: the origin
\* itself when it has none, and nobody then takes the packet on.
SendFirst(p, next) ==
    LET n == Origin[p] IN
    /\ \E heard \in Reach(n) :
         air' = air \cup Copies(n, p, next, <<n>>, Dist[n][next], heard)
    /\ trail' = [trail EXCEPT ![p] = <<n>>]

\* A GreedyPkt that is not for this host.
Discard(c) ==
    /\ ~ IsDest(c) /\ ~ IsNextHop(c)
    /\ air' = Consumed(c)
    /\ UNCHANGED <<trail, outcome>>

\* The destination hears a GreedyPkt, as next hop or not.
Arrive(c) ==
    /\ IsDest(c)
    /\ air' = Consumed(c)
    /\ outcome' = [kind |-> "arrived", packet |-> c.packet, at |-> c.to,
                   route |-> c.route, length |-> c.length]
    /\ UNCHANGED trail

\* The next hop found no other host ("Bi tac o day!!!").
GiveUp(c, next) ==
    /\ ~ IsDest(c) /\ IsNextHop(c)
    /\ next = c.to
    /\ air' = Consumed(c)
    /\ outcome' = [kind |-> "stuck", packet |-> c.packet, at |-> c.to,
                   route |-> c.route]
    /\ UNCHANGED trail

\* The next hop forwards ("Chuyen tiep goi tin Greedy").
Forward(c, next) ==
    /\ ~ IsDest(c) /\ IsNextHop(c)
    /\ next # c.to
    /\ \E heard \in Reach(c.to) :
         air' = Consumed(c) \cup Copies(c.to, c.packet, next, LongerRoute(c),
                                        LongerLength(c, next), heard)
    /\ trail' = [trail EXCEPT ![c.packet] = Append(@, c.to)]
    /\ UNCHANGED outcome

\* What the receiver of c does when findNextNode returns next.
Receive(c, next) ==
    /\ Discard(c) \/ Arrive(c) \/ GiveUp(c, next) \/ Forward(c, next)
    /\ UNCHANGED pending

-----------------------------------------------------------------------------
\* handleUpperMsg: a source sends, even with no next hop; others delete.
HandleUpperMsg(p) ==
    /\ p \in pending
    /\ pending' = pending \ {p}
    /\ IF Origin[p] \in SourceNodes
       THEN SendFirst(p, FindNextNode(Origin[p], p))
       ELSE UNCHANGED <<air, trail>>
    /\ UNCHANGED <<nbVars, outcome>>

\* handleLowerMsg of a GreedyPkt.
HandleGreedyPkt(c) == Receive(c, FindNextNode(c.to, c.packet)) /\ UNCHANGED nbVars

\* endSimulation() stops every handler of every host.
Next ==
    /\ outcome = Running
    /\ \/ \E n \in Node : HandleSelfMsg(n) /\ UNCHANGED pktVars
       \/ \E n, m \in Node : HandleNbBroadcast(n, m) /\ UNCHANGED pktVars
       \/ \E p \in Packet : HandleUpperMsg(p)
       \/ \E c \in air : HandleGreedyPkt(c)

Spec == Init /\ [][Next]_vars

(***************************************************************************)
(* The scheduler executes the event list until it is empty or              *)
(* endSimulation() is called: something happens as long as it can.  Every  *)
(* run is finite, so this makes every scheduled event happen.              *)
(***************************************************************************)
FairSpec == Spec /\ WF_vars(Next)

(***************************************************************************)
(* The schedule with the default initializationTime of SensorApplLayer, a  *)
(* minute: no application packet before the beacons are over.  The shipped *)
(* omnetpp.ini sets it to 0s, which is Spec.                               *)
(***************************************************************************)
Settled == Quiet /\ \A n \in Node : ~ timer[n]

WarmNext == Next /\ (pending' # pending => Settled)

WarmSpec == Init /\ [][WarmNext]_vars /\ WF_vars(WarmNext)

-----------------------------------------------------------------------------
\* The copies of p that oblige the host they reach to act.
Custody(p) == {c \in air : c.packet = p /\ c.interNode = c.to}

\* The hosts of t come strictly closer to the destination of p.
Approaching(p, t) ==
    \A i, j \in 1..Len(t) : i < j => DistToDest[p][t[j]] < DistToDest[p][t[i]]

\* The length of the path along a sequence of hosts.
PathLength(r) ==
    LET upTo[i \in 1..Len(r)] ==
          IF i = 1 THEN 0 ELSE upTo[i-1] + Dist[r[i-1]][r[i]]
    IN  upTo[Len(r)]

\* Type invariant: every variable keeps the shape its declaration gives it.
PktTypeOK ==
    /\ air \subseteq Copy
    /\ pending \subseteq Packet
    /\ trail \in [Packet -> Seq(Node)]
    /\ outcome \in {Running} \cup Arrived \cup Stuck

TypeOK == NbTypeOK /\ PktTypeOK

(***************************************************************************)
(* Each host that transmits a packet is strictly closer to the destination *)
(* than all the hosts that transmitted it before, so that none transmits   *)
(* it twice although none remembers it: findNextNode compares with <, and  *)
(* the tables change while the packet travels.                             *)
(***************************************************************************)
LoopFree == \A p \in Packet : Approaching(p, trail[p])

(***************************************************************************)
(* Of all the copies of a packet at most one obliges its receiver to act   *)
(* as next hop: broadcasting does not multiply a packet.                   *)
(***************************************************************************)
SingleCustody == \A p \in Packet : \A c, d \in Custody(p) : c = d

(***************************************************************************)
(* Why the two hold: a copy was sent by a host of the trail to a host in   *)
(* range of it, the copy for a next hop by the last of the trail to a      *)
(* closer host, and a packet not handed down yet has no trail.             *)
(***************************************************************************)
HeardOnTrail ==
    \A c \in air : /\ c.to \in InRange[c.from]
                   /\ \E i \in 1..Len(trail[c.packet]) : trail[c.packet][i] = c.from

CustodyAtHolder ==
    \A c \in air : c.interNode = c.to =>
        /\ c.from = trail[c.packet][Len(trail[c.packet])]
        /\ DistToDest[c.packet][c.to] < DistToDest[c.packet][c.from]

FreshPending == \A p \in pending : trail[p] = <<>>

PathInv == /\ HeardOnTrail
           /\ CustodyAtHolder
           /\ FreshPending
           /\ SingleCustody
           /\ LoopFree

(***************************************************************************)
(* The route a copy carries is the list of the hosts that transmitted the  *)
(* packet up to its sender, the whole list in the copy for the next hop.   *)
(***************************************************************************)
RouteIsHistory ==
    \A c \in air :
        /\ c.route # <<>>
        /\ c.route[Len(c.route)] = c.from
        /\ Len(c.route) <= Len(trail[c.packet])
        /\ c.route = SubSeq(trail[c.packet], 1, Len(c.route))
        /\ c.interNode = c.to => c.route = trail[c.packet]

(***************************************************************************)
(* The length a copy carries is the length of the path it has travelled,   *)
(* the hop to the named next hop included, and so is the length the next   *)
(* hop would log on arrival.                                               *)
(***************************************************************************)
LengthIsPath ==
    \A c \in air : c.length = PathLength(Append(c.route, c.interNode))

(***************************************************************************)
(* "Do dai duong di la" (the length of the path): the length logged on     *)
(* arrival is the length of the path logged just before it.                *)
(***************************************************************************)
LoggedLengthIsPath ==
    outcome.kind = "arrived" =>
        outcome.length = PathLength(Append(outcome.route, outcome.at))

(***************************************************************************)
(* Over a radio that loses nothing, with the beacons over before the       *)
(* packet starts, a stuck packet is stuck: no host in range of the one     *)
(* that gave up is closer to the destination.                              *)
(***************************************************************************)
StuckIsGenuine ==
    outcome.kind = "stuck" => Void(outcome.at, outcome.packet)

(***************************************************************************)
(* Over a radio that loses nothing, a packet named to a next hop in range  *)
(* is reported, as arrived or as stuck, before the event list is empty.    *)
(***************************************************************************)
CustodyIsReported ==
    \A p \in Packet : Custody(p) # {} ~> outcome # Running

(***************************************************************************)
(* Over a radio that loses nothing, unless the simulation ends before,     *)
(* every host comes to know exactly the hosts it is in range of.           *)
(***************************************************************************)
TablesComplete ==
    <>(outcome # Running \/ \A n \in Node : Heard(n) = Neighbours(n))

(***************************************************************************)
(* Where every host but the destination has a closer one in range, and the *)
(* beacons are over before the packets start, a packet of a source arrives.*)
(***************************************************************************)
GreedyDelivers ==
    /\ \E p \in Packet : Origin[p] \in SourceNodes
    /\ \A p \in Packet : Origin[p] \in SourceNodes => NoVoid(p)
    => <>(outcome.kind = "arrived")

(***************************************************************************)
(* Refinement: the trail of a packet is what the hosts logged, the verdict *)
(* what the run ended with.  Beacons, losses and overhearing are internal. *)
(***************************************************************************)
Path == INSTANCE GreedyPath WITH verdict <- outcome.kind

\* Every run of the protocol is one of greedy forwarding: next hops are in
\* range and closer, and a verdict comes from a host that heard the trail.
ImplementsGreedyPath == Path!Spec
=============================================================================
