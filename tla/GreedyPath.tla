----------------------------- MODULE GreedyPath -----------------------------
(***************************************************************************)
(* What greedy geographic forwarding promises, without tables, beacons,    *)
(* radio or packets: the nodes that transmit a data packet form a trail,   *)
(* every node of the trail heard the one before it and is strictly closer  *)
(* to the destination point, and the simulation ends with at most one      *)
(* verdict, given by a node that heard a node of the trail.                *)
(*                                                                         *)
(* GeoBasic (src/Greedy/GeoBasic.cc) and GeoPlusLine                       *)
(* (src/Greedy1/GeoPlus.cc) are shown to implement this module, and every  *)
(* packet of GeoRouting (src/GeoRouting/GeoBasic.cc) on its own.           *)
(***************************************************************************)
EXTENDS Integers, Sequences

CONSTANTS
    Node,         \* the hosts of the network
    Packet,       \* the application packets
    Origin,       \* Origin[p]: the host whose application creates p
    DestId,       \* DestId[p]: the host p is for (parameter destId)
    InRange,      \* InRange[n]: the hosts a transmission of n can reach
    DistToDest    \* DistToDest[p][n]: distance of n to (destX, destY)

VARIABLES
    trail,        \* trail[p]: the hosts that transmitted p, in order
    verdict       \* "running", or how the simulation ended

vars == <<trail, verdict>>

Closer(p, n, m) == DistToDest[p][n] < DistToDest[p][m]

Holder(p) == trail[p][Len(trail[p])]    \* the last host that transmitted p

Init == /\ trail = [p \in Packet |-> <<>>]
        /\ verdict = "running"

\* The network layer of the origin sends the packet for the first time.
Start(p) == /\ trail[p] = <<>>
            /\ trail' = [trail EXCEPT ![p] = <<Origin[p]>>]
            /\ UNCHANGED verdict

\* A host that heard the holder, and is closer than it, transmits in its turn.
Hop(p, n) == /\ trail[p] # <<>>
             /\ n \in InRange[Holder(p)]
             /\ Closer(p, n, Holder(p))
             /\ trail' = [trail EXCEPT ![p] = Append(@, n)]
             /\ UNCHANGED verdict

\* The destination hears any host of the trail, the next hop or not.
Arrive(p) == /\ \E i \in 1..Len(trail[p]) : DestId[p] \in InRange[trail[p][i]]
             /\ verdict' = "arrived"
             /\ UNCHANGED trail

\* A host closer than the holder, which heard it, gives up.
GiveUp(p, n) == /\ trail[p] # <<>>
                /\ n \in InRange[Holder(p)]
                /\ Closer(p, n, Holder(p))
                /\ verdict' = "stuck"
                /\ UNCHANGED trail

Next == /\ verdict = "running"
        /\ \E p \in Packet : \/ Start(p)
                             \/ Arrive(p)
                             \/ \E n \in Node : Hop(p, n) \/ GiveUp(p, n)

Spec == Init /\ [][Next]_vars
=============================================================================
