----------------------------- MODULE MCNetworks -----------------------------
(***************************************************************************)
(* Small networks to check the routing layers on.  A network is a function *)
(* from links to lengths; every link works in both directions.             *)
(***************************************************************************)
EXTENDS Integers, TLC

CONSTANTS s, a, b, d,     \* hosts: a source, two relays, the destination
          p, q            \* packets

LinkLength(links, m, n) ==
    IF \E l \in DOMAIN links : l = {m, n} THEN links[{m, n}] ELSE 9

RangeOf(hosts, links) ==
    [m \in hosts |-> {n \in hosts : {m, n} \in DOMAIN links}]

DistOf(hosts, links) ==
    [m \in hosts |-> [n \in hosts |->
        IF m = n THEN 0 ELSE LinkLength(links, m, n)]]

(***************************************************************************)
(* The diamond: two relays at the same distance of the destination, of     *)
(* which only a reaches it, so that b is a void.                           *)
(***************************************************************************)
Diamond == {s, a} :> 2 @@ {s, b} :> 3 @@ {a, b} :> 2 @@ {a, d} :> 4
DiamondToDest == s :> 6 @@ a :> 4 @@ b :> 4 @@ d :> 0

(***************************************************************************)
(* The triangle: the destination is in range of the source, which may know *)
(* only the relay.                                                         *)
(***************************************************************************)
Triangle == {s, a} :> 3 @@ {s, d} :> 5 @@ {a, d} :> 4
TriangleToDest == s :> 5 @@ a :> 4 @@ d :> 0

(***************************************************************************)
(* The chain: the only way to the destination is through the relay.        *)
(***************************************************************************)
Chain == {s, a} :> 3 @@ {a, d} :> 4
ChainToDest == s :> 7 @@ a :> 4 @@ d :> 0

(***************************************************************************)
(* The line: no host is a void, and each hears only the next ones.         *)
(***************************************************************************)
Line == {s, b} :> 2 @@ {b, a} :> 2 @@ {a, d} :> 2 @@ {s, a} :> 4
LineToDest == s :> 6 @@ b :> 4 @@ a :> 2 @@ d :> 0

DiamondRange  == RangeOf({s, a, b, d}, Diamond)
DiamondDist   == DistOf({s, a, b, d}, Diamond)
TriangleRange == RangeOf({s, a, d}, Triangle)
TriangleDist  == DistOf({s, a, d}, Triangle)
ChainRange    == RangeOf({s, a, d}, Chain)
ChainDist     == DistOf({s, a, d}, Chain)
LineRange     == RangeOf({s, a, b, d}, Line)
LineDistances == DistOf({s, a, b, d}, Line)

\* p travels from s to d; so does q, from b.
OnePacket  == p :> s
TwoPackets == p :> s @@ q :> b
ToD        == p :> d
BothToD    == p :> d @@ q :> d

DiamondTo  == p :> DiamondToDest
TriangleTo == p :> TriangleToDest
ChainTo    == p :> ChainToDest
LineTo     == p :> LineToDest @@ q :> LineToDest
LineTo1    == p :> LineToDest

(***************************************************************************)
(* Two packets that cross in the triangle: p from s to d, q from d to s.   *)
(* Where a table is still empty a host of it is a void.                    *)
(***************************************************************************)
Crossing         == p :> s @@ q :> d
ThereAndBack     == p :> d @@ q :> s
TriangleCrossing == p :> TriangleToDest @@ q :> (s :> 0 @@ a :> 3 @@ d :> 5)
=============================================================================
