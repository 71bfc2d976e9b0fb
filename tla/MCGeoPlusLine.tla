---------------------------- MODULE MCGeoPlusLine ----------------------------
(***************************************************************************)
(* GeoPlusLine on the networks of MCNetworks and on the fan: the origin s  *)
(* of p is heard by a, the origin of q, which has two closer neighbours:   *)
(* b, on the line of p but with nobody closer in range, and the            *)
(* destination host d, which stands a little beside its point and is the   *)
(* nearer of the two to the line of q.                                     *)
(***************************************************************************)
EXTENDS GeoPlusLine, MCNetworks

Fan       == {s, a} :> 3 @@ {a, b} :> 2 @@ {a, d} :> 3
FanToDest == s :> 7 @@ a :> 4 @@ b :> 2 @@ d :> 1
FanRange  == RangeOf({s, a, b, d}, Fan)
FanDist   == DistOf({s, a, b, d}, Fan)
FanTo     == p :> FanToDest @@ q :> FanToDest
FanFrom   == p :> s @@ q :> a
FanLines  == p :> (s :> 0 @@ a :> 1 @@ b :> 0 @@ d :> 1)
          @@ q :> (s :> 2 @@ a :> 0 @@ b :> 2 @@ d :> 1)

\* The lines of p in the diamond, where the two relays are equally far from it,
\* and in the line network.
DiamondLines == p :> (s :> 0 @@ a :> 1 @@ b :> 1 @@ d :> 0)
LineLines    == p :> (s :> 0 @@ b :> 1 @@ a :> 1 @@ d :> 0)
=============================================================================
