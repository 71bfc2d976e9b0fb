------------------------------- MODULE MCCsma -------------------------------
(***************************************************************************)
(* Csma between two hosts: a has a packet for b, one for all and another   *)
(* for b, in this order, and b has one for a at any time.                  *)
(***************************************************************************)
EXTENDS Csma, FiniteSetsExt, TLC

CONSTANTS a, b, p, q, r, w

Source      == p :> a @@ q :> a @@ w :> a @@ r :> b
Destination == p :> b @@ q :> b @@ w :> Broadcast @@ r :> a
InTurn      == p :> 1 @@ w :> 2 @@ q :> 3 @@ r :> 1

(***************************************************************************)
(* What a host takes and its network layer never sees (fsmError deletes    *)
(* it, the source may be told of a success) is at most one packet for each *)
(* transmission of the host itself: the frame that arrived as it began.    *)
(***************************************************************************)
Transmissions(n) == MapThenSumSet(LAMBDA x : sent[x], {x \in Packet : Src[x] = n})

LossPerTransmission ==
    \A n \in Node : Len(taken[n]) - Len(passedUp[n]) <= Transmissions(n)
=============================================================================
