---------------------------- MODULE GeoPlusHole -----------------------------
(***************************************************************************)
(* The search for the boundaries of holes of src/Greedy/GeoPlus.cc.  Two   *)
(* neighbours of a host that follow each other by angle, and whose radio   *)
(* disks leave a gap between them, open a hole; for every gap a host sends *)
(* a packet to the neighbour on one side of it, which does the same, so    *)
(* that the packets walk along the hole until their base has them back.    *)
(*                                                                         *)
(* Tables and beacons are those of GeoNeighbors.  The walks read the       *)
(* tables and change nothing that they or the beacons depend on, so that   *)
(* the model follows at most MaxStarts of those that hosts start, any.     *)
(***************************************************************************)
EXTENDS GeoNeighbors

CONSTANTS
    Angle,           \* Angle[n][m]: direction of m seen from n (degNode)
    Gap,             \* Gap[n]: the pairs <<j, k>> of hosts n sees a gap between
    RouterLimit,     \* routers a walk must have to be recognised: 5 in the code
    MaxStarts,       \* bound: starts of walks that are followed
    MaxRouters       \* bound: the code lets a walk go on for ever

ASSUME GeoPlusHoleAssumption ==
    /\ Angle \in [Node -> [Node -> 0..359]]
    /\ Gap \in [Node -> SUBSET (Node \X Node)]
    /\ RouterLimit \in Nat /\ MaxStarts \in Nat /\ MaxRouters \in Nat

VARIABLES
    walks,        \* GreedyPlusPkt clones on their way to their interNode
    starts,       \* how many starts have been followed
    logged        \* the clones their base recognised ("ok: "), never deleted

holeVars == <<walks, starts, logged>>

vars == <<nbVars, holeVars>>

(***************************************************************************)
(* A GreedyPlusPkt.  turns tells clones apart: the pair of neighbours each *)
(* of its senders cloned it for.  The copies other hosts hear are deleted, *)
(* and left out.                                                           *)
(***************************************************************************)
Walk == [start : Nat, turns : Seq(Node \X Node), base : Node, interNode : Node,
         routers : Seq(Node)]

Init ==
    /\ NbInit
    /\ walks = {}
    /\ starts = 0
    /\ logged = {}

-----------------------------------------------------------------------------
(***************************************************************************)
(* findBaseNode.  t is the table of host n.                                *)
(***************************************************************************)
\* The comparison turned round.
BeforeReversedBug(n, t, i, j) ==
    \/ Angle[n][t[i]] > Angle[n][t[j]]
    \/ Angle[n][t[i]] = Angle[n][t[j]] /\ i < j

\* The order in which the sort leaves two entries.
Before(n, t, i, j) ==
    \/ Angle[n][t[i]] < Angle[n][t[j]]
    \/ Angle[n][t[i]] = Angle[n][t[j]] /\ i < j

\* count: the entries of t by angle, each in its place.
Order(n, t) ==
    CHOOSE o \in [1..Len(t) -> 1..Len(t)] :
        /\ \A r, q \in 1..Len(t) : r < q => Before(n, t, o[r], o[q])
        /\ \A i \in 1..Len(t) : \E r \in 1..Len(t) : o[r] = i

\* Each entry with the next by angle; the last with the first from three on.
NextPairs(n, t) ==
    LET last == IF Len(t) > 2 THEN Len(t) ELSE Len(t) - 1
        count == Order(n, t)
    IN  {<<t[count[r]], t[count[(r % Len(t)) + 1]]>> : r \in 1..last}

\* node1 of a gap: its first side, the second when it lies past 180 degrees.
RelayOf(n, pair) ==
    IF Angle[n][pair[2]] - Angle[n][pair[1]] > 180 THEN pair[2] ELSE pair[1]

\* The pairs with a gap between them; their number is couple.
Gaps(n, t) == NextPairs(n, t) \cap Gap[n]

-----------------------------------------------------------------------------
\* The radio: which of the clones n sends reach their interNode.
Transmitted(n, clones) ==
    LET near == {w \in clones : w.interNode \in InRange[n]}
    IN  IF Lossy THEN SUBSET near ELSE {near}

\* Wrong variants: the router written over the last one; the walk recognised
\* one router late; the relayed packet kept.
LongerRoutersBug(w, next) == [w.routers EXCEPT ![Len(w.routers)] = next]

RecognisedLateBug(w) == w.base = w.interNode /\ Len(w.routers) > RouterLimit + 1

HandledBug(w) == walks

LongerRouters(w, next) == Append(w.routers, next)

\* A walk is at an end when its base holds it with enough routers in it.
Recognised(w) == w.base = w.interNode /\ Len(w.routers) > RouterLimit

Handled(w) == walks \ {w}

\* The clones of a start: one for each gap, its relay the only router.
FirstClones(n, t) ==
    {[start |-> starts + 1, turns |-> <<pair>>, base |-> n,
      interNode |-> RelayOf(n, pair), routers |-> <<RelayOf(n, pair)>>]
        : pair \in Gaps(n, t)}

\* The clones a relay sends on.
NextClones(w) ==
    LET n == w.interNode
        t == nbTable[n]
    IN  {[w EXCEPT !.turns = Append(@, pair), !.interNode = RelayOf(n, pair),
                   !.routers = LongerRouters(w, RelayOf(n, pair))]
            : pair \in Gaps(n, t)}

\* A host with a gap starts walks at each beacon it hears from its last but
\* one on; the start is followed or not.
StartWalks(n, t) ==
    \/ /\ nbUpdateCnt[n] >= NbUpdateLimit
       /\ starts < MaxStarts
       /\ Gaps(n, t) # {}
       /\ starts' = starts + 1
       /\ \E sent \in Transmitted(n, FirstClones(n, t)) : walks' = walks \cup sent
    \/ UNCHANGED <<walks, starts>>

\* handleLowerMsg, a beacon of m reaches n.  findBaseNode runs first, on the
\* table that does not have m yet.
HandleBeacon(n, m) ==
    /\ HandleNbBroadcast(n, m)
    /\ StartWalks(n, nbTable[n])
    /\ UNCHANGED logged

\* handleLowerMsg, a GreedyPlusPkt reaches its interNode, its base once more.
LogBoundary(w) ==
    /\ Recognised(w)
    /\ walks' = Handled(w)
    /\ logged' = logged \cup {w}
    /\ UNCHANGED starts

\* The same, any other host or an early return: a clone for each gap.
RelayWalk(w) ==
    /\ ~ Recognised(w)
    /\ Len(w.routers) < MaxRouters
    /\ \E sent \in Transmitted(w.interNode, NextClones(w)) :
         walks' = Handled(w) \cup sent
    /\ UNCHANGED <<starts, logged>>

\* handleUpperMsg does nothing.
Next ==
    \/ \E n \in Node : HandleSelfMsg(n) /\ UNCHANGED holeVars
    \/ \E n, m \in Node : HandleBeacon(n, m)
    \/ \E w \in walks : (LogBoundary(w) \/ RelayWalk(w)) /\ UNCHANGED nbVars

Spec == Init /\ [][Next]_vars

(***************************************************************************)
(* All timers start together with the same Tx_interval, far longer than a  *)
(* beacon takes: the beacons of a round are all sent at one instant, and   *)
(* received before the next round.                                         *)
(***************************************************************************)
SameRound == \A n, m \in Node : nbUpdateCnt[n] = nbUpdateCnt[m]

Due(n) == \A m, k \in Node :
    /\ nbUpdateCnt[m] >= nbUpdateCnt[n]
    /\ beacons[m][k] > 0 => nbUpdateCnt[m] > nbUpdateCnt[n]

RoundNext ==
    /\ Next
    /\ \/ SameRound /\ nbUpdateCnt' = nbUpdateCnt
       \/ \E n \in Node : Due(n) /\ nbUpdateCnt'[n] # nbUpdateCnt[n]

(***************************************************************************)
(* The scheduler executes the event list until it is empty; runs are       *)
(* finite here because walks are bounded by MaxRouters.                    *)
(***************************************************************************)
RoundSpec == Init /\ [][RoundNext]_vars /\ WF_vars(RoundNext)

-----------------------------------------------------------------------------
(***************************************************************************)
(* The routers a packet carries are a walk from its base: each one is in   *)
(* the table of the one before, the first in that of the base, and the     *)
(* last is the host the packet is on its way to.                           *)
(***************************************************************************)
RoutersAreWalk ==
    \A w \in walks \cup logged :
        LET hops == <<w.base>> \o w.routers
        IN  /\ w \in Walk /\ w.start \in 1..starts
            /\ Len(w.routers) = Len(w.turns)
            /\ w.interNode = hops[Len(hops)]
            /\ \A i \in 1..Len(hops) - 1 : hops[i+1] \in Heard(hops[i])

(***************************************************************************)
(* Cloning at every gap multiplies a packet but never repeats it: of a     *)
(* packet in the air, and the packets it was cloned from, only that one is *)
(* still in the air, and a logged one has no descendants.                  *)
(***************************************************************************)
Ancestor(v, w) ==
    /\ v.start = w.start
    /\ Len(v.turns) <= Len(w.turns)
    /\ v.turns = SubSeq(w.turns, 1, Len(v.turns))

NoRepeats ==
    /\ \A v, w \in walks \cup logged : Ancestor(v, w) => v = w
    /\ walks \cap logged = {}

(***************************************************************************)
(* A boundary is recognised the first time it can be: no packet has passed *)
(* its base since it had more than RouterLimit routers.  A hole with fewer *)
(* hosts around it is walked twice, and logged as twice its boundary.      *)
(***************************************************************************)
RecognisedInTime ==
    \A w \in walks \cup logged :
        /\ \A i \in RouterLimit + 1..Len(w.routers) - 1 : w.routers[i] # w.base
        /\ w \in logged => w.routers[Len(w.routers)] = w.base

(***************************************************************************)
(* The order of the entries is what the two loops of findBaseNode leave:   *)
(* pass i swaps neighbours from the end of count down to place i.          *)
(***************************************************************************)
SwapNext(n, t, o, j) ==
    IF Angle[n][t[o[j+1]]] < Angle[n][t[o[j]]]
    THEN [o EXCEPT ![j] = o[j+1], ![j+1] = o[j]]
    ELSE o

SortPass(n, t, o, i) ==
    LET swaps[k \in 0..Len(t) - i] ==
            IF k = 0 THEN o ELSE SwapNext(n, t, swaps[k-1], Len(t) - k)
    IN  swaps[Len(t) - i]

LoopOrder(n, t) ==
    LET passes[i \in 0..Len(t)] ==
            IF i = 0 THEN [r \in 1..Len(t) |-> r]
            ELSE SortPass(n, t, passes[i-1], i)
    IN  IF Len(t) < 2 THEN passes[0] ELSE passes[Len(t) - 1]

OrderIsLoop == \A n \in Node : Order(n, nbTable[n]) = LoopOrder(n, nbTable[n])
=============================================================================
