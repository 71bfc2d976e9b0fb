---------------------------- MODULE GeoNeighbors ----------------------------
(***************************************************************************)
(* What the geographic network layers share: each host announces itself    *)
(* with a few NbBroadcast beacons on a timer, appends the hosts it hears   *)
(* to its neighbour table, and chooses next hops from that table.          *)
(*                                                                         *)
(* The handlers are those of src/Greedy/GeoBasic.cc; src/Greedy1 and       *)
(* src/GeoRouting have the same ones, and GeoPlus.cc the same beacons.     *)
(* The handlers of different hosts, and the receptions of one              *)
(* transmission, interleave freely; the radio may lose a transmission at   *)
(* any of the hosts in range.                                              *)
(***************************************************************************)
EXTENDS Integers, Sequences

CONSTANTS
    Node,            \* the hosts of the network
    Packet,          \* the packets the applications hand down
    DestId,          \* DestId[p]: the host p is for, parameter destId
    DistToDest,      \* DistToDest[p][n]: distance of n to (destX, destY)
    InRange,         \* InRange[n]: the hosts a transmission of n can reach
    NbUpdateLimit,   \* beacons sent before the last one: 5 in the code
    Lossy            \* whether the radio loses transmissions

ASSUME GeoNeighborsAssumption ==
    /\ DestId \in [Packet -> Node]
    /\ DistToDest \in [Packet -> [Node -> Nat]]
    /\ InRange \in [Node -> SUBSET Node]
    /\ \A n \in Node : n \notin InRange[n]
    /\ NbUpdateLimit \in Nat
    /\ Lossy \in BOOLEAN

VARIABLES
    nbTable,      \* nbTable[n]: neighbours of n in the order first heard
    nbUpdateCnt,  \* nbUpdateCnt[n]: beacons n has sent
    timer,        \* timer[n]: whether timerMsg of n is scheduled
    beacons       \* beacons[m][n]: NbBroadcast copies from m on their way to n

nbVars == <<nbTable, nbUpdateCnt, timer, beacons>>

NbInit ==
    /\ nbTable = [n \in Node |-> <<>>]
    /\ nbUpdateCnt = [n \in Node |-> 0]
    /\ timer = [n \in Node |-> TRUE]
    /\ beacons = [m \in Node |-> [n \in Node |-> 0]]

\* The radio: the sets of hosts one transmission of n may reach.
Reach(n) == IF Lossy THEN SUBSET InRange[n] ELSE {InRange[n]}

-----------------------------------------------------------------------------
(***************************************************************************)
(* Operators named ...Bug are wrong variants of the one that follows them, *)
(* used only to show that a property would catch the mistake they make.    *)
(***************************************************************************)
\* "<=" for "<": an equidistant neighbour counts as closer.
CloserEntriesTieBug(n, p) ==
    {i \in 1..Len(nbTable[n]) :
        DistToDest[p][nbTable[n][i]] <= DistToDest[p][n]}

\* The loop stops one entry early.
CloserEntriesEndBug(n, p) ==
    {i \in 1..Len(nbTable[n]) - 1 :
        DistToDest[p][nbTable[n][i]] < DistToDest[p][n]}

\* The entries of n that are strictly closer to the destination of p.
CloserEntries(n, p) ==
    {i \in 1..Len(nbTable[n]) :
        DistToDest[p][nbTable[n][i]] < DistToDest[p][n]}

\* "<=" in the loop that keeps the minimum: the last heard of equals wins.
NearestEntriesLastBug(n, p) ==
    {i \in CloserEntries(n, p) : \A j \in CloserEntries(n, p) :
        LET di == DistToDest[p][nbTable[n][i]]
            dj == DistToDest[p][nbTable[n][j]]
        IN  di < dj \/ (di = dj /\ i >= j)}

\* The nearest of these, the first heard of equals.
NearestEntries(n, p) ==
    {i \in CloserEntries(n, p) : \A j \in CloserEntries(n, p) :
        LET di == DistToDest[p][nbTable[n][i]]
            dj == DistToDest[p][nbTable[n][j]]
        IN  di < dj \/ (di = dj /\ i <= j)}

\* findNextNode: the next hop of p at n; n itself when no neighbour is closer.
FindNextNode(n, p) ==
    IF NearestEntries(n, p) = {} THEN n
    ELSE nbTable[n][CHOOSE i \in NearestEntries(n, p) : TRUE]

\* Every beacon adds an entry; only an empty table gets one.
UpdateNbTableAlwaysBug(n, m) == [nbTable EXCEPT ![n] = Append(@, m)]

UpdateNbTableOnceBug(n, m) ==
    IF nbTable[n] = <<>> THEN [nbTable EXCEPT ![n] = <<m>>] ELSE nbTable

\* updateNbTable: a host already there is not added again.
UpdateNbTable(n, m) ==
    IF \E i \in 1..Len(nbTable[n]) : nbTable[n][i] = m
    THEN nbTable
    ELSE [nbTable EXCEPT ![n] = Append(@, m)]

\* One beacon too many.
SendsMoreBug(n) == nbUpdateCnt[n] <= NbUpdateLimit

\* The test that schedules timerMsg once more.
SendsMore(n) == nbUpdateCnt[n] < NbUpdateLimit

\* handleSelfMsg: the beacon timer.
HandleSelfMsg(n) ==
    /\ timer[n]
    /\ timer' = [timer EXCEPT ![n] = SendsMore(n)]
    /\ nbUpdateCnt' = [nbUpdateCnt EXCEPT ![n] = @ + 1]
    /\ \E heard \in Reach(n) :
         beacons' = [beacons EXCEPT ![n] =
                       [m \in Node |-> IF m \in heard THEN @[m] + 1 ELSE @[m]]]
    /\ UNCHANGED nbTable

\* handleLowerMsg, a beacon of m reaches n.
HandleNbBroadcast(n, m) ==
    /\ beacons[m][n] > 0
    /\ beacons' = [beacons EXCEPT ![m][n] = @ - 1]
    /\ nbTable' = UpdateNbTable(n, m)
    /\ UNCHANGED <<nbUpdateCnt, timer>>

-----------------------------------------------------------------------------
Neighbours(n) == {m \in Node : n \in InRange[m]}

Heard(n) == {nbTable[n][i] : i \in 1..Len(nbTable[n])}

\* No beacon is on its way.
Quiet == \A n, m \in Node : beacons[m][n] = 0

\* Type invariant of the neighbour tables.
NbTypeOK ==
    /\ nbTable \in [Node -> Seq(Node)]
    /\ nbUpdateCnt \in [Node -> 0..NbUpdateLimit + 1]
    /\ timer \in [Node -> BOOLEAN]
    /\ beacons \in [Node -> [Node -> Nat]]

(***************************************************************************)
(* A table has no host twice, and only hosts in range that have sent more  *)
(* beacons than are still on their way (updateNbTable).                    *)
(***************************************************************************)
TableFromBeacons ==
    \A n \in Node :
        /\ \A i, j \in 1..Len(nbTable[n]) : nbTable[n][i] = nbTable[n][j] => i = j
        /\ \A m \in Heard(n) : m \in Neighbours(n) /\ beacons[m][n] < nbUpdateCnt[m]

(***************************************************************************)
(* findNextNode entry by entry, as its loop runs: the choice among the     *)
(* closer neighbours is what the loop leaves in nextNode.                  *)
(***************************************************************************)
LoopChoice(n, p) ==
    LET best[i \in 0..Len(nbTable[n])] ==
          IF i = 0 THEN n
          ELSE IF DistToDest[p][nbTable[n][i]] < DistToDest[p][best[i-1]]
               THEN nbTable[n][i] ELSE best[i-1]
    IN  best[Len(nbTable[n])]

ChoiceIsLoop == \A n \in Node, p \in Packet : FindNextNode(n, p) = LoopChoice(n, p)

(***************************************************************************)
(* A beacon changes the next hop of a host only for a strictly closer one: *)
(* the choice among equals does not move under a packet being routed.      *)
(***************************************************************************)
NextHopImproves ==
    [][\A n \in Node, p \in Packet :
          LET old == FindNextNode(n, p)
              new == FindNextNode(n, p)'
          IN  new # old => DistToDest[p][new] < DistToDest[p][old]]_nbVars

\* Every host but the destination of p has a closer one in range.
NoVoid(p) == \A n \in Node \ {DestId[p]} : \E m \in Neighbours(n) :
                n \in Neighbours(m) /\ DistToDest[p][m] < DistToDest[p][n]

\* No host in range of n is closer to the destination of p.
Void(n, p) == \A m \in Neighbours(n) : DistToDest[p][m] >= DistToDest[p][n]
=============================================================================
