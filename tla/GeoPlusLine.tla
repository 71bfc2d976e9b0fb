----------------------------- MODULE GeoPlusLine -----------------------------
(***************************************************************************)
(* Forwarding along a base line: the network layer GeoPlus of              *)
(* src/Greedy1/GeoPlus.cc.                                                 *)
(*                                                                         *)
(* Beacons and the treatment of a received packet are those of GeoBasic.   *)
(* What is new: the origin draws the line from itself to the destination   *)
(* and puts it in the packet; each host that hears the packet copies the   *)
(* line into its own baseLineFactor, whether or not the packet is for it;  *)
(* findNextNode takes, of the closer neighbours, the one nearest to the    *)
(* line in baseLineFactor.  A packet is sent only while exactly            *)
(* NbUpdateLimit beacons have been (nbUpdateCnt == 5), by any host.        *)
(*                                                                         *)
(* After a beacon, the handler reads the kind of the message it has just   *)
(* deleted.  If the memory no longer holds the 0 of a NbBroadcast the code *)
(* goes on with the dead message and the simulation fails.                 *)
(***************************************************************************)
EXTENDS GeoBasic

CONSTANTS
    LineDist,     \* LineDist[p][n]: distance of n to the base line of p
    NoLine        \* baseLineFactor before any line was stored in it

\* A line of p ends at the destination point of p.
ASSUME GeoPlusLineAssumption ==
    /\ LineDist \in [Packet -> [Node -> Nat]]
    /\ \A p \in Packet, n \in Node : LineDist[p][n] <= DistToDest[p][n]
    /\ NoLine \notin Packet

VARIABLES
    baseLine,     \* baseLine[n]: the packet whose line is in baseLineFactor
    failed        \* the simulation died on a deleted message

plusVars == <<vars, baseLine, failed>>

PlusInit ==
    /\ Init
    /\ baseLine = [n \in Node |-> NoLine]
    /\ failed = FALSE

-----------------------------------------------------------------------------
\* Wrong variants, as in GeoNeighbors.
\* The search keeps the first neighbour on the line; forgets the destination.
NearestToLineFirstBug(n, p, l) ==
    {i \in CloserEntries(n, p) : \A j \in CloserEntries(n, p) :
        LET di == LineDist[l][nbTable[n][i]]
            dj == LineDist[l][nbTable[n][j]]
        IN  di < dj \/ (di = dj /\ i <= j)}

NearestToLineAnyBug(n, p, l) ==
    {i \in 1..Len(nbTable[n]) : \A j \in 1..Len(nbTable[n]) :
        LineDist[l][nbTable[n][i]] <= LineDist[l][nbTable[n][j]]}

\* The closer entries that are not farther from line l than n from the
\* destination: the loop starts with that distance as its minimum.
WithinEntries(n, p, l) ==
    {i \in CloserEntries(n, p) : LineDist[l][nbTable[n][i]] <= DistToDest[p][n]}

\* The nearest of these to line l, the last heard of equals.
NearestToLine(n, p, l) ==
    {i \in WithinEntries(n, p, l) : \A j \in WithinEntries(n, p, l) :
        LET di == LineDist[l][nbTable[n][i]]
            dj == LineDist[l][nbTable[n][j]]
        IN  di < dj \/ (di = dj /\ i >= j)}

\* findNextNode, with line l in baseLineFactor.
NextOnLine(n, p, l) ==
    IF NearestToLine(n, p, l) = {} THEN n
    ELSE nbTable[n][CHOOSE i \in NearestToLine(n, p, l) : TRUE]

\* The line is stored only by a host that has none yet.
StoreLineOnceBug(n, p) ==
    IF baseLine[n] = NoLine THEN [baseLine EXCEPT ![n] = p] ELSE baseLine

\* drawLine at the origin, the copy of the packet's line at its receivers.
StoreLine(n, p) == [baseLine EXCEPT ![n] = p]

\* Between the fifth beacon of a host and its sixth.
InWindow(n) == nbUpdateCnt[n] = NbUpdateLimit

\* handleUpperMsg: in the window the host sends, otherwise it deletes.
PlusHandleUpperMsg(p) ==
    LET n == Origin[p] IN
    /\ p \in pending
    /\ pending' = pending \ {p}
    /\ IF InWindow(n)
       THEN /\ baseLine' = StoreLine(n, p)
            /\ SendFirst(p, NextOnLine(n, p, baseLine'[n]))
       ELSE UNCHANGED <<baseLine, air, trail>>
    /\ UNCHANGED <<nbVars, outcome, failed>>

\* handleLowerMsg of a beacon: with two neighbours that leave a gap, a host in
\* the window looks at the message it has deleted.
PlusHandleNbBroadcast(n, m) ==
    /\ HandleNbBroadcast(n, m)
    /\ \/ UNCHANGED failed
       \/ InWindow(n) /\ Len(nbTable'[n]) > 1 /\ failed' = TRUE
    /\ UNCHANGED <<pktVars, baseLine>>

\* handleLowerMsg of a GreedyPlusPkt: the line is stored before the tests.
HandleGreedyPlusPkt(c) ==
    /\ baseLine' = StoreLine(c.to, c.packet)
    /\ Receive(c, NextOnLine(c.to, c.packet, baseLine'[c.to]))
    /\ UNCHANGED <<nbVars, failed>>

PlusNext ==
    /\ outcome = Running /\ ~ failed
    /\ \/ \E n \in Node : HandleSelfMsg(n) /\ UNCHANGED <<pktVars, baseLine, failed>>
       \/ \E n, m \in Node : PlusHandleNbBroadcast(n, m)
       \/ \E p \in Packet : PlusHandleUpperMsg(p)
       \/ \E c \in air : HandleGreedyPlusPkt(c)

PlusSpec == PlusInit /\ [][PlusNext]_plusVars

(***************************************************************************)
(* The schedule of equal timers at all the hosts: when the application     *)
(* hands a packet down in the window, all have sent as many beacons, and   *)
(* these have been received.                                               *)
(***************************************************************************)
InStep == Quiet /\ \A n \in Node : InWindow(n)

PlusWarmNext == PlusNext /\ (pending' # pending => InStep)

PlusWarmSpec ==
    PlusInit /\ [][PlusWarmNext]_plusVars /\ WF_plusVars(PlusWarmNext)

-----------------------------------------------------------------------------
\* Type invariant: the state of GeoBasic, a line of some packet or none.
PlusTypeOK ==
    /\ TypeOK
    /\ baseLine \in [Node -> Packet \cup {NoLine}]
    /\ failed \in BOOLEAN

(***************************************************************************)
(* Each transmission goes to the neighbour nearest to the line of the very *)
(* packet it carries, of those closer to its destination, although hosts   *)
(* hear packets of several lines in between and keep only one line.        *)
(***************************************************************************)
FollowsLine ==
    [][\A c \in air' \ air : \A i \in CloserEntries(c.from, c.packet) :
          /\ c.interNode # c.from
          /\ LineDist[c.packet][c.interNode]
                <= LineDist[c.packet][nbTable[c.from][i]]]_plusVars

(***************************************************************************)
(* findNextNode entry by entry, as its loop runs with minDistance: what it *)
(* leaves in nextNode is the choice above, for whatever line is stored.    *)
(***************************************************************************)
LineLoopChoice(n, p, l) ==
    LET better(m, min) ==
          LineDist[l][m] <= min /\ DistToDest[p][m] < DistToDest[p][n]
        best[i \in 0..Len(nbTable[n])] ==
          IF i = 0 THEN [node |-> n, min |-> DistToDest[p][n]]
          ELSE LET m == nbTable[n][i]
               IN  IF better(m, best[i-1].min)
                   THEN [node |-> m, min |-> LineDist[l][m]] ELSE best[i-1]
    IN  best[Len(nbTable[n])].node

LineChoiceIsLoop ==
    \A n \in Node, p, l \in Packet : NextOnLine(n, p, l) = LineLoopChoice(n, p, l)

(***************************************************************************)
(* With the beacons in step, a lossless radio and no void, a packet that   *)
(* was transmitted arrives, unless the simulation failed before: the line  *)
(* never excludes all the closer neighbours.                               *)
(***************************************************************************)
PlusDelivers ==
    (\A p \in Packet : NoVoid(p)) =>
        \A p \in Packet : trail[p] # <<>> ~> (outcome.kind = "arrived" \/ failed)
=============================================================================
