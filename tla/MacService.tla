----------------------------- MODULE MacService -----------------------------
(***************************************************************************)
(* What a MAC layer promises to the network layers above it, without       *)
(* backoff, channel, acknowledgements or retransmissions: each packet      *)
(* handed down is refused or queued, taken at most once by a host it is    *)
(* for, in the order in which its source was handed the packets, and ends  *)
(* once at its source, as a success only when its destination took it.     *)
(* What a host takes it passes up at once, or never: a success does not    *)
(* say which.                                                              *)
(*                                                                         *)
(* Csma (src/MiXiM/src/modules/mac/csma.cc) is shown to implement it.      *)
(***************************************************************************)
EXTENDS Integers, Sequences

CONSTANTS
    Node,         \* the hosts
    Packet,       \* the packets of the network layers
    Broadcast,    \* the address of all hosts
    Src,          \* Src[p]: the host that hands p down
    Dest          \* Dest[p]: the host p is for, or Broadcast

VARIABLES
    queued,       \* the packets queued, in the order they were handed down
    outcome,      \* outcome[p]: how p ended at its source
    taken,        \* taken[n]: the packets host n took, in order
    passedUp      \* passedUp[n]: those its network layer was given

vars == <<queued, outcome, taken, passedUp>>

Members(s) == {s[i] : i \in 1..Len(s)}

\* Where p stands among the packets queued.
Turn(p) == CHOOSE i \in 1..Len(queued) : queued[i] = p

IsFor(p, n) == n # Src[p] /\ Dest[p] \in {n, Broadcast}

Init ==
    /\ queued = <<>>
    /\ outcome = [p \in Packet |-> "none"]
    /\ taken = [n \in Node |-> <<>>]
    /\ passedUp = [n \in Node |-> <<>>]

\* The layer takes p over.
Accept(p) ==
    /\ outcome[p] = "none" /\ p \notin Members(queued)
    /\ queued' = Append(queued, p)
    /\ UNCHANGED <<outcome, taken, passedUp>>

\* The layer has no room for p.
Refuse(p) ==
    /\ outcome[p] = "none" /\ p \notin Members(queued)
    /\ outcome' = [outcome EXCEPT ![p] = "dropped"]
    /\ UNCHANGED <<queued, taken, passedUp>>

\* A host p is for takes it, after every packet of that source it took before.
Take(n, p) ==
    /\ p \in Members(queued) /\ IsFor(p, n)
    /\ outcome[p] \in {"none", "sent"}
    /\ \A x \in Members(taken[n]) : Src[x] = Src[p] => Turn(x) < Turn(p)
    /\ taken' = [taken EXCEPT ![n] = Append(@, p)]
    /\ passedUp' \in {passedUp, [passedUp EXCEPT ![n] = Append(@, p)]}
    /\ UNCHANGED <<queued, outcome>>

\* The end of p is known to its source: a broadcast was sent, a packet for
\* one host was acknowledged or given up.
Finish(p) ==
    /\ p \in Members(queued) /\ outcome[p] = "none"
    /\ outcome' = [outcome EXCEPT ![p] =
                    IF Dest[p] = Broadcast THEN "sent" ELSE "success"]
    /\ Dest[p] # Broadcast => p \in Members(taken[Dest[p]])
    /\ UNCHANGED <<queued, taken, passedUp>>

GiveUp(p) ==
    /\ p \in Members(queued) /\ outcome[p] = "none"
    /\ outcome' = [outcome EXCEPT ![p] = "dropped"]
    /\ UNCHANGED <<queued, taken, passedUp>>

Next == \E p \in Packet : \/ Accept(p) \/ Refuse(p) \/ Finish(p) \/ GiveUp(p)
                          \/ \E n \in Node : Take(n, p)

Spec == Init /\ [][Next]_vars
=============================================================================
