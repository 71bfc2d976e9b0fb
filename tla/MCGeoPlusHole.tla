--------------------------- MODULE MCGeoPlusHole ----------------------------
(***************************************************************************)
(* GeoPlusHole around a hole between the hosts a (36, 16), b (31, 50) and  *)
(* d (10, 21), with a spur e (83, 23), in range of a only.  The angles,    *)
(* and the gaps for the radius of 48 in the code, are those that           *)
(* findBaseNode computes for these places.  With all its neighbours known  *)
(* a finds two gaps, one of them with its spur as the relay, b and d one   *)
(* each, and the spur none.                                                *)
(***************************************************************************)
EXTENDS GeoPlusHole, TLC

CONSTANTS a, b, d, e

Links == {{a, b}, {a, d}, {b, d}, {a, e}}

RingRange == [m \in Node |-> {n \in Node : {m, n} \in Links}]

Directions == a :> (b :> 262 @@ d :> 191 @@ e :> 352)
              @@ b :> (a :> 82 @@ d :> 126)
              @@ d :> (a :> 11 @@ b :> 306)
              @@ e :> (a :> 172)

RingAngle == [m \in Node |-> [n \in Node |->
                IF {m, n} \in Links THEN Directions[m][n] ELSE 0]]

RingGap == a :> {<<b, d>>, <<d, b>>, <<d, e>>, <<e, b>>, <<e, d>>}
           @@ b :> {<<a, d>>, <<d, a>>}
           @@ d :> {<<a, b>>}
           @@ e :> {}

NoPacket == [x \in {} |-> a]

(***************************************************************************)
(* Once the hosts know all their neighbours, a packet on its way to a host *)
(* of the ring is recognised by its base in the end, it or one cloned from *)
(* it, over a radio that loses nothing.  Packets that take the spur are    *)
(* lost without a word.                                                    *)
(***************************************************************************)
TablesKnown == \A n \in Node : Heard(n) = Neighbours(n)

BoundaryIsRecognised ==
    \A i \in 1..MaxStarts :
        (TablesKnown /\ \E w \in walks : w.start = i /\ w.interNode \in {a, b, d})
            ~> \E w \in logged : w.start = i
=============================================================================
