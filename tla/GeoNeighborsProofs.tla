------------------------- MODULE GeoNeighborsProofs -------------------------
(***************************************************************************)
(* Lemmas about the neighbour tables, for every layer that builds on them: *)
(* what findNextNode returns, and what the two handlers preserve.          *)
(***************************************************************************)
EXTENDS GeoNeighbors, FiniteSetTheorems, TLAPS

USE GeoNeighborsAssumption

LEMMA SeqEntries ==
    ASSUME NEW S, NEW t \in Seq(S)
    PROVE  Len(t) \in Nat /\ \A i \in 1..Len(t) : t[i] \in S
OBVIOUS

(***************************************************************************)
(* A sequence of hosts with no host twice is no longer than the number of  *)
(* hosts.                                                                  *)
(***************************************************************************)
LEMMA DistinctAreFew ==
    ASSUME IsFiniteSet(Node), NEW t \in Seq(Node),
           \A i, j \in 1..Len(t) : i < j => t[i] # t[j]
    PROVE  Len(t) <= Cardinality(Node)
<1> DEFINE l == Len(t)
           at == [i \in 1..l |-> t[i]]
<1>1. l \in Nat /\ at \in [1..l -> Node]
  BY SeqEntries
<1> SUFFICES ASSUME Cardinality(Node) < l PROVE FALSE
  <2>1. Cardinality(Node) \in Nat
    BY FS_CardinalityType
  <2> QED BY <1>1, <2>1
<1>2. PICK i, j \in 1..l : i # j /\ at[i] = at[j]
  <2> HIDE DEF l, at
  <2>1. 1 \in Int /\ l \in Int
    BY <1>1
  <2>2. IsFiniteSet(1..l) /\ Cardinality(1..l) = IF 1 > l THEN 0 ELSE l - 1 + 1
    BY <2>1, FS_Interval, Zenon
  <2>3. Cardinality(1..l) = l
    BY <1>1, <2>2
  <2>4. Cardinality(Node) < Cardinality(1..l)
    BY <2>3
  <2> DEFINE S == 1..l
  <2>5. IsFiniteSet(S) /\ Cardinality(Node) < Cardinality(S) /\ at \in [S -> Node]
    BY <1>1, <2>2, <2>4
  <2> HIDE DEF S
  <2>6. \E x, y \in S : x # y /\ at[x] = at[y]
    BY <2>5, FS_PigeonHole
  <2> QED BY <2>6 DEF S
<1>3. i < j \/ j < i
  BY <1>1, <1>2
<1> QED BY <1>2, <1>3

(***************************************************************************)
(* The host FindNextNode names: the host itself or one of its table, and   *)
(* then a strictly closer one.                                             *)
(***************************************************************************)
LEMMA FindNextNodeType ==
    ASSUME NEW n \in Node, NEW p \in Packet, nbTable[n] \in Seq(Node)
    PROVE  /\ FindNextNode(n, p) \in Node
           /\ FindNextNode(n, p) # n =>
                DistToDest[p][FindNextNode(n, p)] < DistToDest[p][n]
<1>1. CASE NearestEntries(n, p) = {}
  BY <1>1 DEF FindNextNode
<1>2. CASE NearestEntries(n, p) # {}
  <2> DEFINE i == CHOOSE k \in NearestEntries(n, p) : TRUE
  <2>1. i \in NearestEntries(n, p)
    BY <1>2
  <2>2. /\ i \in 1..Len(nbTable[n])
        /\ DistToDest[p][nbTable[n][i]] < DistToDest[p][n]
    BY <2>1 DEF NearestEntries, CloserEntries
  <2>3. FindNextNode(n, p) = nbTable[n][i]
    BY <1>2 DEF FindNextNode
  <2>4. nbTable[n][i] \in Node
    BY <2>2
  <2> QED
    BY <2>2, <2>3, <2>4
<1> QED
  BY <1>1, <1>2

\* A set of distances has a least one.
LEMMA LeastDistance ==
    ASSUME NEW S \in SUBSET Nat, S # {}
    PROVE  \E x \in S : \A y \in S : x <= y
<1> DEFINE R == OpToRel(<, Nat)
<1>1. IsWellFoundedOn(R, Nat)
  BY NatLessThanWellFounded
<1>2. PICK x \in S : \A y \in S : ~ (<<y, x>> \in R)
  <2> HIDE DEF R
  <2> QED BY <1>1, WFMin
<1>3. \A y \in S : ~ (y < x)
  BY <1>2 DEF OpToRel
<1> QED BY <1>3

\* Induction up to a bound, on the set of the numbers that satisfy a formula.
LEMMA Induct ==
    ASSUME NEW l \in Nat, NEW S, 0 \in S, \A i \in 1..l : i - 1 \in S => i \in S
    PROVE  \A i \in 0..l : i \in S
<1> DEFINE T == {i \in 0..l : i \notin S}
<1>1. SUFFICES ASSUME T # {} PROVE FALSE
  OBVIOUS
<1>2. T \in SUBSET Nat
  OBVIOUS
<1>3. PICK x \in T : \A y \in T : x <= y
  BY <1>1, <1>2, LeastDistance
<1>4. x \in 1..l /\ x - 1 \notin T
  BY <1>3
<1> QED BY <1>4

\* f is what a loop that runs over 1..l goes through: x before it, and G[i] of
\* what its pass i found after that pass.
IsLoop(f, l, x, G) == f[0] = x /\ \A i \in 1..l : f[i] = G[i][f[i-1]]

LEMMA LoopExists ==
    ASSUME NEW l \in Nat, NEW X, NEW x \in X, NEW G \in [1..l -> [X -> X]]
    PROVE  \E f \in [0..l -> X] : IsLoop(f, l, x, G)
<1> DEFINE S == {k \in 0..l : \E f \in [0..l -> X] : IsLoop(f, k, x, G)}
<1>1. 0 \in S
  <2> DEFINE f == [i \in 0..l |-> x]
  <2>1. f \in [0..l -> X] /\ IsLoop(f, 0, x, G)
    BY DEF IsLoop
  <2>2. 0 \in 0..l
    OBVIOUS
  <2> HIDE DEF f
  <2> QED BY <2>1, <2>2
<1>2. ASSUME NEW k \in 1..l, k - 1 \in S PROVE k \in S
  <2>1. PICK f \in [0..l -> X] : IsLoop(f, k - 1, x, G)
    BY <1>2
  <2> DEFINE g == [f EXCEPT ![k] = G[k][f[k-1]]]
  <2>2. g \in [0..l -> X]
    OBVIOUS
  <2>3. g[0] = x /\ g[k] = G[k][f[k-1]] /\ \A i \in 0..k-1 : g[i] = f[i]
    BY <2>1 DEF IsLoop
  <2> HIDE DEF g
  <2>4. ASSUME NEW i \in 1..k PROVE g[i] = G[i][g[i-1]]
    <3>1. i - 1 \in 0..k-1 /\ (i \in 1..k-1 \/ i = k)
      OBVIOUS
    <3>2. g[i-1] = f[i-1]
      BY <3>1, <2>3
    <3>3. CASE i \in 1..k-1
      BY <2>1, <2>3, <3>2, <3>3 DEF IsLoop
    <3>4. CASE i = k
      BY <2>3, <3>2, <3>4
    <3> QED BY <3>1, <3>3, <3>4
  <2>5. IsLoop(g, k, x, G)
    BY <2>3, <2>4 DEF IsLoop
  <2> QED BY <2>2, <2>5
<1> HIDE DEF S
<1>3. \A i \in 0..l : i \in S
  <2>1. \A k \in 1..l : k - 1 \in S => k \in S
    BY <1>2
  <2> QED BY ONLY <1>1, <2>1, l \in Nat, Induct
<1>4. l \in S
  BY <1>3
<1> QED BY <1>4 DEF S

LEMMA LeastValue ==
    ASSUME NEW E, E # {}, NEW f, \A i \in E : f[i] \in Nat
    PROVE  \E a \in E : \A j \in E : f[a] <= f[j]
<1> DEFINE S == {f[i] : i \in E}
<1>1. PICK e \in E : TRUE
  OBVIOUS
<1>2. f[e] \in S
  BY <1>1
<1>3. \A x \in S : x \in Nat
  OBVIOUS
<1>4. \A i \in E : f[i] \in S
  OBVIOUS
<1>5. \A x \in S : \E i \in E : x = f[i]
  OBVIOUS
<1> HIDE DEF S
<1>6. S \in SUBSET Nat /\ S # {}
  BY <1>2, <1>3
<1>7. PICK x \in S : \A y \in S : x <= y
  BY <1>6, LeastDistance
<1> QED BY <1>4, <1>5, <1>7

LEMMA NotEqualLess == \A x, y \in Nat : x <= y /\ x # y => x < y
OBVIOUS

(***************************************************************************)
(* A loop that keeps a minimum finds one: of a set of indices, the first,  *)
(* and the last, of those with the least distance.                         *)
(***************************************************************************)
LEMMA FirstNearest ==
    ASSUME NEW l \in Nat, NEW E \in SUBSET (1..l), E # {},
           NEW f, \A i \in E : f[i] \in Nat
    PROVE  \E i \in E : \A j \in E : f[i] < f[j] \/ (f[i] = f[j] /\ i <= j)
<1>1. PICK a \in E : \A j \in E : f[a] <= f[j]
  BY LeastValue
<1> DEFINE T == {i \in E : f[i] = f[a]}
<1>2. T \in SUBSET Nat /\ T # {}
  <2>1. a \in T
    OBVIOUS
  <2>2. T \subseteq E /\ E \subseteq Nat
    OBVIOUS
  <2> QED BY <2>1, <2>2
<1> HIDE DEF T
<1>3. PICK b \in T : \A j \in T : b <= j
  BY <1>2, LeastDistance
<1>4. b \in E /\ f[b] = f[a]
  BY DEF T
<1>5. ASSUME NEW j \in E PROVE f[b] < f[j] \/ (f[b] = f[j] /\ b <= j)
  <2>1. f[a] <= f[j] /\ f[a] \in Nat /\ f[j] \in Nat
    BY <1>1
  <2>2. CASE f[a] = f[j]
    <3>1. j \in T
      BY <2>2 DEF T
    <3>2. b <= j
      BY <1>3, <3>1
    <3> QED BY <1>4, <2>2, <3>2
  <2>3. CASE f[a] # f[j]
    <3>1. f[a] < f[j]
      BY ONLY <2>1, <2>3, NotEqualLess, Zenon
    <3> QED BY <1>4, <3>1
  <2> QED BY <2>2, <2>3
<1> QED BY <1>4, <1>5

LEMMA LastNearest ==
    ASSUME NEW l \in Nat, NEW E \in SUBSET (1..l), E # {},
           NEW f, \A i \in E : f[i] \in Nat
    PROVE  \E i \in E : \A j \in E : f[i] < f[j] \/ (f[i] = f[j] /\ i >= j)
<1>1. PICK a \in E : \A j \in E : f[a] <= f[j]
  BY LeastValue
<1> DEFINE T == {i \in E : f[i] = f[a]}
           U == {l - i : i \in T}
<1>2. U \in SUBSET Nat /\ U # {}
  <2>1. a \in T /\ l - a \in U
    OBVIOUS
  <2>2. \A i \in E : l - i \in Nat
    OBVIOUS
  <2> QED BY <2>1, <2>2
<1> HIDE DEF T
<1>3. PICK u \in U : \A y \in U : u <= y
  <2> HIDE DEF U
  <2> QED BY <1>2, LeastDistance
<1>4. PICK b \in T : u = l - b
  BY <1>3
<1>5. b \in E /\ f[b] = f[a]
  BY <1>4 DEF T
<1>6. ASSUME NEW j \in E PROVE f[b] < f[j] \/ (f[b] = f[j] /\ b >= j)
  <2>1. f[a] <= f[j] /\ f[a] \in Nat /\ f[j] \in Nat
    BY <1>1
  <2>2. CASE f[a] = f[j]
    <3>1. l - j \in U
      BY <2>2 DEF T
    <3>2. l - b <= l - j
      BY <1>3, <1>4, <3>1
    <3>3. b \in Nat /\ j \in Nat /\ b >= j
      BY <1>5, <3>2
    <3> QED BY <1>5, <2>2, <3>3
  <2>3. CASE f[a] # f[j]
    <3>1. f[a] < f[j]
      BY ONLY <2>1, <2>3, NotEqualLess, Zenon
    <3> QED BY <1>5, <3>1
  <2> QED BY <2>2, <2>3
<1> QED BY <1>5, <1>6

(***************************************************************************)
(* findNextNode as a function of the table t alone, with the distances D   *)
(* to one destination, so that the tables before and after a beacon can be *)
(* compared.                                                               *)
(***************************************************************************)
CloserOf(D, n, t) == {i \in 1..Len(t) : D[t[i]] < D[n]}

NearestOf(D, n, t) ==
    {i \in CloserOf(D, n, t) : \A j \in CloserOf(D, n, t) :
        D[t[i]] < D[t[j]] \/ (D[t[i]] = D[t[j]] /\ i <= j)}

ChoiceOf(D, n, t) ==
    IF NearestOf(D, n, t) = {} THEN n
    ELSE t[CHOOSE i \in NearestOf(D, n, t) : TRUE]

LEMMA FindNextIsChoice ==
    ASSUME NEW n \in Node, NEW p \in Packet
    PROVE  /\ FindNextNode(n, p) = ChoiceOf(DistToDest[p], n, nbTable[n])
           /\ FindNextNode(n, p)' = ChoiceOf(DistToDest[p], n, nbTable'[n])
BY DEF FindNextNode, NearestEntries, CloserEntries, ChoiceOf, NearestOf, CloserOf

\* A next hop is found whenever a neighbour is closer, and only one.
LEMMA NearestExists ==
    ASSUME NEW D \in [Node -> Nat], NEW n \in Node, NEW t \in Seq(Node),
           CloserOf(D, n, t) # {}
    PROVE  NearestOf(D, n, t) # {}
<1> DEFINE E == CloserOf(D, n, t)
           l == Len(t)
           f == [i \in 1..l |-> D[t[i]]]
<1>1. l \in Nat /\ E \in SUBSET (1..l)
  BY DEF CloserOf
<1>2. \A i \in 1..l : f[i] \in Nat /\ f[i] = D[t[i]]
  OBVIOUS
<1> HIDE DEF E, l, f
<1>3. \E i \in E : \A j \in E : f[i] < f[j] \/ (f[i] = f[j] /\ i <= j)
  BY <1>1, <1>2, FirstNearest DEF E
<1>4. PICK i \in E : \A j \in E : f[i] < f[j] \/ (f[i] = f[j] /\ i <= j)
  BY <1>3
<1>5. \A j \in E : D[t[i]] < D[t[j]] \/ (D[t[i]] = D[t[j]] /\ i <= j)
  BY <1>1, <1>2, <1>4
<1>6. i \in NearestOf(D, n, t)
  BY <1>4, <1>5 DEF NearestOf, E
<1> QED BY <1>6

LEMMA NearestUnique ==
    ASSUME NEW D \in [Node -> Nat], NEW n \in Node, NEW t \in Seq(Node),
           NEW i \in NearestOf(D, n, t)
    PROVE  /\ i \in 1..Len(t) /\ i \in CloserOf(D, n, t)
           /\ \A j \in CloserOf(D, n, t) :
                 D[t[i]] < D[t[j]] \/ (D[t[i]] = D[t[j]] /\ i <= j)
           /\ ChoiceOf(D, n, t) = t[i]
<1>1. /\ i \in CloserOf(D, n, t) /\ CloserOf(D, n, t) \subseteq 1..Len(t)
      /\ NearestOf(D, n, t) \subseteq CloserOf(D, n, t)
  BY DEF NearestOf, CloserOf
<1>2. ASSUME NEW j \in NearestOf(D, n, t) PROVE i = j
  <2> DEFINE di == D[t[i]]
             dj == D[t[j]]
  <2>1. j \in CloserOf(D, n, t) /\ i \in Nat /\ j \in Nat /\ di \in Nat /\ dj \in Nat
    BY <1>1
  <2>2. /\ di < dj \/ (di = dj /\ i <= j)
        /\ dj < di \/ (dj = di /\ j <= i)
    BY <1>1, <2>1 DEF NearestOf
  <2> HIDE DEF di, dj
  <2> QED BY <2>1, <2>2
<1>3. NearestOf(D, n, t) = {i}
  BY <1>2
<1>4. ChoiceOf(D, n, t) = t[i]
  BY <1>3 DEF ChoiceOf
<1> QED BY <1>1, <1>4 DEF NearestOf

(***************************************************************************)
(* One more entry at the end of a table moves the choice only to a         *)
(* strictly closer host.                                                   *)
(***************************************************************************)
LEMMA ChoiceAppend ==
    ASSUME NEW D \in [Node -> Nat], NEW n \in Node, NEW t \in Seq(Node),
           NEW m \in Node,
           ChoiceOf(D, n, Append(t, m)) # ChoiceOf(D, n, t)
    PROVE  D[ChoiceOf(D, n, Append(t, m))] < D[ChoiceOf(D, n, t)]
<1> DEFINE u == Append(t, m)
           l == Len(t)
           E == CloserOf(D, n, t)
           F == CloserOf(D, n, u)
<1>1. /\ u \in Seq(Node) /\ l \in Nat /\ Len(u) = l + 1
      /\ \A i \in 1..l : u[i] = t[i]
      /\ u[l + 1] = m
  OBVIOUS
<1> HIDE DEF u, l
<1>2. /\ E \subseteq 1..l
      /\ F = IF D[m] < D[n] THEN E \cup {l + 1} ELSE E
  BY <1>1 DEF CloserOf, l
<1>3. \A i \in E : u[i] = t[i] /\ D[t[i]] \in Nat /\ i < l + 1 /\ i \in Nat /\ D[t[i]] < D[n]
  BY <1>1, <1>2 DEF CloserOf, l
<1>4. D[m] \in Nat /\ D[n] \in Nat
  OBVIOUS
<1> HIDE DEF E, F
<1>5. CASE E = {}
  <2>1. ChoiceOf(D, n, t) = n
    BY <1>5 DEF ChoiceOf, NearestOf, E
  <2>2. F # {}
    <3>1. ASSUME F = {} PROVE ChoiceOf(D, n, u) = n
      BY <3>1 DEF ChoiceOf, NearestOf, F
    <3> QED BY <2>1, <3>1 DEF u
  <2>3. PICK i : i \in NearestOf(D, n, u)
    <3>1. NearestOf(D, n, u) # {}
      BY <1>1, <2>2, NearestExists DEF F
    <3> QED BY <3>1
  <2>4. ChoiceOf(D, n, u) = u[i] /\ i \in F
    BY <1>1, <2>3, NearestUnique DEF F
  <2>5. D[u[i]] < D[n]
    BY <2>4 DEF CloserOf, F
  <2> QED BY <2>1, <2>4, <2>5 DEF u
<1>6. CASE E # {}
  <2>1. PICK i : i \in NearestOf(D, n, t)
    <3>1. NearestOf(D, n, t) # {}
      BY <1>6, NearestExists DEF E
    <3> QED BY <3>1
  <2>2. /\ ChoiceOf(D, n, t) = t[i] /\ i \in E
        /\ \A j \in E : D[t[i]] < D[t[j]] \/ (D[t[i]] = D[t[j]] /\ i <= j)
    <3>1. /\ ChoiceOf(D, n, t) = t[i] /\ i \in CloserOf(D, n, t)
          /\ \A j \in CloserOf(D, n, t) :
                D[t[i]] < D[t[j]] \/ (D[t[i]] = D[t[j]] /\ i <= j)
      BY ONLY <2>1, NearestUnique, D \in [Node -> Nat], n \in Node, t \in Seq(Node)
    <3> QED BY ONLY <3>1 DEF E
  <2>3. CASE D[m] < D[t[i]]
    <3>1. l + 1 \in F
      BY <1>2, <1>3, <1>4, <2>2, <2>3
    <3>2. PICK k : k \in NearestOf(D, n, u)
      <4>1. NearestOf(D, n, u) # {}
        BY <1>1, <3>1, NearestExists DEF F
      <4> QED BY <4>1
    <3>3. /\ ChoiceOf(D, n, u) = u[k] /\ k \in 1..Len(u)
          /\ D[u[k]] < D[u[l + 1]] \/ D[u[k]] = D[u[l + 1]]
      <4>1. /\ ChoiceOf(D, n, u) = u[k] /\ k \in 1..Len(u)
            /\ \A j \in CloserOf(D, n, u) :
                  D[u[k]] < D[u[j]] \/ (D[u[k]] = D[u[j]] /\ k <= j)
        <5>1. u \in Seq(Node)
          BY <1>1
        <5>2. ChoiceOf(D, n, u) = u[k]
          BY ONLY <3>2, <5>1, NearestUnique, D \in [Node -> Nat], n \in Node
        <5>3. k \in 1..Len(u)
          BY ONLY <3>2, <5>1, NearestUnique, D \in [Node -> Nat], n \in Node
        <5>4. \A j \in CloserOf(D, n, u) :
                 D[u[k]] < D[u[j]] \/ (D[u[k]] = D[u[j]] /\ k <= j)
          BY ONLY <3>2 DEF NearestOf
        <5> QED BY <5>2, <5>3, <5>4
      <4>2. l + 1 \in CloserOf(D, n, u)
        BY <3>1 DEF F
      <4> QED BY ONLY <4>1, <4>2
    <3>4. u[k] \in Node /\ D[u[k]] \in Nat /\ D[t[i]] \in Nat
      BY <1>1, <1>3, <2>2, <3>3
    <3>5. D[u[k]] < D[t[i]]
      BY <1>1, <1>4, <2>3, <3>3, <3>4
    <3> QED BY <2>2, <3>3, <3>5 DEF u
  <2>4. CASE ~ (D[m] < D[t[i]])
    <3>1. D[t[i]] < D[m] \/ D[t[i]] = D[m]
      BY <1>3, <1>4, <2>2, <2>4
    <3>2. \A j \in F : D[u[i]] < D[u[j]] \/ (D[u[i]] = D[u[j]] /\ i <= j)
      <4> SUFFICES ASSUME NEW j \in F
                   PROVE  D[u[i]] < D[u[j]] \/ (D[u[i]] = D[u[j]] /\ i <= j)
        OBVIOUS
      <4>1. CASE j \in E
        BY <1>3, <2>2, <4>1
      <4>2. CASE j = l + 1
        BY <1>1, <1>3, <2>2, <3>1, <4>2
      <4> QED BY <1>2, <4>1, <4>2
    <3>3. i \in NearestOf(D, n, u)
      BY <1>2, <2>2, <3>2 DEF NearestOf, F
    <3>4. ChoiceOf(D, n, u) = t[i]
      <4>1. ChoiceOf(D, n, u) = u[i]
        BY ONLY <1>1, <3>3, NearestUnique, D \in [Node -> Nat], n \in Node
      <4> QED BY <1>3, <2>2, <4>1
    <3> QED BY <2>2, <3>4 DEF u
  <2> QED BY <2>3, <2>4
<1> QED BY <1>5, <1>6

(***************************************************************************)
(* The loop of findNextNode on a table t: after i entries, no entry is     *)
(* closer and the choice is n, or it is the first of the nearest of the    *)
(* closer ones among them.                                                 *)
(***************************************************************************)
ChosenUpTo(D, n, t, i, best) ==
    \/ best = n /\ \A j \in CloserOf(D, n, t) : ~ (j <= i)
    \/ \E k \in CloserOf(D, n, t) :
          /\ best = t[k] /\ k <= i
          /\ \A j \in CloserOf(D, n, t) :
                j <= i => D[t[k]] < D[t[j]] \/ (D[t[k]] = D[t[j]] /\ k <= j)

LEMMA ChosenStep ==
    ASSUME NEW D \in [Node -> Nat], NEW n \in Node, NEW t \in Seq(Node),
           NEW i \in 1..Len(t), NEW best, ChosenUpTo(D, n, t, i - 1, best)
    PROVE  /\ D[t[i]] < D[best] => ChosenUpTo(D, n, t, i, t[i])
           /\ ~ (D[t[i]] < D[best]) => ChosenUpTo(D, n, t, i, best)
<1> DEFINE E == CloserOf(D, n, t)
<1>1. \A j \in E : j \in 1..Len(t) /\ t[j] \in Node /\ D[t[j]] \in Nat /\ D[t[j]] < D[n]
  BY DEF CloserOf
<1>2. /\ Len(t) \in Nat /\ i \in Nat /\ t[i] \in Node /\ D[t[i]] \in Nat /\ D[n] \in Nat
      /\ i \in E <=> D[t[i]] < D[n]
  BY DEF CloserOf
<1>3. \A j \in E : j <= i => j <= i - 1 \/ j = i
  BY <1>1, <1>2
<1> HIDE DEF E
<1>4. CASE best = n /\ \A j \in E : ~ (j <= i - 1)
  <2>1. \A j \in E : j <= i => j = i
    BY <1>3, <1>4
  <2>2. CASE D[t[i]] < D[n]
    <3>1. i \in E /\ \A j \in E : j <= i => D[t[i]] = D[t[j]] /\ i <= j
      BY <1>2, <2>1, <2>2
    <3> QED BY <1>4, <1>2, <2>2, <3>1 DEF ChosenUpTo, E
  <2>3. CASE ~ (D[t[i]] < D[n])
    <3>1. \A j \in E : ~ (j <= i)
      BY <1>2, <2>1, <2>3
    <3> QED BY <1>4, <2>3, <3>1 DEF ChosenUpTo, E
  <2> QED BY <2>2, <2>3
<1>5. ASSUME NEW k \in E, best = t[k], k <= i - 1,
             \A j \in E : j <= i - 1 =>
                 D[t[k]] < D[t[j]] \/ (D[t[k]] = D[t[j]] /\ k <= j)
      PROVE  /\ D[t[i]] < D[best] => ChosenUpTo(D, n, t, i, t[i])
             /\ ~ (D[t[i]] < D[best]) => ChosenUpTo(D, n, t, i, best)
  <2>1. CASE D[t[i]] < D[t[k]]
    <3>1. i \in E
      BY <1>1, <1>2, <2>1
    <3>2. \A j \in E : j <= i => D[t[i]] < D[t[j]] \/ (D[t[i]] = D[t[j]] /\ i <= j)
      BY <1>1, <1>2, <1>3, <1>5, <2>1
    <3>3. ChosenUpTo(D, n, t, i, t[i])
      BY <1>2, <3>1, <3>2 DEF ChosenUpTo, E
    <3> QED BY <1>5, <2>1, <3>3
  <2>2. CASE ~ (D[t[i]] < D[t[k]])
    <3>1. \A j \in E : j <= i => D[t[k]] < D[t[j]] \/ (D[t[k]] = D[t[j]] /\ k <= j)
      BY <1>1, <1>2, <1>3, <1>5, <2>2
    <3>2. k <= i
      BY <1>1, <1>2, <1>5
    <3>3. ChosenUpTo(D, n, t, i, best)
      BY <1>5, <3>1, <3>2 DEF ChosenUpTo, E
    <3> QED BY <1>5, <2>2, <3>3
  <2> QED BY <2>1, <2>2
<1>6. \/ best = n /\ \A j \in E : ~ (j <= i - 1)
      \/ \E k \in E : /\ best = t[k] /\ k <= i - 1
                      /\ \A j \in E : j <= i - 1 =>
                            D[t[k]] < D[t[j]] \/ (D[t[k]] = D[t[j]] /\ k <= j)
  BY DEF ChosenUpTo, E
<1> QED BY ONLY <1>4, <1>5, <1>6

LEMMA ChosenIsChoice ==
    ASSUME NEW D \in [Node -> Nat], NEW n \in Node, NEW t \in Seq(Node),
           NEW best, ChosenUpTo(D, n, t, Len(t), best)
    PROVE  best = ChoiceOf(D, n, t)
<1>1. \A j \in CloserOf(D, n, t) : j <= Len(t)
  BY DEF CloserOf
<1>2. CASE CloserOf(D, n, t) = {}
  BY <1>2 DEF ChosenUpTo, ChoiceOf, NearestOf
<1>3. CASE CloserOf(D, n, t) # {}
  <2>1. PICK k \in NearestOf(D, n, t) : best = t[k]
    BY <1>1, <1>3 DEF ChosenUpTo, NearestOf
  <2> QED BY ONLY <2>1, NearestUnique, D \in [Node -> Nat], n \in Node,
                   t \in Seq(Node)
<1> QED BY <1>2, <1>3

\* What findNextNode is taken to return is what its loop computes.
LEMMA NextNodeIsLoop ==
    ASSUME NEW n \in Node, NEW p \in Packet, nbTable[n] \in Seq(Node)
    PROVE  FindNextNode(n, p) = LoopChoice(n, p)
<1> DEFINE t == nbTable[n]
           D == DistToDest[p]
           l == Len(t)
           Loop(f) == f = [i \in 0..l |->
                             IF i = 0 THEN n
                             ELSE IF D[t[i]] < D[f[i-1]] THEN t[i] ELSE f[i-1]]
           best == CHOOSE f : Loop(f)
           G == [i \in 1..l |-> [b \in Node |-> IF D[t[i]] < D[b] THEN t[i] ELSE b]]
<1>1. LoopChoice(n, p) = best[l]
  BY DEF LoopChoice
<1>2. D \in [Node -> Nat] /\ t \in Seq(Node) /\ l \in Nat /\ \A i \in 1..l : t[i] \in Node
  <2>1. D \in [Node -> Nat] /\ t \in Seq(Node)
    OBVIOUS
  <2> HIDE DEF t, D
  <2> QED BY <2>1, SeqEntries
<1> HIDE DEF t, D
<1>3. Loop(best)
  <2>1. G \in [1..l -> [Node -> Node]]
    BY <1>2
  <2>2. \A i \in 1..l : \A b \in Node : G[i][b] = IF D[t[i]] < D[b] THEN t[i] ELSE b
    OBVIOUS
  <2> HIDE DEF l, G
  <2>3. PICK f \in [0..l -> Node] : IsLoop(f, l, n, G)
    BY <1>2, <2>1, LoopExists
  <2>4. f[0] = n /\ \A i \in 1..l : f[i] = G[i][f[i-1]]
    BY <2>3 DEF IsLoop
  <2>5. \A i \in 1..l : f[i] = IF D[t[i]] < D[f[i-1]] THEN t[i] ELSE f[i-1]
    <3>1. \A i \in 1..l : i - 1 \in 0..l
      BY <1>2
    <3> QED BY <2>2, <2>4, <3>1
  <2>6. Loop(f)
    <3>1. \A i \in 0..l : i = 0 \/ i \in 1..l
      BY <1>2
    <3> QED BY <2>4, <2>5, <3>1
  <2> QED BY <2>6
<1> HIDE DEF best, l, G
<1>4. /\ best[0] = n
      /\ \A i \in 1..l : best[i] = IF D[t[i]] < D[best[i-1]] THEN t[i] ELSE best[i-1]
  <2>1. 0 \in 0..l /\ \A i \in 1..l : i \in 0..l /\ i # 0
    BY <1>2
  <2> QED BY ONLY <1>3, <2>1
<1> DEFINE S == {i \in 0..l : ChosenUpTo(D, n, t, i, best[i])}
<1>5. 0 \in S
  <2>1. \A j \in CloserOf(D, n, t) : ~ (j <= 0)
    BY DEF CloserOf
  <2>2. ChosenUpTo(D, n, t, 0, best[0])
    BY <1>4, <2>1 DEF ChosenUpTo
  <2> QED BY <1>2, <2>2
<1>6. \A i \in 1..l : i - 1 \in S => i \in S
  <2> SUFFICES ASSUME NEW i \in 1..l, i - 1 \in S PROVE i \in S
    OBVIOUS
  <2>1. ChosenUpTo(D, n, t, i - 1, best[i-1])
    OBVIOUS
  <2>2. ChosenUpTo(D, n, t, i, best[i])
    BY <1>2, <1>4, <2>1, ChosenStep DEF l
  <2> QED BY <1>2, <2>2
<1>7. ChosenUpTo(D, n, t, l, best[l])
  <2> HIDE DEF S
  <2>1. \A i \in 0..l : i \in S
    BY ONLY <1>2, <1>5, <1>6, Induct
  <2>2. l \in S
    BY <1>2, <2>1
  <2> QED BY <2>2 DEF S
<1>8. best[l] = ChoiceOf(D, n, t)
  BY <1>2, <1>7, ChosenIsChoice DEF l
<1> QED BY <1>1, <1>8, FindNextIsChoice DEF t, D

\* A beacon improves the next hop or leaves it.
LEMMA NextHopStep ==
    ASSUME nbTable \in [Node -> Seq(Node)], NEW h \in Node, NEW m \in Node,
           nbTable' = UpdateNbTable(h, m), NEW n \in Node, NEW p \in Packet,
           FindNextNode(n, p)' # FindNextNode(n, p)
    PROVE  DistToDest[p][FindNextNode(n, p)'] < DistToDest[p][FindNextNode(n, p)]
<1>1. nbTable'[n] = nbTable[n] \/ nbTable'[n] = Append(nbTable[n], m)
  BY DEF UpdateNbTable
<1>2. nbTable'[n] # nbTable[n]
  BY FindNextIsChoice
<1>3. nbTable[n] \in Seq(Node) /\ DistToDest[p] \in [Node -> Nat]
  OBVIOUS
<1> DEFINE t == nbTable[n]
           D == DistToDest[p]
<1>4. /\ FindNextNode(n, p) = ChoiceOf(D, n, t)
      /\ FindNextNode(n, p)' = ChoiceOf(D, n, Append(t, m))
  BY <1>1, <1>2, FindNextIsChoice
<1>5. t \in Seq(Node) /\ D \in [Node -> Nat]
  BY <1>3
<1> HIDE DEF t, D
<1>6. D[ChoiceOf(D, n, Append(t, m))] < D[ChoiceOf(D, n, t)]
  BY <1>4, <1>5, ChoiceAppend
<1> QED BY <1>4, <1>6 DEF D

\* updateNbTable keeps a table of hosts.
LEMMA UpdateNbTableType ==
    ASSUME NEW n \in Node, NEW m \in Node, nbTable \in [Node -> Seq(Node)]
    PROVE  UpdateNbTable(n, m) \in [Node -> Seq(Node)]
<1>1. Append(nbTable[n], m) \in Seq(Node)
  OBVIOUS
<1>2. [nbTable EXCEPT ![n] = Append(@, m)] \in [Node -> Seq(Node)]
  BY <1>1
<1> QED BY <1>2 DEF UpdateNbTable

\* Beacons in flight stay counted when one host sends, or one copy arrives.
LEMMA BeaconsSent ==
    ASSUME NEW f \in [Node -> [Node -> Nat]], NEW n \in Node, NEW heard
    PROVE  [f EXCEPT ![n] = [m \in Node |-> IF m \in heard THEN @[m] + 1 ELSE @[m]]]
             \in [Node -> [Node -> Nat]]
<1>1. \A m \in Node : f[n][m] \in Nat
  OBVIOUS
<1> QED BY <1>1

LEMMA BeaconReceived ==
    ASSUME NEW f \in [Node -> [Node -> Nat]], NEW m \in Node, NEW n \in Node,
           f[m][n] > 0
    PROVE  [f EXCEPT ![m][n] = @ - 1] \in [Node -> [Node -> Nat]]
<1>1. f[m][n] - 1 \in Nat
  OBVIOUS
<1>2. [f[m] EXCEPT ![n] = @ - 1] \in [Node -> Nat]
  BY <1>1
<1> QED BY <1>2

\* A table grows by one entry at its end.
LEMMA AppendEntries ==
    ASSUME NEW t \in Seq(Node), NEW n \in Node
    PROVE  /\ Len(t) \in Nat
           /\ Len(Append(t, n)) = Len(t) + 1
           /\ Append(t, n)[Len(t) + 1] = n
           /\ \A i \in 1..Len(t) : t[i] \in Node /\ Append(t, n)[i] = t[i]
OBVIOUS

-----------------------------------------------------------------------------
(***************************************************************************)
(* The timer is scheduled exactly while beacons remain to be sent: the     *)
(* strengthening that bounds nbUpdateCnt.                                  *)
(***************************************************************************)
BeaconTimer == \A n \in Node : timer[n] => nbUpdateCnt[n] <= NbUpdateLimit

NbTypeInv == NbTypeOK /\ BeaconTimer

LEMMA NbTypeInit == NbInit => NbTypeInv
BY DEF NbInit, NbTypeInv, NbTypeOK, BeaconTimer

LEMMA NbTypeSend ==
    ASSUME NbTypeInv, NEW n \in Node, HandleSelfMsg(n)
    PROVE  NbTypeInv'
<1>1. /\ timer \in [Node -> BOOLEAN]
      /\ nbUpdateCnt \in [Node -> 0..NbUpdateLimit + 1]
      /\ beacons \in [Node -> [Node -> Nat]]
      /\ nbUpdateCnt[n] <= NbUpdateLimit
  BY DEF NbTypeInv, NbTypeOK, BeaconTimer, HandleSelfMsg
<1>2. /\ timer' = [timer EXCEPT ![n] = nbUpdateCnt[n] < NbUpdateLimit]
      /\ nbUpdateCnt' = [nbUpdateCnt EXCEPT ![n] = @ + 1]
  BY DEF HandleSelfMsg, SendsMore
<1>3. timer' \in [Node -> BOOLEAN]
  BY <1>1, <1>2
<1>4. nbUpdateCnt' \in [Node -> 0..NbUpdateLimit + 1]
  BY <1>1, <1>2
<1>5. beacons' \in [Node -> [Node -> Nat]]
  BY <1>1, BeaconsSent DEF HandleSelfMsg
<1>6. BeaconTimer'
  <2>1. ASSUME NEW k \in Node, timer'[k]
        PROVE  nbUpdateCnt'[k] <= NbUpdateLimit
    <3>1. CASE k = n
      <4>1. timer'[n] = (nbUpdateCnt[n] < NbUpdateLimit)
        BY <1>1, <1>2, Zenon
      <4>2. nbUpdateCnt'[n] = nbUpdateCnt[n] + 1
        BY <1>1, <1>2
      <4>3. nbUpdateCnt[n] \in Nat
        BY <1>1
      <4>4. nbUpdateCnt[n] < NbUpdateLimit
        BY <2>1, <3>1, <4>1
      <4> QED BY <3>1, <4>2, <4>3, <4>4
    <3>2. CASE k # n
      <4>1. timer[k] /\ nbUpdateCnt'[k] = nbUpdateCnt[k]
        BY <1>1, <1>2, <2>1, <3>2
      <4> QED BY <4>1 DEF NbTypeInv, BeaconTimer
    <3> QED BY <3>1, <3>2
  <2> QED BY <2>1 DEF BeaconTimer
<1> QED
  BY <1>3, <1>4, <1>5, <1>6 DEF HandleSelfMsg, NbTypeOK, NbTypeInv

LEMMA NbTypeHear ==
    ASSUME NbTypeInv, NEW n \in Node, NEW m \in Node, HandleNbBroadcast(n, m)
    PROVE  NbTypeInv'
<1>1. nbTable' \in [Node -> Seq(Node)]
  BY UpdateNbTableType DEF HandleNbBroadcast, NbTypeInv, NbTypeOK
<1>2. beacons' \in [Node -> [Node -> Nat]]
  BY BeaconReceived DEF HandleNbBroadcast, NbTypeInv, NbTypeOK
<1>3. UNCHANGED <<nbUpdateCnt, timer>>
  BY DEF HandleNbBroadcast
<1> QED BY <1>1, <1>2, <1>3 DEF NbTypeOK, NbTypeInv, BeaconTimer

LEMMA NbTypeStutter == NbTypeInv /\ UNCHANGED nbVars => NbTypeInv'
BY DEF nbVars, NbTypeInv, NbTypeOK, BeaconTimer

-----------------------------------------------------------------------------
(***************************************************************************)
(* Where the entries of a table come from.  The strengthening counts the   *)
(* beacons on their way: never more than were sent, and only to hosts in   *)
(* range, so that a reception leaves fewer on their way than were sent.    *)
(***************************************************************************)
BeaconsInRange ==
    \A m, n \in Node : /\ beacons[m][n] <= nbUpdateCnt[m]
                       /\ beacons[m][n] > 0 => n \in InRange[m]

Distinct(t) == \A i, j \in 1..Len(t) : t[i] = t[j] => i = j

FromBeacons(t, n) ==
    \A i \in 1..Len(t) : n \in InRange[t[i]] /\ beacons[t[i]][n] < nbUpdateCnt[t[i]]

NbTableInv ==
    /\ BeaconsInRange
    /\ \A n \in Node : Distinct(nbTable[n]) /\ FromBeacons(nbTable[n], n)

LEMMA NbTableSound == NbTypeOK /\ NbTableInv => TableFromBeacons
<1> SUFFICES ASSUME NbTypeOK, NbTableInv, NEW n \in Node
             PROVE  /\ \A i, j \in 1..Len(nbTable[n]) :
                           nbTable[n][i] = nbTable[n][j] => i = j
                    /\ \A m \in Heard(n) : /\ m \in Neighbours(n)
                                           /\ beacons[m][n] < nbUpdateCnt[m]
  BY DEF TableFromBeacons
<1>1. nbTable[n] \in Seq(Node)
  BY DEF NbTypeOK
<1>2. \A i \in 1..Len(nbTable[n]) : nbTable[n][i] \in Node
  BY <1>1
<1> QED BY <1>2 DEF NbTableInv, Distinct, FromBeacons, Heard, Neighbours

LEMMA NbTableInit == NbInit => NbTableInv
BY DEF NbInit, NbTableInv, BeaconsInRange, Distinct, FromBeacons

LEMMA NbTableSend ==
    ASSUME NbTypeOK, NbTableInv, NEW n \in Node, HandleSelfMsg(n)
    PROVE  NbTableInv'
<1>1. /\ nbUpdateCnt \in [Node -> Nat]
      /\ beacons \in [Node -> [Node -> Nat]]
      /\ nbTable \in [Node -> Seq(Node)]
  BY DEF NbTypeOK
<1>2. PICK heard \in Reach(n) :
        beacons' = [beacons EXCEPT ![n] =
                      [m \in Node |-> IF m \in heard THEN @[m] + 1 ELSE @[m]]]
  BY DEF HandleSelfMsg
<1>3. heard \subseteq InRange[n]
  BY DEF Reach
<1>4. /\ nbUpdateCnt'[n] = nbUpdateCnt[n] + 1
      /\ \A k \in Node : k # n => nbUpdateCnt'[k] = nbUpdateCnt[k]
      /\ nbTable' = nbTable
  BY <1>1 DEF HandleSelfMsg
<1>5. /\ \A m \in Node : beacons'[n][m] =
            IF m \in heard THEN beacons[n][m] + 1 ELSE beacons[n][m]
      /\ \A k \in Node : k # n => beacons'[k] = beacons[k]
  BY <1>1, <1>2
<1>6. ASSUME NEW k \in Node, NEW m \in Node
      PROVE  /\ beacons'[k][m] <= nbUpdateCnt'[k]
             /\ beacons'[k][m] > 0 => m \in InRange[k]
             /\ beacons[k][m] < nbUpdateCnt[k] => beacons'[k][m] < nbUpdateCnt'[k]
  <2>1. /\ beacons[k][m] \in Nat /\ nbUpdateCnt[k] \in Nat
        /\ beacons[k][m] <= nbUpdateCnt[k]
        /\ beacons[k][m] > 0 => m \in InRange[k]
    BY <1>1 DEF NbTableInv, BeaconsInRange
  <2>2. CASE k = n
    BY <1>3, <1>4, <1>5, <2>1, <2>2
  <2>3. CASE k # n
    BY <1>4, <1>5, <2>1, <2>3
  <2> QED BY <2>2, <2>3
<1>7. \A k \in Node : FromBeacons(nbTable[k], k)'
  <2> SUFFICES ASSUME NEW k \in Node, NEW i \in 1..Len(nbTable[k])
               PROVE  /\ k \in InRange[nbTable[k][i]]
                      /\ beacons'[nbTable[k][i]][k] < nbUpdateCnt'[nbTable[k][i]]
    BY <1>4 DEF FromBeacons
  <2>1. nbTable[k][i] \in Node
    BY <1>1
  <2> QED BY <1>6, <2>1 DEF NbTableInv, FromBeacons
<1> QED BY <1>4, <1>6, <1>7 DEF NbTableInv, BeaconsInRange

LEMMA NbTableHear ==
    ASSUME NbTypeOK, NbTableInv, NEW n \in Node, NEW m \in Node,
           HandleNbBroadcast(n, m)
    PROVE  NbTableInv'
<1>1. /\ nbUpdateCnt \in [Node -> Nat] /\ nbUpdateCnt' = nbUpdateCnt
      /\ beacons \in [Node -> [Node -> Nat]]
      /\ nbTable \in [Node -> Seq(Node)]
      /\ beacons[m][n] > 0 /\ n \in InRange[m]
  BY DEF NbTypeOK, HandleNbBroadcast, NbTableInv, BeaconsInRange
<1>2. beacons' = [beacons EXCEPT ![m][n] = @ - 1]
  BY DEF HandleNbBroadcast
<1>3. ASSUME NEW k \in Node, NEW l \in Node
      PROVE  /\ beacons'[k][l] <= beacons[k][l]
             /\ beacons'[k][l] <= nbUpdateCnt[k]
             /\ beacons'[k][l] > 0 => l \in InRange[k]
             /\ k = m /\ l = n => beacons'[k][l] < nbUpdateCnt[k]
             /\ beacons[k][l] < nbUpdateCnt[k] => beacons'[k][l] < nbUpdateCnt[k]
  <2>1. /\ beacons[k][l] \in Nat /\ nbUpdateCnt[k] \in Nat
        /\ beacons[k][l] <= nbUpdateCnt[k]
        /\ beacons[k][l] > 0 => l \in InRange[k]
    BY <1>1 DEF NbTableInv, BeaconsInRange
  <2>2. CASE k = m /\ l = n
    <3>1. beacons'[k][l] = beacons[k][l] - 1
      BY <1>1, <1>2, <2>2
    <3> QED BY <1>1, <2>1, <2>2, <3>1
  <2>3. CASE ~ (k = m /\ l = n)
    <3>1. beacons'[k][l] = beacons[k][l]
      BY <1>1, <1>2, <2>3
    <3> QED BY <2>1, <2>3, <3>1
  <2> QED BY <2>2, <2>3
<1>4. ASSUME NEW t \in Seq(Node), NEW k \in Node, FromBeacons(t, k)
      PROVE  \A i \in 1..Len(t) : /\ k \in InRange[t[i]]
                                   /\ beacons'[t[i]][k] < nbUpdateCnt'[t[i]]
  <2> SUFFICES ASSUME NEW i \in 1..Len(t)
               PROVE  k \in InRange[t[i]] /\ beacons'[t[i]][k] < nbUpdateCnt'[t[i]]
    OBVIOUS
  <2>1. t[i] \in Node
    OBVIOUS
  <2> QED BY <1>1, <1>3, <1>4, <2>1 DEF FromBeacons
<1>5. ASSUME NEW k \in Node
      PROVE  Distinct(nbTable'[k]) /\ FromBeacons(nbTable[k], k)'
  <2>0. /\ nbTable[k] \in Seq(Node)
        /\ Distinct(nbTable[k]) /\ FromBeacons(nbTable[k], k)
    BY <1>1 DEF NbTableInv
  <2>1. CASE nbTable'[k] = nbTable[k]
    <3>1. \A i \in 1..Len(nbTable[k]) :
              /\ k \in InRange[nbTable[k][i]]
              /\ beacons'[nbTable[k][i]][k] < nbUpdateCnt'[nbTable[k][i]]
      BY <1>4, <2>0
    <3> QED BY <2>0, <2>1, <3>1 DEF FromBeacons
  <2>2. CASE nbTable'[k] # nbTable[k]
    <3> DEFINE t == nbTable[n]
    <3>1. /\ k = n
          /\ nbTable'[n] = Append(t, m)
          /\ \A i \in 1..Len(t) : t[i] # m
      BY <1>1, <2>2 DEF HandleNbBroadcast, UpdateNbTable
    <3>2. /\ Len(t) \in Nat
          /\ Len(Append(t, m)) = Len(t) + 1
          /\ Append(t, m)[Len(t) + 1] = m
          /\ \A i \in 1..Len(t) : t[i] \in Node /\ Append(t, m)[i] = t[i]
      BY <1>1, AppendEntries
    <3>3. Distinct(t) /\ FromBeacons(t, n)
      BY <2>0, <3>1
    <3>4. FromBeacons(t, n) => \A i \in 1..Len(t) :
              n \in InRange[t[i]] /\ beacons'[t[i]][n] < nbUpdateCnt[t[i]]
      BY <1>3, <3>2 DEF FromBeacons
    <3>5. n \in InRange[m] /\ beacons'[m][n] < nbUpdateCnt[m]
      BY <1>1, <1>3
    <3> HIDE DEF t
    <3>6. Distinct(Append(t, m))
      BY <3>1, <3>2, <3>3 DEF Distinct
    <3>7. \A i \in 1..Len(Append(t, m)) :
              /\ n \in InRange[Append(t, m)[i]]
              /\ beacons'[Append(t, m)[i]][n] < nbUpdateCnt[Append(t, m)[i]]
      BY <3>2, <3>3, <3>4, <3>5
    <3> QED BY <1>1, <3>1, <3>6, <3>7 DEF FromBeacons
  <2> QED BY <2>1, <2>2
<1> QED BY <1>1, <1>3, <1>5 DEF NbTableInv, BeaconsInRange

LEMMA NbTableStutter == NbTableInv /\ UNCHANGED nbVars => NbTableInv'
BY DEF nbVars, NbTableInv, BeaconsInRange, Distinct, FromBeacons

-----------------------------------------------------------------------------
(***************************************************************************)
(* A radio that loses nothing: a host that has sent a beacon is, for each  *)
(* host in range of it, either on its way or in the table.                 *)
(***************************************************************************)
Announced ==
    /\ \A n \in Node : timer[n] \/ nbUpdateCnt[n] # 0
    /\ \A m \in Node : \A n \in InRange[m] :
          nbUpdateCnt[m] # 0 => beacons[m][n] # 0 \/ m \in Heard(n)

TablesFull == \A n \in Node : Neighbours(n) \subseteq Heard(n)

LEMMA AnnouncedInit == NbInit => Announced
BY DEF NbInit, Announced

LEMMA AnnouncedStutter ==
    /\ Announced /\ UNCHANGED nbVars => Announced'
    /\ TablesFull /\ UNCHANGED nbTable => TablesFull'
<1>1. ASSUME UNCHANGED nbTable PROVE \A n \in Node : Heard(n)' = Heard(n)
  BY <1>1 DEF Heard
<1>2. ASSUME Announced, UNCHANGED nbVars PROVE Announced'
  <2>1. \A m \in Node : \A n \in InRange[m] : n \in Node
    OBVIOUS
  <2> QED BY <1>1, <1>2, <2>1 DEF nbVars, Announced
<1>3. ASSUME TablesFull, UNCHANGED nbTable PROVE TablesFull'
  BY <1>1, <1>3 DEF TablesFull, Neighbours
<1> QED BY <1>2, <1>3

LEMMA AnnouncedSend ==
    ASSUME ~ Lossy, NbTypeOK, Announced, NEW h \in Node, HandleSelfMsg(h)
    PROVE  Announced'
<1>1. /\ nbUpdateCnt \in [Node -> Nat] /\ timer \in [Node -> BOOLEAN]
      /\ beacons \in [Node -> [Node -> Nat]]
  BY DEF NbTypeOK
<1>2. beacons' = [beacons EXCEPT ![h] =
                    [m \in Node |-> IF m \in InRange[h] THEN @[m] + 1 ELSE @[m]]]
  BY DEF HandleSelfMsg, Reach
<1>3. /\ nbUpdateCnt'[h] = nbUpdateCnt[h] + 1 /\ nbUpdateCnt'[h] # 0
      /\ \A k \in Node : k # h =>
            nbUpdateCnt'[k] = nbUpdateCnt[k] /\ timer'[k] = timer[k]
  BY <1>1 DEF HandleSelfMsg
<1>4. /\ \A n \in InRange[h] : beacons'[h][n] = beacons[h][n] + 1
      /\ \A k \in Node : k # h => beacons'[k] = beacons[k]
  BY <1>1, <1>2
<1>5. \A n \in InRange[h] : beacons'[h][n] # 0
  <2>1. \A n \in InRange[h] : beacons[h][n] \in Nat
    BY <1>1
  <2> QED BY <1>4, <2>1
<1>6. \A n \in Node : Heard(n)' = Heard(n)
  BY DEF HandleSelfMsg, Heard
<1>7. \A n \in Node : timer'[n] \/ nbUpdateCnt'[n] # 0
  BY <1>3 DEF Announced
<1>8. ASSUME NEW m \in Node, NEW n \in InRange[m], nbUpdateCnt'[m] # 0
      PROVE  beacons'[m][n] # 0 \/ m \in Heard(n)'
  <2>1. CASE m = h
    BY <1>5, <2>1
  <2>2. CASE m # h
    <3>1. n \in Node
      OBVIOUS
    <3> QED BY <1>3, <1>4, <1>6, <1>8, <2>2, <3>1 DEF Announced
  <2> QED BY <2>1, <2>2
<1> QED BY <1>7, <1>8 DEF Announced

\* Tables only grow, and the host of a beacon is in the table that heard it.
LEMMA HeardGrows ==
    ASSUME NbTypeOK, NEW h \in Node, NEW k \in Node, HandleNbBroadcast(h, k)
    PROVE  /\ k \in Heard(h)'
           /\ \A n \in Node : Heard(n) \subseteq Heard(n)'
<1> DEFINE t == nbTable[h]
           u == nbTable'[h]
<1>1. nbTable \in [Node -> Seq(Node)] /\ t \in Seq(Node)
  BY DEF NbTypeOK
<1>2. nbTable' = UpdateNbTable(h, k)
  BY DEF HandleNbBroadcast
<1>3. CASE \E i \in 1..Len(t) : t[i] = k
  BY <1>2, <1>3 DEF UpdateNbTable, Heard
<1>4. CASE ~ \E i \in 1..Len(t) : t[i] = k
  <2>1. u = Append(t, k) /\ \A n \in Node : n # h => nbTable'[n] = nbTable[n]
    BY <1>1, <1>2, <1>4 DEF UpdateNbTable
  <2>2. /\ Len(t) \in Nat /\ Len(u) = Len(t) + 1 /\ u[Len(t) + 1] = k
        /\ \A i \in 1..Len(t) : u[i] = t[i]
    BY ONLY <1>1, <2>1, k \in Node, AppendEntries
  <2>3. Heard(h) = {t[i] : i \in 1..Len(t)} /\ Heard(h)' = {u[i] : i \in 1..Len(u)}
    BY DEF Heard
  <2>4. \A n \in Node : n # h => Heard(n)' = Heard(n)
    BY <2>1 DEF Heard
  <2> HIDE DEF t, u
  <2>5. 1..Len(t) \subseteq 1..Len(u) /\ Len(t) + 1 \in 1..Len(u)
    BY <2>2
  <2>6. k \in Heard(h)' /\ Heard(h) \subseteq Heard(h)'
    BY <2>2, <2>3, <2>5
  <2> QED BY <2>4, <2>6
<1> QED BY <1>3, <1>4

LEMMA AnnouncedHear ==
    ASSUME NbTypeOK, Announced, NEW h \in Node, NEW k \in Node,
           HandleNbBroadcast(h, k)
    PROVE  Announced'
<1>1. beacons \in [Node -> [Node -> Nat]]
  BY DEF NbTypeOK
<1>2. UNCHANGED <<nbUpdateCnt, timer>>
  BY DEF HandleNbBroadcast
<1>3. ASSUME NEW m \in Node, NEW n \in InRange[m], nbUpdateCnt'[m] # 0
      PROVE  beacons'[m][n] # 0 \/ m \in Heard(n)'
  <2>1. n \in Node
    OBVIOUS
  <2>2. CASE m = k /\ n = h
    BY <2>2, HeardGrows
  <2>3. CASE ~ (m = k /\ n = h)
    <3>1. beacons'[m][n] = beacons[m][n]
      BY <1>1, <2>1, <2>3 DEF HandleNbBroadcast
    <3>2. Heard(n) \subseteq Heard(n)'
      BY <2>1, HeardGrows
    <3> QED BY <1>2, <1>3, <3>1, <3>2 DEF Announced
  <2> QED BY <2>2, <2>3
<1> QED BY <1>2, <1>3 DEF Announced

LEMMA FullKept ==
    ASSUME NbTypeOK, TablesFull,
           \/ \E n \in Node : HandleSelfMsg(n)
           \/ \E n, m \in Node : HandleNbBroadcast(n, m)
    PROVE  TablesFull'
<1>1. CASE \E n \in Node : HandleSelfMsg(n)
  <2>1. nbTable' = nbTable
    BY <1>1 DEF HandleSelfMsg
  <2> QED BY <2>1, AnnouncedStutter
<1>2. CASE \E n, m \in Node : HandleNbBroadcast(n, m)
  <2>1. \A n \in Node : Heard(n) \subseteq Heard(n)'
    BY <1>2, HeardGrows
  <2> QED BY <2>1 DEF TablesFull, Neighbours
<1> QED BY <1>1, <1>2

LEMMA FullWhenQuiet ==
    ASSUME Announced, Quiet, \A n \in Node : nbUpdateCnt[n] # 0
    PROVE  TablesFull
BY DEF Announced, Quiet, TablesFull, Neighbours

\* With its table full, a host with no closer entry is in a void.
LEMMA VoidWhenStuck ==
    ASSUME NbTypeOK, TablesFull, NEW n \in Node, NEW p \in Packet,
           CloserEntries(n, p) = {}
    PROVE  Void(n, p)
<1>1. ASSUME NEW m \in Neighbours(n) PROVE DistToDest[p][m] >= DistToDest[p][n]
  <2>1. PICK i \in 1..Len(nbTable[n]) : nbTable[n][i] = m
    BY DEF TablesFull, Heard
  <2>2. ~ (DistToDest[p][m] < DistToDest[p][n])
    BY <2>1 DEF CloserEntries
  <2>3. DistToDest[p][m] \in Nat /\ DistToDest[p][n] \in Nat
    BY DEF Neighbours
  <2> QED BY <2>2, <2>3
<1> QED BY <1>1 DEF Void

\* findNextNode returns the host itself only if no entry is closer.
LEMMA NoNextHop ==
    ASSUME NbTypeOK, NEW n \in Node, NEW p \in Packet, FindNextNode(n, p) = n
    PROVE  CloserEntries(n, p) = {}
<1> DEFINE t == nbTable[n]
           D == DistToDest[p]
<1>1. t \in Seq(Node) /\ D \in [Node -> Nat]
  BY DEF NbTypeOK
<1>2. ChoiceOf(D, n, t) = n
  BY FindNextIsChoice
<1>3. CloserEntries(n, p) = CloserOf(D, n, t)
  BY DEF CloserEntries, CloserOf
<1> HIDE DEF t, D
<1>4. SUFFICES ASSUME CloserOf(D, n, t) # {} PROVE FALSE
  BY <1>3
<1>5. PICK i : i \in NearestOf(D, n, t)
  <2>1. NearestOf(D, n, t) # {}
    BY <1>1, <1>4, NearestExists
  <2> QED BY <2>1
<1>6. i \in CloserOf(D, n, t) /\ ChoiceOf(D, n, t) = t[i]
  BY ONLY <1>1, <1>5, n \in Node, NearestUnique
<1>7. D[n] < D[n] /\ D[n] \in Nat
  BY <1>1, <1>2, <1>6 DEF CloserOf
<1> QED BY <1>7
=============================================================================
